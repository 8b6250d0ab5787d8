-------------------------- MODULE TableRows_proofs --------------------------
(***************************************************************************)
(* The rows of the table, and of lm_head, for every division of them: a    *)
(* table that was accepted returns each row's own bytes, by either reader; *)
(* the byte-wise sum of the ranks' buffers is the row; and the ranks'      *)
(* logits add up to those of the whole head.                               *)
(*                                                                         *)
(* From "Division, step by step" on, the algorithms that run without a     *)
(* state: the search, the hash, the four-bit cache, the padding of the     *)
(* weights and the numbers of the devices, for all that may be asked; and  *)
(* that the heads of a table stay apart.                                   *)
(***************************************************************************)
EXTENDS TableRows, Algorithms, TokenSearch_proofs

-----------------------------------------------------------------------------
(* Arithmetic of the slices                                                *)

LEMMA ProductMonotone ==
  ASSUME NEW a \in Int, NEW b \in Int, NEW p \in Nat, a <= b
  PROVE  a * p <= b * p
  BY SMT

LEMMA ConstTypes ==
  /\ TP \in Nat /\ TP > 0 /\ Rows \in Nat /\ Rows > 0 /\ PerRank \in Nat /\ PerRank > 0
  /\ Byte \in Nat /\ Byte > 1
  BY SliceAssumption

(* No id belongs to two ranks.                                             *)
LEMMA OneOwner ==
  ASSUME NEW r \in Ranks, NEW q \in Ranks, NEW id \in RowIds, Owner(r, id), Owner(q, id)
  PROVE  r = q
<1>1. r \in Int /\ q \in Int /\ id \in Int
  BY ConstTypes DEF Ranks, RowIds
<1>2. id >= r * PerRank /\ id < (r + 1) * PerRank /\ id >= q * PerRank /\ id < (q + 1) * PerRank
  BY <1>1, ConstTypes DEF Owner, Start, End, Least, RowIds
<1>3. CASE r < q
  <2>1. (r + 1) * PerRank <= q * PerRank
    BY <1>1, <1>3, ProductMonotone, ConstTypes
  <2> QED BY <2>1, <1>1, <1>2, ConstTypes
<1>4. CASE q < r
  <2>1. (q + 1) * PerRank <= r * PerRank
    BY <1>1, <1>4, ProductMonotone, ConstTypes
  <2> QED BY <2>1, <1>1, <1>2, ConstTypes
<1> QED BY <1>1, <1>3, <1>4

(* Every id belongs to a rank.                                             *)
LEMMA SomeOwner ==
  ASSUME NEW id \in RowIds
  PROVE  \E r \in Ranks : Owner(r, id)
<1> DEFINE d == id \div PerRank
<1>1. id \in Nat /\ id < Rows
  BY ConstTypes DEF RowIds
<1>2. d \in Nat /\ d * PerRank <= id /\ id < (d + 1) * PerRank
  BY <1>1, ConstTypes
<1>3. d < TP
  <2> SUFFICES ASSUME TP <= d PROVE FALSE
    BY <1>2, ConstTypes
  <2>1. TP * PerRank <= d * PerRank
    BY <1>2, ProductMonotone, ConstTypes
  <2>2. TP * PerRank \in Int /\ d * PerRank \in Int
    BY <1>2, ConstTypes
  <2> QED BY <2>1, <2>2, <1>1, <1>2, SliceAssumption
<1>4. d \in Ranks
  BY <1>2, <1>3, ConstTypes DEF Ranks
<1>5. Owner(d, id)
  <2> HIDE DEF d
  <2>1. d * PerRank \in Int /\ (d + 1) * PerRank \in Int
    BY <1>2, ConstTypes
  <2> QED BY <2>1, <1>1, <1>2, ConstTypes DEF Owner, Start, End, Least
<1> QED BY <1>4, <1>5

-----------------------------------------------------------------------------
(* What a rank looks up                                                    *)

LEMMA SliceInts ==
  ASSUME NEW r \in Ranks
  PROVE  /\ r \in Nat /\ Start(r) \in Int /\ End(r) \in Int /\ Count(r) \in Nat
         /\ Start(r) >= 0 /\ End(r) <= Rows
         /\ Count(r) > 0 => Count(r) = End(r) - Start(r)
<1>1. r \in Nat
  BY ConstTypes DEF Ranks
<1>2. r * PerRank \in Nat /\ (r + 1) * PerRank \in Nat
  BY <1>1, ConstTypes
<1>3. Start(r) \in Nat /\ End(r) \in Nat /\ End(r) <= Rows
  BY <1>2, ConstTypes DEF Start, End, Least
<1> QED BY <1>1, <1>3 DEF Count

LEMMA OwnRowsAre ==
  ASSUME TypeInv, SlabInv, NEW r \in loaded, Count(r) # 0
  PROVE  OwnRows(r) = [i \in SlotIds |-> IF Owner(r, ids[i]) THEN Table[ids[i]] ELSE 0]
<1> SUFFICES ASSUME NEW i \in SlotIds
             PROVE  OwnRows(r)[i] = IF Owner(r, ids[i]) THEN Table[ids[i]] ELSE 0
  BY DEF OwnRows
<1>1. r \in Ranks
  BY DEF TypeInv
<1>2. ids[i] \in RowIds /\ ids[i] \in Int
  BY ConstTypes DEF TypeInv, RowIds
<1> DEFINE local == ids[i] - Start(r)
           place == IF 0 <= local /\ local < Count(r) THEN local ELSE 0
<1>3. Start(r) \in Int /\ End(r) \in Int /\ End(r) <= Rows /\ Start(r) >= 0
      /\ Count(r) = End(r) - Start(r) /\ Count(r) > 0
  BY <1>1, SliceInts
<1>4. local \in Int /\ place \in 0..Count(r)-1
  BY <1>2, <1>3
<1>5. Owner(r, ids[i]) <=> (0 <= local /\ local < Count(r))
  BY <1>2, <1>3 DEF Owner
<1>6. slab[r][place] = Table[Start(r) + place]
  BY <1>4, ZenonT(60) DEF SlabInv
<1>7. Start(r) + place \in RowIds
  BY <1>3, <1>4, ConstTypes DEF RowIds
<1>8. slab[r][place] \in Int
  BY <1>6, <1>7, SliceAssumption, ConstTypes
<1>9. OwnRows(r)[i] = slab[r][place] * (IF 0 <= local /\ local < Count(r) THEN 1 ELSE 0)
  BY DEF OwnRows
<1>10. CASE Owner(r, ids[i])
  <2>1. place = local /\ Start(r) + place = ids[i]
    BY <1>2, <1>3, <1>5, <1>10
  <2>2. OwnRows(r)[i] = slab[r][place] * 1
    BY <1>5, <1>9, <1>10
  <2>3. OwnRows(r)[i] = slab[r][place]
    BY <2>2, <1>8
  <2> QED BY <2>1, <2>3, <1>6, <1>10
<1>11. CASE ~Owner(r, ids[i])
  <2>1. OwnRows(r)[i] = slab[r][place] * 0
    BY <1>5, <1>9, <1>11
  <2> QED BY <2>1, <1>8, <1>11
<1> QED BY <1>10, <1>11

LEMMA ByteOfTable ==
  ASSUME NEW id \in RowIds
  PROVE  Table[id] \in 0..Byte-1 /\ Table[id] \in Nat /\ Table[id] % Byte = Table[id]
<1>1. Table[id] \in 0..Byte-1
  BY SliceAssumption
<1> QED BY <1>1, ConstTypes

-----------------------------------------------------------------------------
THEOREM InitIInv == Init => IInv
<1> SUFFICES ASSUME Init PROVE IInv
  OBVIOUS
<1>1. TypeInv
  <2>1. 0 \in 0..Byte-1
    BY ConstTypes
  <2> QED BY <2>1 DEF Init, TypeInv
<1>2. SlabInv /\ StepInv /\ SumInv
  BY DEF Init, SlabInv, StepInv, SumInv
<1> QED BY <1>1, <1>2 DEF IInv

-----------------------------------------------------------------------------
(* Nothing is summed unless every rank is in the collective.               *)
LEMMA NothingSummed ==
  ASSUME IInv, NEW r \in Ranks, pc[r] # "reduce"
  PROVE  summed = {}
  BY DEF IInv, SumInv

LEMMA LoadSliceStep ==
  ASSUME IInv, NEW r \in Ranks, LoadSlice(r)
  PROVE  IInv'
<1> USE DEF IInv
<1>1. TypeInv'
  BY DEF TypeInv, LoadSlice
<1>2. SlabInv'
  <2> SUFFICES ASSUME NEW q \in loaded'
               PROVE  slab'[q] = [j \in 0..Count(q)-1 |-> Table[Start(q) + j]]
    BY DEF SlabInv
  <2>1. CASE r \in loaded
    BY <2>1 DEF LoadSlice, SlabInv
  <2>2. CASE r \notin loaded /\ q = r
    BY <2>2 DEF LoadSlice, TypeInv
  <2>3. CASE r \notin loaded /\ q # r
    BY <2>3 DEF LoadSlice, TypeInv, SlabInv
  <2> QED BY <2>1, <2>2, <2>3
<1>3. StepInv'
  BY DEF StepInv, LoadSlice, TypeInv, Owner
<1>4. SumInv'
  BY DEF SumInv, LoadSlice, Owner
<1> QED BY <1>1, <1>2, <1>3, <1>4

LEMMA LookupStep ==
  ASSUME IInv, NEW r \in Ranks, Lookup(r)
  PROVE  IInv'
<1> USE DEF IInv
<1>1. TypeInv'
  BY DEF TypeInv, Lookup
<1>2. SlabInv'
  BY DEF SlabInv, Lookup
<1>3. summed = {} /\ summed' = {}
  BY NothingSummed DEF Lookup
<1>4. SumInv'
  BY <1>3 DEF SumInv, Lookup
<1>5. StepInv'
  <2>1. CASE Count(r) = 0
    BY <2>1 DEF StepInv, Lookup, TypeInv
  <2>2. CASE Count(r) # 0
    <3>1. /\ r \in loaded /\ UNCHANGED <<ids, loaded>>
          /\ out' = [out EXCEPT ![r] = OwnRows(r)]
          /\ pc' = [pc EXCEPT ![r] = IF TP > 1 THEN "reduce" ELSE "done"]
      BY <2>2 DEF Lookup
    <3>2. out'[r] = [i \in SlotIds |-> IF Owner(r, ids[i]) THEN Table[ids[i]] ELSE 0]
      BY <2>2, <3>1, OwnRowsAre DEF TypeInv
    <3>3. \A q \in Ranks \ {r} : out'[q] = out[q] /\ pc'[q] = pc[q]
      BY <3>1 DEF TypeInv
    <3>4. TP = 1 => \A i \in SlotIds : Owner(r, ids[i])
      <4> SUFFICES ASSUME TP = 1, NEW i \in SlotIds PROVE Owner(r, ids[i])
        OBVIOUS
      <4>1. ids[i] \in RowIds
        BY DEF TypeInv
      <4>2. Ranks = {0}
        BY ConstTypes DEF Ranks
      <4> QED BY <4>1, <4>2, SomeOwner
    <3>5. pc'[r] = "done" => out'[r] = [i \in SlotIds |-> Table[ids[i]]]
      <4> SUFFICES ASSUME pc'[r] = "done" PROVE out'[r] = [i \in SlotIds |-> Table[ids[i]]]
        OBVIOUS
      <4>1. TP = 1
        BY <3>1, ConstTypes DEF TypeInv
      <4> QED BY <4>1, <3>2, <3>4
    <3>6. \A q \in Ranks : pc'[q] # "idle" => loaded' = Ranks
      BY <3>1 DEF Lookup
    <3>7. \A q \in Ranks : pc'[q] = "reduce" =>
            out'[q] = [i \in SlotIds |-> IF Owner(q, ids[i]) THEN Table[ids[i]] ELSE 0]
      BY <3>2, <3>3 DEF StepInv
    <3>8. \A q \in Ranks : pc'[q] = "done" => out'[q] = [i \in SlotIds |-> Table[ids[i]]]
      BY <3>3, <3>5 DEF StepInv
    <3> QED BY <3>1, <3>6, <3>7, <3>8 DEF StepInv, Owner
  <2> QED BY <2>1, <2>2
<1> QED BY <1>1, <1>2, <1>4, <1>5

LEMMA ContributeStep ==
  ASSUME IInv, NEW r \in Ranks, Contribute(r)
  PROVE  IInv'
<1> USE DEF IInv
<1>1. SlabInv' /\ StepInv'
  BY DEF SlabInv, StepInv, Contribute, Owner
<1>2. \A i \in SlotIds : acc'[i] = IF \E q \in summed' : Owner(q, ids[i]) THEN Table[ids[i]] ELSE 0
  <2> SUFFICES ASSUME NEW i \in SlotIds
               PROVE  acc'[i] = IF \E q \in summed' : Owner(q, ids[i]) THEN Table[ids[i]] ELSE 0
    OBVIOUS
  <2>1. ids[i] \in RowIds /\ summed \subseteq Ranks
    BY DEF TypeInv
  <2>2. /\ out[r][i] = IF Owner(r, ids[i]) THEN Table[ids[i]] ELSE 0
        /\ acc[i] = IF \E q \in summed : Owner(q, ids[i]) THEN Table[ids[i]] ELSE 0
    BY ZenonT(60) DEF Contribute, StepInv, SumInv
  <2>3. acc'[i] = (acc[i] + out[r][i]) % Byte /\ summed' = summed \union {r} /\ r \notin summed
    BY DEF Contribute
  <2>4. Table[ids[i]] \in Nat /\ Table[ids[i]] % Byte = Table[ids[i]] /\ 0 % Byte = 0
    BY <2>1, ByteOfTable, ConstTypes
  <2>5. CASE Owner(r, ids[i])
    <3>1. ~\E q \in summed : Owner(q, ids[i])
      BY <2>1, <2>3, <2>5, OneOwner
    <3> QED BY <2>2, <2>3, <2>4, <2>5, <3>1
  <2>6. CASE ~Owner(r, ids[i])
    BY <2>2, <2>3, <2>4, <2>6
  <2> QED BY <2>5, <2>6
<1>3. SumInv'
  <2>1. acc' = [i \in SlotIds |-> acc'[i]]
    BY DEF Contribute
  <2>2. acc' = [i \in SlotIds |-> IF \E q \in summed' : Owner(q, ids[i]) THEN Table[ids[i]] ELSE 0]
    BY <1>2, <2>1
  <2>3. \A q \in Ranks : pc'[q] = "reduce"
    BY DEF Contribute
  <2>4. ids' = ids
    BY DEF Contribute
  <2> QED BY <2>2, <2>3, <2>4 DEF SumInv, Owner
<1>4. TypeInv'
  <2>1. acc' \in [SlotIds -> 0..Byte-1]
    <3>1. \A i \in SlotIds : acc'[i] \in 0..Byte-1
      <4> TAKE i \in SlotIds
      <4>1. Table[ids[i]] \in 0..Byte-1 /\ 0 \in 0..Byte-1
        BY ByteOfTable, ConstTypes DEF TypeInv
      <4> QED BY <4>1, <1>2
    <3> QED BY <3>1 DEF Contribute
  <2> QED BY <2>1 DEF TypeInv, Contribute
<1> QED BY <1>1, <1>3, <1>4

LEMMA DistributeStep ==
  ASSUME IInv, Distribute
  PROVE  IInv'
<1> USE DEF IInv
<1>1. \A i \in SlotIds : acc[i] = Table[ids[i]]
  <2> TAKE i \in SlotIds
  <2>1. ids[i] \in RowIds
    BY DEF TypeInv
  <2> QED BY <2>1, SomeOwner DEF Distribute, SumInv
<1>2. acc = [i \in SlotIds |-> Table[ids[i]]]
  BY <1>1 DEF TypeInv
<1>3. loaded = Ranks
  <2>1. 0 \in Ranks
    BY ConstTypes DEF Ranks
  <2>2. pc[0] = "reduce"
    BY <2>1 DEF Distribute, SumInv
  <2> QED BY <2>1, <2>2 DEF StepInv
<1>4. StepInv'
  BY <1>2, <1>3 DEF Distribute, StepInv
<1>5. TypeInv'
  <2>1. 0 \in 0..Byte-1
    BY ConstTypes
  <2> QED BY <2>1 DEF TypeInv, Distribute
<1>6. SlabInv' /\ SumInv'
  BY DEF SlabInv, SumInv, Distribute
<1> QED BY <1>4, <1>5, <1>6

LEMMA NextStepStep ==
  ASSUME IInv, NextStep
  PROVE  IInv'
<1> USE DEF IInv
<1>1. summed = {}
  <2>1. 0 \in Ranks
    BY ConstTypes DEF Ranks
  <2> QED BY <2>1, NothingSummed DEF NextStep
<1>2. TypeInv' /\ SlabInv' /\ StepInv'
  BY DEF TypeInv, SlabInv, StepInv, NextStep
<1>3. SumInv'
  BY <1>1 DEF SumInv, NextStep
<1> QED BY <1>2, <1>3

-----------------------------------------------------------------------------
THEOREM StepIInv == IInv /\ [Next]_vars => IInv'
<1> SUFFICES ASSUME IInv, [Next]_vars PROVE IInv'
  OBVIOUS
<1>1. ASSUME NEW r \in Ranks, LoadSlice(r) PROVE IInv'
  BY <1>1, LoadSliceStep
<1>2. ASSUME NEW r \in Ranks, Lookup(r) PROVE IInv'
  BY <1>2, LookupStep
<1>3. ASSUME NEW r \in Ranks, Contribute(r) PROVE IInv'
  BY <1>3, ContributeStep
<1>4. CASE Distribute
  BY <1>4, DistributeStep
<1>5. CASE NextStep
  BY <1>5, NextStepStep
<1>6. CASE UNCHANGED vars
  BY <1>6 DEF vars, IInv, TypeInv, SlabInv, StepInv, SumInv, Owner
<1> QED BY <1>1, <1>2, <1>3, <1>4, <1>5, <1>6 DEF Next

(* IInv is an invariant of the lookup, for every number of ranks, rows and *)
(* bytes and every split in equal slices.                                  *)
THEOREM InvariantHolds == Spec => []IInv
<1>1. Init => IInv
  BY InitIInv
<1>2. IInv /\ [Next]_vars => IInv'
  BY StepIInv
<1> QED BY <1>1, <1>2, PTL DEF Spec

(* _ple_mmap_gather_into: after the byte-wise sum every rank holds, for    *)
(* every id, the row of the table itself.                                  *)
THEOREM SumIsCopyHolds == Spec => []SumIsCopy
<1>1. IInv => SumIsCopy
  <2> SUFFICES ASSUME IInv, NEW r \in Ranks, Done(r), NEW i \in SlotIds
               PROVE  out[r][i] = Table[ids[i]]
    BY DEF SumIsCopy
  <2>1. out[r] = [j \in SlotIds |-> Table[ids[j]]]
    BY DEF IInv, StepInv, Done
  <2> QED BY <2>1
<1> QED BY <1>1, InvariantHolds, PTL

-----------------------------------------------------------------------------
(* A sum that begins at -1 with nothing, as the models write them.         *)
LEMMA SumExists ==
  ASSUME NEW n \in Nat, NEW x, \A i \in 0..n-1 : x[i] \in Int
  PROVE  \E f : /\ f = [r \in -1..n-1 |-> f[r]] /\ f[-1] = 0
                /\ \A r \in 0..n-1 : f[r] = f[r-1] + x[r]
<1> DEFINE S == Int
           zero == 0
           step == [i \in 1..n |-> [y \in S |-> y + x[i-1]]]
<1>1. step \in [1..n -> [S -> S]] /\ zero \in S
  <2>1. ASSUME NEW i \in 1..n PROVE [y \in S |-> y + x[i-1]] \in [S -> S]
    BY <2>1
  <2> QED BY <2>1
<1>2. PICK g \in [0..n -> S] : Recursion(g, n, zero, step)
  <2> HIDE DEF S, zero, step
  <2> QED BY <1>1, RecursionExists
<1>3. g[0] = 0 /\ \A i \in 1..n : g[i] = g[i-1] + x[i-1]
  <2>1. g[0] = 0 /\ \A i \in 1..n : g[i] = step[i][g[i-1]]
    BY <1>2 DEF Recursion
  <2>2. \A i \in 1..n : g[i-1] \in S
    BY <1>2
  <2> QED BY <2>1, <2>2
<1> DEFINE f == [r \in -1..n-1 |-> g[r + 1]]
<1>4. f[-1] = 0 /\ \A r \in 0..n-1 : f[r] = f[r-1] + x[r]
  <2>1. f[-1] = 0
    BY <1>3
  <2>2. ASSUME NEW r \in 0..n-1 PROVE f[r] = f[r-1] + x[r]
    <3>1. r + 1 \in 1..n /\ (r + 1) - 1 = r /\ r - 1 \in -1..n-1 /\ (r - 1) + 1 = r /\ r \in -1..n-1
      OBVIOUS
    <3>2. g[r + 1] = g[r] + x[r]
      BY <3>1, <1>3
    <3> QED BY <3>1, <3>2
  <2> QED BY <2>1, <2>2
<1>5. f = [r \in -1..n-1 |-> f[r]]
  OBVIOUS
<1> QED BY <1>4, <1>5

(***************************************************************************)
(* Drafting: what a rank keeps is its rows of the target's head below the  *)
(* setting it was kept for, and the ranks' buffers are disjoint parts of   *)
(* the logits asked for.                                                   *)
(***************************************************************************)
Holder(r, v) == OfDrafts!Start(r) <= v /\ v < OfDrafts!End(r)

Kept(c, r) ==
  /\ c.k \in Nat /\ c.lo = OfDrafts!Start(r) /\ c.hi = OfDrafts!Least(OfDrafts!End(r), c.k)
  /\ c.of = "target"
  /\ \A v \in Int : c.lo <= v /\ v < c.hi => c.rows[v - c.lo] = v

PartOf(r)  == [v \in 0..k-1 |-> IF Holder(r, v) THEN logit["target"][v] ELSE 0]
Prefix     == [v \in 0..k-1 |-> IF v < Vocab THEN logit["target"][v] ELSE 0]
Answer     == [v \in OfDrafts!Ids |-> IF k = 0 \/ v < k THEN logit["target"][v] ELSE MinusInf]

DraftType ==
  /\ k \in Ks /\ head \in OfDrafts!Heads
  /\ logit \in [OfDrafts!Heads -> [OfDrafts!Ids -> Logits]]
  /\ dpc \in [OfDrafts!Ranks -> {"idle", "reduce", "summed", "done", "failed"}]
  /\ DOMAIN cache = OfDrafts!Ranks /\ DOMAIN small = OfDrafts!Ranks /\ DOMAIN full = OfDrafts!Ranks

DraftInv ==
  /\ DraftType
  /\ head = "draft" => \A r \in OfDrafts!Ranks : cache[r] = OfDrafts!NoCache /\ dpc[r] = "idle"
  /\ \A r \in OfDrafts!Ranks :
       /\ cache[r] # OfDrafts!NoCache => Kept(cache[r], r)
       /\ dpc[r] \in {"reduce", "summed"} => k # 0
       /\ dpc[r] = "reduce" => small[r] = PartOf(r)
       /\ dpc[r] = "summed" => small[r] = Prefix
       /\ dpc[r] = "done"   => full[r] = Answer

LEMMA DraftConsts ==
  ASSUME RowsAssumption
  PROVE  /\ DraftTP \in Nat \ {0} /\ Vocab \in Nat \ {0} /\ PerDraftRank \in Nat \ {0}
         /\ Vocab <= DraftTP * PerDraftRank /\ Ks \subseteq Nat /\ Logits \subseteq Int
  BY DEF RowsAssumption, OfDrafts!DraftAssumption

(* A rank's ids are r * PerDraftRank and on, as far as there are any.      *)
LEMMA HolderIs ==
  ASSUME RowsAssumption, NEW r \in OfDrafts!Ranks
  PROVE  /\ OfDrafts!Start(r) \in Nat /\ OfDrafts!End(r) \in Nat
         /\ OfDrafts!End(r) <= Vocab
         /\ \A v \in Int : Holder(r, v) <=> v < Vocab /\ r * PerDraftRank <= v /\ v < (r + 1) * PerDraftRank
<1>1. r \in Nat /\ r * PerDraftRank \in Nat /\ (r + 1) * PerDraftRank \in Nat
  BY DraftConsts DEF OfDrafts!Ranks
<1> QED BY <1>1, DraftConsts DEF OfDrafts!Start, OfDrafts!End, OfDrafts!Least, Holder

(* Every id of the vocabulary has one rank that holds it.                  *)
LEMMA OneHolder ==
  ASSUME RowsAssumption, NEW r \in OfDrafts!Ranks, NEW q \in OfDrafts!Ranks, NEW v \in Nat,
         Holder(r, v), Holder(q, v)
  PROVE  r = q
<1>1. r \in Int /\ q \in Int /\ r * PerDraftRank \in Int /\ q * PerDraftRank \in Int
      /\ (r + 1) * PerDraftRank \in Int /\ (q + 1) * PerDraftRank \in Int
  BY DraftConsts DEF OfDrafts!Ranks
<1>2. /\ r * PerDraftRank <= v /\ v < (r + 1) * PerDraftRank
      /\ q * PerDraftRank <= v /\ v < (q + 1) * PerDraftRank
  BY HolderIs
<1>3. ASSUME NEW a \in Int, NEW b \in Int, a < b PROVE (a + 1) * PerDraftRank <= b * PerDraftRank
  BY <1>3, ProductMonotone, DraftConsts
<1>4. ~(r < q)
  <2> SUFFICES ASSUME r < q PROVE FALSE
    OBVIOUS
  <2>1. (r + 1) * PerDraftRank <= q * PerDraftRank
    BY <1>1, <1>3
  <2> QED BY <2>1, <1>1, <1>2
<1>5. ~(q < r)
  <2> SUFFICES ASSUME q < r PROVE FALSE
    OBVIOUS
  <2>1. (q + 1) * PerDraftRank <= r * PerDraftRank
    BY <1>1, <1>3
  <2> QED BY <2>1, <1>1, <1>2
<1> QED BY <1>1, <1>4, <1>5

LEMMA SomeHolder ==
  ASSUME RowsAssumption, NEW v \in Nat, v < Vocab
  PROVE  \E r \in OfDrafts!Ranks : Holder(r, v)
<1> DEFINE d == v \div PerDraftRank
<1>1. d \in Nat /\ d * PerDraftRank <= v /\ v < (d + 1) * PerDraftRank
      /\ d * PerDraftRank \in Nat
  BY DraftConsts
<1> HIDE DEF d
<1>2. d < DraftTP
  <2> SUFFICES ASSUME DraftTP <= d PROVE FALSE
    BY <1>1, DraftConsts
  <2>1. DraftTP * PerDraftRank <= d * PerDraftRank /\ DraftTP * PerDraftRank \in Int
    BY <1>1, ProductMonotone, DraftConsts
  <2> QED BY <2>1, <1>1, DraftConsts
<1>3. d \in OfDrafts!Ranks
  BY <1>1, <1>2, DraftConsts DEF OfDrafts!Ranks
<1> QED BY <1>1, <1>3, HolderIs

-----------------------------------------------------------------------------
(* The rows a rank keeps, and the buffer made with them                    *)
LEMMA CacheIsKept ==
  ASSUME RowsAssumption, k \in Nat, head = "target", NEW r \in OfDrafts!Ranks
  PROVE  Kept(OfDrafts!CacheOf(r), r) /\ OfDrafts!CacheOf(r).k = k
<1>1. OfDrafts!Start(r) \in Nat /\ OfDrafts!End(r) \in Nat
  BY HolderIs
<1> DEFINE c  == OfDrafts!CacheOf(r)
           lo == OfDrafts!Start(r)
           hi == OfDrafts!Least(OfDrafts!End(r), k)
<1>2. OfDrafts!Greatest(OfDrafts!Start(r), 0) = lo /\ lo \in Nat /\ hi \in Nat
  BY <1>1 DEF OfDrafts!Greatest, OfDrafts!Least
<1>3. c = [k |-> k, lo |-> lo, hi |-> hi, of |-> head,
           rows |-> [j \in 0..hi-lo-1 |-> lo + (lo - lo) + j]]
  BY <1>2 DEF OfDrafts!CacheOf
<1> HIDE DEF lo, hi, c
<1>4. c.k = k /\ c.lo = lo /\ c.hi = hi /\ c.of = "target"
      /\ c.rows = [j \in 0..hi-lo-1 |-> lo + (lo - lo) + j]
  BY <1>3
<1>5. ASSUME NEW v \in Int, lo <= v, v < hi PROVE c.rows[v - lo] = v
  BY <1>2, <1>4, <1>5
<1> QED BY <1>4, <1>5 DEF Kept, c, lo, hi

LEMMA PartialIs ==
  ASSUME RowsAssumption, DraftInv, head = "target", NEW r \in OfDrafts!Ranks
  PROVE  /\ OfDrafts!Partial(OfDrafts!Refreshed(r)) = PartOf(r)
         /\ Kept(OfDrafts!Refreshed(r), r)
<1> DEFINE c == OfDrafts!Refreshed(r)
<1>1. k \in Nat
  BY DraftConsts DEF DraftInv, DraftType
<1>2. Kept(c, r) /\ c.k = k
  BY <1>1, CacheIsKept DEF DraftInv, OfDrafts!Refreshed
<1> HIDE DEF c
<1>3. ASSUME NEW v \in 0..k-1
      PROVE  (IF c.lo <= v /\ v < c.hi THEN logit[c.of][c.rows[v - c.lo]] ELSE 0)
               = (IF Holder(r, v) THEN logit["target"][v] ELSE 0)
  <2>1. OfDrafts!Start(r) \in Nat /\ OfDrafts!End(r) \in Nat /\ v \in Int /\ v < k
    BY <1>1, HolderIs
  <2>2. c.lo <= v /\ v < c.hi <=> Holder(r, v)
    BY <2>1, <1>1, <1>2 DEF Kept, Holder, OfDrafts!Least
  <2>3. c.lo <= v /\ v < c.hi => c.of = "target" /\ c.rows[v - c.lo] = v
    BY <2>1, <1>2 DEF Kept
  <2> QED BY <2>2, <2>3
<1>4. OfDrafts!Partial(c) = PartOf(r)
  BY <1>3, Zenon DEF OfDrafts!Partial, PartOf
<1> QED BY <1>2, <1>4 DEF c

(* The sum of the ranks' buffers                                           *)
LEMMA TotalIs ==
  ASSUME RowsAssumption, DraftInv, \A r \in OfDrafts!Ranks : small[r] = PartOf(r), NEW v \in 0..k-1
  PROVE  OfDrafts!Total(v) = IF v < Vocab THEN logit["target"][v] ELSE 0
<1>1. k \in Nat /\ v \in Nat /\ DraftTP \in Nat \ {0}
  BY DraftConsts DEF DraftInv, DraftType
<1>2. ASSUME NEW r \in OfDrafts!Ranks
      PROVE  small[r][v] = IF Holder(r, v) THEN logit["target"][v] ELSE 0
  BY <1>2 DEF PartOf
<1> DEFINE x == logit["target"][v]
           TP1 == DraftTP
           ranks == -1..DraftTP-1
           Sum(f) == f = [r \in ranks |-> IF r = -1 THEN 0 ELSE f[r-1] + small[r][v]]
<1>3. v < Vocab => x \in Int
  BY <1>1, DraftConsts DEF DraftInv, DraftType, OfDrafts!Ids, OfDrafts!Heads
<1>4. ASSUME NEW r \in OfDrafts!Ranks PROVE Holder(r, v) => v < Vocab
  BY <1>1, HolderIs
<1>5. ASSUME NEW r \in OfDrafts!Ranks PROVE small[r][v] \in Int
  BY <1>2, <1>3, <1>4
<1>6. \E f : Sum(f)
  <2> DEFINE y == [r \in 0..DraftTP-1 |-> small[r][v]]
  <2>1. \A r \in 0..DraftTP-1 : y[r] \in Int
    BY <1>1, <1>5 DEF OfDrafts!Ranks
  <2>2. PICK f : /\ f = [r \in -1..DraftTP-1 |-> f[r]] /\ f[-1] = 0
                 /\ \A r \in 0..DraftTP-1 : f[r] = f[r-1] + y[r]
    <3> HIDE DEF y
    <3> QED BY <1>1, <2>1, SumExists, ZenonT(60)
  <2>3. ASSUME NEW r \in ranks
        PROVE  f[r] = IF r = -1 THEN 0 ELSE f[r-1] + small[r][v]
    <3>1. r # -1 => r \in 0..DraftTP-1
      BY <1>1
    <3>2. r # -1 => y[r] = small[r][v]
      BY <3>1
    <3> HIDE DEF y
    <3> QED BY <2>2, <3>1, <3>2
  <2>4. Sum(f)
    BY <2>2, <2>3, Zenon
  <2> QED BY <2>4
<1>7. PICK sum : Sum(sum) /\ OfDrafts!Total(v) = sum[DraftTP-1]
  BY <1>6 DEF OfDrafts!Total
<1>8. sum[-1] = 0 /\ \A r \in OfDrafts!Ranks : sum[r] = sum[r-1] + small[r][v]
  BY <1>1, <1>7 DEF OfDrafts!Ranks
<1> DEFINE D == {i \in 0..DraftTP : sum[i-1] = IF \E q \in 0..i-1 : Holder(q, v) THEN x ELSE 0}
<1>9. 0 \in D
  BY <1>1, <1>8
<1>10. ASSUME NEW i \in 1..DraftTP, i - 1 \in D PROVE i \in D
  <2> DEFINE r == i - 1
  <2>1. r \in OfDrafts!Ranks /\ r \in Nat
    BY <1>1 DEF OfDrafts!Ranks
  <2>2. \A q \in 0..r : q \in OfDrafts!Ranks
    BY <1>1 DEF OfDrafts!Ranks
  <2>3. sum[r] = sum[r-1] + small[r][v]
    BY <2>1, <1>8
  <2>4. sum[r-1] = IF \E q \in 0..r-1 : Holder(q, v) THEN x ELSE 0
    BY <1>10
  <2>5. CASE Holder(r, v)
    <3>1. ~ \E q \in 0..r-1 : Holder(q, v)
      <4> SUFFICES ASSUME NEW q \in 0..r-1, Holder(q, v) PROVE FALSE
        OBVIOUS
      <4>1. q \in OfDrafts!Ranks /\ q # r
        BY <2>1, <2>2
      <4> QED BY <4>1, <2>1, <2>5, <1>1, OneHolder
    <3>2. sum[r] = 0 + x /\ x \in Int
      BY <3>1, <2>1, <2>3, <2>4, <2>5, <1>2, <1>3, <1>4
    <3>3. \E q \in 0..r : Holder(q, v)
      BY <2>1, <2>5
    <3> QED BY <3>2, <3>3, <1>1
  <2>6. CASE ~Holder(r, v)
    <3>1. (\E q \in 0..r : Holder(q, v)) <=> (\E q \in 0..r-1 : Holder(q, v))
      BY <2>1, <2>6
    <3>2. sum[r-1] \in Int
      <4>1. \A q \in 0..r-1 : q \in OfDrafts!Ranks
        BY <2>1, <2>2
      <4> QED BY <4>1, <2>4, <1>3, <1>4
    <3>3. sum[r] = sum[r-1] + 0
      BY <2>1, <2>3, <2>6, <1>2
    <3>4. sum[r] = IF \E q \in 0..r : Holder(q, v) THEN x ELSE 0
      BY <3>1, <3>2, <3>3, <2>4
    <3> HIDE DEF x
    <3> QED BY <3>4, <1>1
  <2> QED BY <2>5, <2>6
<1>11. DraftTP \in D
  <2> HIDE DEF D
  <2> QED BY <1>1, <1>9, <1>10, IntervalInduction
<1>12. sum[DraftTP-1] = IF \E q \in 0..DraftTP-1 : Holder(q, v) THEN x ELSE 0
  BY <1>11
<1>13. (\E q \in 0..DraftTP-1 : Holder(q, v)) <=> v < Vocab
  BY <1>1, <1>4, SomeHolder DEF OfDrafts!Ranks
<1> QED BY <1>7, <1>12, <1>13

-----------------------------------------------------------------------------
(* What a rank ends with is what was asked for.                            *)
LEMMA WidenedIs ==
  ASSUME RowsAssumption, k \in Nat \ {0}, k <= Vocab
  PROVE  OfDrafts!Widened(Prefix) = Answer
<1>1. ASSUME NEW v \in OfDrafts!Ids
      PROVE  (IF v < k THEN Prefix[v] ELSE MinusInf)
               = (IF k = 0 \/ v < k THEN logit["target"][v] ELSE MinusInf)
  <2>1. v \in Nat /\ v < Vocab
    BY DraftConsts DEF OfDrafts!Ids
  <2>2. v < k => Prefix[v] = logit["target"][v]
    BY <2>1 DEF Prefix
  <2> QED BY <2>2
<1> QED BY <1>1, Zenon DEF OfDrafts!Widened, Answer

(* One rank holds everything.                                              *)
LEMMA AloneIsWhole ==
  ASSUME RowsAssumption, DraftInv, DraftTP = 1, NEW r \in OfDrafts!Ranks
  PROVE  PartOf(r) = Prefix
<1>1. ASSUME NEW v \in 0..k-1
      PROVE  Holder(r, v) <=> v < Vocab
  <2>1. k \in Nat /\ v \in Nat /\ OfDrafts!Ranks = {0}
    BY DraftConsts DEF DraftInv, DraftType, OfDrafts!Ranks
  <2>2. v < Vocab => Holder(r, v)
    BY <2>1, SomeHolder
  <2>3. Holder(r, v) => v < Vocab
    BY <2>1, HolderIs
  <2> QED BY <2>2, <2>3
<1> QED BY <1>1, Zenon DEF PartOf, Prefix

LEMMA DraftInit ==
  ASSUME RowsAssumption, OfDrafts!Init
  PROVE  DraftInv
<1>1. DraftType
  BY DEF OfDrafts!Init, DraftType, OfDrafts!Heads
<1>2. \A r \in OfDrafts!Ranks : cache[r] = OfDrafts!NoCache /\ dpc[r] = "idle"
  BY DEF OfDrafts!Init
<1> QED BY <1>1, <1>2 DEF DraftInv

(* What the buffers are compared with depends on the step only.            *)
LEMMA SameStep ==
  ASSUME UNCHANGED <<k, logit>>
  PROVE  Prefix' = Prefix /\ Answer' = Answer /\ \A r \in OfDrafts!Ranks : PartOf(r)' = PartOf(r)
  BY DEF Prefix, Answer, PartOf

LEMMA ComputeLogitsStep ==
  ASSUME RowsAssumption, DraftInv, head = "target", NEW r \in OfDrafts!Ranks, OfDrafts!ComputeLogits(r)
  PROVE  DraftInv'
<1> USE DEF DraftInv
<1>1. UNCHANGED <<k, head, logit>> /\ dpc[r] = "idle" /\ k \in Nat
  BY DraftConsts DEF OfDrafts!ComputeLogits, DraftType
<1>2. Prefix' = Prefix /\ Answer' = Answer /\ \A q \in OfDrafts!Ranks : PartOf(q)' = PartOf(q)
  BY <1>1, SameStep
<1>3. CASE k = 0
  <2>1. /\ full' = [full EXCEPT ![r] = [v \in OfDrafts!Ids |-> logit[head][v]]]
        /\ dpc' = [dpc EXCEPT ![r] = "done"] /\ UNCHANGED <<cache, small>>
    BY <1>3 DEF OfDrafts!ComputeLogits
  <2>2. DraftType'
    BY <1>1, <2>1 DEF DraftType
  <2>3. full'[r] = Answer
    BY <1>3, <2>1 DEF Answer, DraftType
  <2>4. ASSUME NEW q \in OfDrafts!Ranks, q # r
        PROVE  full'[q] = full[q] /\ dpc'[q] = dpc[q]
    BY <2>1, <2>4 DEF DraftType
  <2>5. dpc'[r] = "done"
    BY <2>1 DEF DraftType
  <2> QED BY <1>1, <1>2, <2>1, <2>2, <2>3, <2>4, <2>5
<1>4. CASE k # 0
  <2>1. /\ cache' = [cache EXCEPT ![r] = OfDrafts!Refreshed(r)]
        /\ small' = [small EXCEPT ![r] = OfDrafts!Partial(OfDrafts!Refreshed(r))]
        /\ dpc' = [dpc EXCEPT ![r] = IF DraftTP > 1 THEN "reduce" ELSE "summed"]
        /\ UNCHANGED full
    BY <1>4 DEF OfDrafts!ComputeLogits
  <2>2. DraftType'
    BY <1>1, <2>1 DEF DraftType
  <2>3. small'[r] = PartOf(r) /\ Kept(cache'[r], r)
    BY <2>1, PartialIs DEF DraftType
  <2>4. ASSUME NEW q \in OfDrafts!Ranks, q # r
        PROVE  cache'[q] = cache[q] /\ small'[q] = small[q] /\ dpc'[q] = dpc[q]
    BY <2>1, <2>4 DEF DraftType
  <2>5. dpc'[r] = IF DraftTP > 1 THEN "reduce" ELSE "summed"
    BY <2>1 DEF DraftType
  <2>6. ~(DraftTP > 1) => PartOf(r) = Prefix
    <3>1. ~(DraftTP > 1) => DraftTP = 1
      BY DraftConsts
    <3> QED BY <3>1, AloneIsWhole
  <2>7. \A q \in OfDrafts!Ranks : Kept(cache[q], q)' <=> Kept(cache'[q], q)
    BY DEF Kept
  <2> QED BY <1>1, <1>2, <1>4, <2>1, <2>2, <2>3, <2>4, <2>5, <2>6, <2>7
<1> QED BY <1>3, <1>4

LEMMA AllReduceStep ==
  ASSUME RowsAssumption, DraftInv, head = "target", OfDrafts!AllReduce
  PROVE  DraftInv'
<1> USE DEF DraftInv
<1>1. UNCHANGED <<k, head, logit, cache, full>> /\ \A r \in OfDrafts!Ranks : dpc[r] = "reduce"
  BY DEF OfDrafts!AllReduce
<1>2. Prefix' = Prefix
  BY <1>1, SameStep
<1>3. [v \in 0..k-1 |-> OfDrafts!Total(v)] = Prefix
  <2>1. \A r \in OfDrafts!Ranks : small[r] = PartOf(r)
    BY <1>1
  <2>2. \A v \in 0..k-1 : OfDrafts!Total(v) = IF v < Vocab THEN logit["target"][v] ELSE 0
    BY <2>1, TotalIs
  <2> QED BY <2>2, Zenon DEF Prefix
<1>4. small' = [r \in OfDrafts!Ranks |-> Prefix] /\ dpc' = [r \in OfDrafts!Ranks |-> "summed"]
  BY <1>3 DEF OfDrafts!AllReduce
<1>5. DraftType'
  BY <1>1, <1>4 DEF DraftType
<1>6. \A r \in OfDrafts!Ranks : k # 0
  BY <1>1
<1> QED BY <1>1, <1>2, <1>4, <1>5, <1>6 DEF Kept

LEMMA ScatterStep ==
  ASSUME RowsAssumption, DraftInv, head = "target", NEW r \in OfDrafts!Ranks, OfDrafts!Scatter(r)
  PROVE  DraftInv'
<1> USE DEF DraftInv
<1>1. UNCHANGED <<k, head, logit, cache, small>> /\ dpc[r] = "summed" /\ k \in Nat /\ k # 0
  BY DraftConsts DEF OfDrafts!Scatter, DraftType
<1>2. Prefix' = Prefix /\ Answer' = Answer /\ \A q \in OfDrafts!Ranks : PartOf(q)' = PartOf(q)
  BY <1>1, SameStep
<1>3. CASE k > Vocab
  <2>1. dpc' = [dpc EXCEPT ![r] = "failed"] /\ UNCHANGED full
    BY <1>3 DEF OfDrafts!Scatter
  <2>2. DraftType'
    BY <1>1, <2>1 DEF DraftType
  <2> QED BY <1>1, <1>2, <2>1, <2>2 DEF DraftType, Kept
<1>4. CASE ~(k > Vocab)
  <2>1. dpc' = [dpc EXCEPT ![r] = "done"] /\ full' = [full EXCEPT ![r] = OfDrafts!Widened(small[r])]
    BY <1>4 DEF OfDrafts!Scatter
  <2>2. OfDrafts!Widened(small[r]) = Answer
    BY <1>1, <1>4, WidenedIs, DraftConsts
  <2>3. DraftType'
    BY <1>1, <2>1 DEF DraftType
  <2>4. dpc'[r] = "done" /\ full'[r] = Answer
    BY <2>1, <2>2 DEF DraftType
  <2>5. ASSUME NEW q \in OfDrafts!Ranks, q # r PROVE dpc'[q] = dpc[q] /\ full'[q] = full[q]
    BY <2>1, <2>5 DEF DraftType
  <2> QED BY <1>1, <1>2, <2>3, <2>4, <2>5 DEF Kept
<1> QED BY <1>3, <1>4

LEMMA DraftStep ==
  ASSUME RowsAssumption, DraftInv, [OfDrafts!Next]_(OfDrafts!vars)
  PROVE  DraftInv'
<1>1. CASE UNCHANGED OfDrafts!vars
  <2>1. UNCHANGED <<k, head, cache, logit, small, full, dpc>>
    BY <1>1 DEF OfDrafts!vars
  <2>2. DraftType' /\ Prefix' = Prefix /\ Answer' = Answer
        /\ \A r \in OfDrafts!Ranks : PartOf(r)' = PartOf(r)
    BY <2>1, SameStep DEF DraftType, DraftInv
  <2> QED BY <2>1, <2>2 DEF DraftInv, Kept
<1>2. CASE OfDrafts!ShareHead
  <2>1. UNCHANGED <<k, cache, logit, small, full, dpc>> /\ head = "draft" /\ head' = "target"
    BY <1>2 DEF OfDrafts!ShareHead
  <2>2. DraftType'
    BY <2>1 DEF DraftType, DraftInv, OfDrafts!Heads
  <2>3. \A r \in OfDrafts!Ranks : cache[r] = OfDrafts!NoCache /\ dpc[r] = "idle"
    BY <2>1 DEF DraftInv
  <2>4. OfDrafts!NoCache' = OfDrafts!NoCache
    BY DEF OfDrafts!NoCache
  <2> QED BY <2>1, <2>2, <2>3, <2>4 DEF DraftInv
<1>3. CASE head = "target" /\ \E r \in OfDrafts!Ranks : OfDrafts!ComputeLogits(r) \/ OfDrafts!Scatter(r)
  BY <1>3, ComputeLogitsStep, ScatterStep
<1>4. CASE head = "target" /\ OfDrafts!AllReduce
  BY <1>4, AllReduceStep
<1>5. CASE head = "target" /\ OfDrafts!NextStep
  <2>1. /\ UNCHANGED <<head, cache, small, full>> /\ dpc' = [r \in OfDrafts!Ranks |-> "idle"]
        /\ k' \in Ks /\ logit' \in [OfDrafts!Heads -> [OfDrafts!Ids -> Logits]]
    BY <1>5 DEF OfDrafts!NextStep
  <2>2. DraftType'
    BY <2>1 DEF DraftType, DraftInv
  <2>3. ASSUME NEW r \in OfDrafts!Ranks
        PROVE  dpc'[r] = "idle" /\ (cache'[r] # OfDrafts!NoCache => Kept(cache'[r], r))
    BY <2>1 DEF DraftInv
  <2> QED BY <1>5, <2>1, <2>2, <2>3 DEF DraftInv, Kept
<1> QED BY <1>1, <1>2, <1>3, <1>4, <1>5 DEF OfDrafts!Next

(* One of the three is run, by steps of its own.                           *)
LEMMA StepOfDrafts ==
  ASSUME [NextRows]_rowsVars
  PROVE  UNCHANGED part /\ (part = "drafts" => [OfDrafts!Next]_(OfDrafts!vars))
<1>1. CASE UNCHANGED rowsVars
  BY <1>1 DEF rowsVars, draftVars, OfDrafts!vars
<1>2. CASE NextRows
  BY <1>2 DEF NextRows
<1> QED BY <1>1, <1>2

(* compute_logits gives every rank the logits of the target's head for the *)
(* ids below the setting in force, and none for the others: for any number *)
(* of ranks, any vocabulary, and settings that change between steps.       *)
THEOREM LogitsOfPrefixHolds ==
  ASSUME RowsAssumption
  PROVE  SpecRows => []LogitsOfPrefix
<1> DEFINE Inv == part = "drafts" => DraftInv
<1>1. InitRows => Inv
  BY DraftInit DEF InitRows
<1>2. Inv /\ [NextRows]_rowsVars => Inv'
  BY DraftStep, StepOfDrafts
<1>3. Inv => LogitsOfPrefix
  BY DEF LogitsOfPrefix, OfDrafts!LogitsOfPrefix, DraftInv, Answer
<1> QED BY <1>1, <1>2, <1>3, PTL DEF SpecRows

-----------------------------------------------------------------------------
(***************************************************************************)
(* The table: every shard that was found has the rows the loader expects   *)
(* of it, and the scan files each under its own number.                    *)
(***************************************************************************)
Found == {t \in ckpt : OfTable!Scanned(t)}

Filed(S) ==
  /\ DOMAIN shards = {t.shard : t \in S}
  /\ \A t \in S : shards[t.shard] = t /\ t.end - t.begin = t.rows * OfTable!RowBytes(t)

TableInv ==
  /\ ckpt \in Checkpoints
  /\ phase \in {"load", "scan", "ready", "failed"}
  /\ phase = "load" => toLoad \subseteq Found /\ shards = << >> /\ \A t \in Found \ toLoad : OfTable!Loadable(t)
  /\ phase \in {"scan", "ready"} => \A t \in Found : OfTable!Loadable(t)
  /\ phase = "scan" => toScan \subseteq Found /\ Filed(Found \ toScan)
  /\ phase = "ready" => /\ Filed(Found) /\ OfTable!Consistent
                        /\ table.rowBytes = OfTable!RowBytes(shards[0])
                        /\ table.shardRows = shards[0].rows
  /\ phase = "failed" => ~OfTable!WellFormed

(* The notions of finite sets, as the instance names them.                 *)
LEMMA SameCardinality ==
  \A S : OfTable!Cardinality(S) = Cardinality(S)
  BY Zenon DEF OfTable!Cardinality, Cardinality

LEMMA SameFinite ==
  \A S : OfTable!IsFiniteSet(S) <=> IsFiniteSet(S)
  BY DEF OfTable!IsFiniteSet, IsFiniteSet

LEMMA TableConsts ==
  ASSUME RowsAssumption
  PROVE  /\ Rows \in Nat /\ NgramParts \in Nat \ {0} /\ ChunkRows \in Nat \ {0} /\ EmbeddingDim \in Nat \ {0}
         /\ Other \notin Nat
  BY DEF RowsAssumption, OfTable!TableAssumption

LEMMA TensorsAre ==
  ASSUME RowsAssumption, ckpt \in Checkpoints
  PROVE  /\ IsFiniteSet(ckpt)
         /\ \A t \in ckpt : OfTable!Tensor(t)
         /\ \A t, u \in ckpt : t # u /\ t.file = u.file => t.end <= u.begin \/ u.end <= t.begin
<1> DEFINE Whole(c) == /\ IsFiniteSet(c) /\ \A t \in c : OfTable!Tensor(t)
                       /\ \A t, u \in c : t # u /\ t.file = u.file => t.end <= u.begin \/ u.end <= t.begin
<1>1. \A c \in Checkpoints : Whole(c)
  BY SameFinite, Zenon DEF RowsAssumption, OfTable!TableAssumption
<1>2. Whole(ckpt)
  <2> HIDE DEF Whole
  <2> QED BY <1>1
<1> QED BY <1>2

LEMMA FoundAre ==
  ASSUME RowsAssumption, ckpt \in Checkpoints
  PROVE  /\ IsFiniteSet(Found) /\ Found \subseteq ckpt
         /\ \A t \in Found : OfTable!Tensor(t) /\ t.shard \in Nat /\ OfTable!RowBytes(t) \in Nat
<1>1. Found \subseteq ckpt /\ \A t \in Found : t.shard # Other
  BY DEF Found, OfTable!Scanned
<1>2. IsFiniteSet(Found)
  BY <1>1, TensorsAre, FS_Subset
<1>3. ASSUME NEW t \in Found PROVE OfTable!Tensor(t) /\ t.shard \in Nat /\ OfTable!RowBytes(t) \in Nat
  BY <1>1, <1>3, TensorsAre DEF OfTable!Tensor, OfTable!RowBytes
<1> QED BY <1>1, <1>2, <1>3

(* The rows are divided into shards of ShardSize, rounded up.              *)
LEMMA ShardSizeIs ==
  ASSUME RowsAssumption
  PROVE  /\ OfTable!ShardSize \in Nat /\ Rows <= NgramParts * OfTable!ShardSize
         /\ Rows > 0 => OfTable!ShardSize > 0 /\ OfTable!ShardSize <= Rows
<1> DEFINE q == OfTable!ShardSize
           p == NgramParts
<1>1. q = (Rows + p - 1) \div p /\ p \in Nat \ {0} /\ Rows \in Nat
  BY TableConsts DEF OfTable!ShardSize
<1> HIDE DEF q, p
<1>2. q \in Nat /\ q * p <= Rows + p - 1 /\ Rows + p - 1 < (q + 1) * p
  BY <1>1
<1>3. (q + 1) * p = q * p + p /\ q * p = p * q /\ q * p \in Int
  BY <1>1, <1>2
<1>4. Rows <= p * q
  BY <1>1, <1>2, <1>3
<1>5. ASSUME Rows > 0 PROVE q > 0 /\ q <= Rows
  <2>1. q # 0
    BY <1>1, <1>3, <1>4, <1>5
  <2>2. (q - 1) * 1 <= (q - 1) * p
    BY <1>1, <1>2, <2>1
  <2>3. (q - 1) * p = q * p - p
    BY <1>1, <1>2
  <2> QED BY <1>1, <1>2, <1>3, <2>1, <2>2, <2>3
<1> QED BY <1>2, <1>4, <1>5 DEF q, p

LEMMA ExpectedIs ==
  ASSUME RowsAssumption, NEW s \in Nat
  PROVE  /\ OfTable!ExpectedRows(s) \in 0..OfTable!ShardSize
         /\ OfTable!ExpectedRows(s) = LET left == Rows - s * OfTable!ShardSize
                                      IN  IF left < 0 THEN 0
                                          ELSE IF left < OfTable!ShardSize THEN left ELSE OfTable!ShardSize
<1>1. OfTable!ShardSize \in Nat /\ Rows \in Nat /\ s * OfTable!ShardSize \in Nat
  BY ShardSizeIs, TableConsts
<1> QED BY <1>1 DEF OfTable!ExpectedRows

(* The rows of shards 0 to n - 1: all there are, or n full shards.         *)
LEMMA RowsOfShardsIs ==
  ASSUME RowsAssumption, NEW n \in Nat, Cardinality(DOMAIN shards) = n,
         \A s \in 0..n-1 : shards[s].rows = OfTable!ExpectedRows(s)
  PROVE  OfTable!RowsOfShards = IF Rows < n * OfTable!ShardSize THEN Rows ELSE n * OfTable!ShardSize
<1> DEFINE q == OfTable!ShardSize
           x == [s \in 0..n-1 |-> shards[s].rows]
           Sum(f) == f = [s \in -1..n-1 |-> IF s = -1 THEN 0 ELSE f[s-1] + shards[s].rows]
<1>0. q \in Nat /\ Rows \in Nat
  BY ShardSizeIs, TableConsts
<1>1. \A s \in 0..n-1 : x[s] \in Int
  BY ExpectedIs, <1>0
<1>2. \E f : Sum(f)
  <2>1. PICK f : /\ f = [r \in -1..n-1 |-> f[r]] /\ f[-1] = 0
                 /\ \A r \in 0..n-1 : f[r] = f[r-1] + x[r]
    <3> HIDE DEF x
    <3> QED BY <1>1, SumExists
  <2>2. ASSUME NEW r \in -1..n-1
        PROVE  f[r] = IF r = -1 THEN 0 ELSE f[r-1] + shards[r].rows
    <3>1. r # -1 => r \in 0..n-1
      OBVIOUS
    <3>2. r # -1 => x[r] = shards[r].rows
      BY <3>1
    <3> HIDE DEF x
    <3> QED BY <2>1, <3>1, <3>2
  <2>3. Sum(f)
    BY <2>1, <2>2, Zenon
  <2> QED BY <2>3
<1>3. PICK f : Sum(f) /\ OfTable!RowsOfShards = f[n-1]
  <2>1. OfTable!RowsOfShards = (CHOOSE f : Sum(f))[n-1]
    BY SameCardinality, Zenon DEF OfTable!RowsOfShards
  <2>2. Sum(CHOOSE f : Sum(f))
    <3> HIDE DEF Sum
    <3> QED BY <1>2
  <2> HIDE DEF Sum
  <2> QED BY <2>1, <2>2
<1>4. f[-1] = 0 /\ \A s \in 0..n-1 : f[s] = f[s-1] + OfTable!ExpectedRows(s)
  <2>1. f[-1] = 0 /\ \A s \in 0..n-1 : f[s] = f[s-1] + shards[s].rows
    <3>1. f = [s \in -1..n-1 |-> IF s = -1 THEN 0 ELSE f[s-1] + shards[s].rows]
      BY <1>3
    <3>2. -1 \in -1..n-1 /\ \A s \in 0..n-1 : s \in -1..n-1 /\ s # -1
      OBVIOUS
    <3> HIDE DEF q, Sum, x
    <3> QED BY <3>1, <3>2, Zenon
  <2> HIDE DEF q, Sum, x
  <2> QED BY <2>1, Zenon
<1> HIDE DEF q, Sum, x
<1> DEFINE D == {i \in 0..n : f[i-1] = IF Rows < i * q THEN Rows ELSE i * q}
<1>5. 0 \in D
  BY <1>0, <1>4
<1>6. ASSUME NEW i \in 1..n, i - 1 \in D PROVE i \in D
  <2> DEFINE s == i - 1
             m == s * q
  <2>1. s \in Nat /\ s \in 0..n-1 /\ m \in Nat /\ i * q = m + q
    BY <1>0
  <2>2. f[i-1] = f[s-1] + OfTable!ExpectedRows(s)
    BY <1>4, <2>1
  <2>3. f[s-1] = IF Rows < m THEN Rows ELSE m
    BY <1>6
  <2>4. OfTable!ExpectedRows(s) = IF Rows - m < 0 THEN 0 ELSE IF Rows - m < q THEN Rows - m ELSE q
    BY <2>1, ExpectedIs DEF q
  <2> HIDE DEF m, s
  <2>5. f[i-1] = IF Rows < m + q THEN Rows ELSE m + q
    BY <1>0, <2>1, <2>2, <2>3, <2>4
  <2> QED BY <2>1, <2>5
<1>7. n \in D
  <2> HIDE DEF D
  <2> QED BY <1>5, <1>6, IntervalInduction
<1> QED BY <1>3, <1>7 DEF q

-----------------------------------------------------------------------------
(* A table that was accepted: shards 0 to n - 1 with all the rows.         *)
LEMMA ReadyIs ==
  ASSUME RowsAssumption, TableInv, phase = "ready", Rows > 0
  PROVE  \E n \in Nat \ {0} :
           /\ DOMAIN shards = 0..n-1
           /\ Rows <= n * OfTable!ShardSize
           /\ table.shardRows = OfTable!ShardSize
           /\ \A s \in 0..n-1 :
                /\ shards[s] \in Found /\ shards[s].shard = s
                /\ shards[s].rows = OfTable!ExpectedRows(s)
                /\ OfTable!RowBytes(shards[s]) = table.rowBytes
                /\ shards[s].end - shards[s].begin = shards[s].rows * table.rowBytes
<1> DEFINE n == Cardinality(DOMAIN shards)
<1>1. ckpt \in Checkpoints /\ Filed(Found) /\ OfTable!Consistent
      /\ table.rowBytes = OfTable!RowBytes(shards[0]) /\ table.shardRows = shards[0].rows
      /\ \A t \in Found : OfTable!Loadable(t)
  BY DEF TableInv
<1>2. IsFiniteSet(DOMAIN shards)
  <2> DEFINE g == [t \in Found |-> t.shard]
  <2>1. g \in Surjection(Found, DOMAIN shards)
    BY <1>1 DEF Filed, Surjection
  <2> HIDE DEF g
  <2> QED BY <2>1, <1>1, FoundAre, FS_Surjection
<1>3. n \in Nat
  BY <1>2, FS_CardinalityType
<1>4. n > 0 /\ DOMAIN shards = 0..n-1 /\ OfTable!RowsOfShards = Rows
      /\ \A s \in 0..n-1 : OfTable!RowBytes(shards[s]) = OfTable!RowBytes(shards[0])
  BY <1>1, SameCardinality, Zenon DEF OfTable!Consistent
<1> HIDE DEF n
<1>5. ASSUME NEW s \in 0..n-1
      PROVE  /\ shards[s] \in Found /\ shards[s].shard = s
             /\ shards[s].rows = OfTable!ExpectedRows(s)
             /\ shards[s].end - shards[s].begin = shards[s].rows * OfTable!RowBytes(shards[s])
  <2>1. PICK t \in Found : t.shard = s
    BY <1>1, <1>4 DEF Filed
  <2>2. shards[s] = t
    BY <1>1, <2>1 DEF Filed
  <2> QED BY <1>1, <2>1, <2>2 DEF Filed, OfTable!Loadable
<1>6. Rows = IF Rows < n * OfTable!ShardSize THEN Rows ELSE n * OfTable!ShardSize
  BY <1>3, <1>4, <1>5, RowsOfShardsIs DEF n
<1>7. Rows <= n * OfTable!ShardSize
  <2>1. n * OfTable!ShardSize \in Int /\ Rows \in Int
    BY <1>3, ShardSizeIs, TableConsts
  <2> QED BY <1>6, <2>1
<1>8. table.shardRows = OfTable!ShardSize
  <2>1. 0 \in 0..n-1
    BY <1>3, <1>4
  <2>2. table.shardRows = OfTable!ExpectedRows(0)
    BY <2>1, <1>1, <1>5
  <2>3. 0 * OfTable!ShardSize = 0
    BY ShardSizeIs
  <2> QED BY <2>2, <2>3, ExpectedIs, ShardSizeIs, TableConsts
<1>9. \A s \in 0..n-1 : OfTable!RowBytes(shards[s]) = table.rowBytes
  BY <1>1, <1>4
<1> QED BY <1>3, <1>4, <1>5, <1>7, <1>8, <1>9

(* One division only leaves c of j * m + c.                                *)
LEMMA DivideIs ==
  ASSUME NEW m \in Nat \ {0}, NEW j \in Nat, NEW c \in 0..m-1
  PROVE  (j * m + c) \div m = j /\ (j * m + c) % m = c
<1> DEFINE y == j * m + c
           d == y \div m
<1>0. y \in Nat /\ j * m \in Nat
  OBVIOUS
<1>3. y = j * m + c
  OBVIOUS
<1> HIDE DEF y
<1>1. d \in Nat /\ d * m <= y /\ y < (d + 1) * m /\ y % m = y - m * d
  BY <1>0
<1>2. j * m \in Nat /\ (j + 1) * m = j * m + m /\ (d + 1) * m = d * m + m /\ d * m \in Nat /\ m * d = d * m
  BY <1>0, <1>1
<1> HIDE DEF d
<1>4. ~(d < j)
  <2> SUFFICES ASSUME d < j PROVE FALSE
    OBVIOUS
  <2>1. (d + 1) * m <= j * m
    BY <1>1, ProductMonotone
  <2> QED BY <2>1, <1>0, <1>1, <1>2, <1>3
<1>5. ~(j < d)
  <2> SUFFICES ASSUME j < d PROVE FALSE
    OBVIOUS
  <2>1. (j + 1) * m <= d * m
    BY <1>1, ProductMonotone
  <2> QED BY <2>1, <1>0, <1>1, <1>2, <1>3
<1>6. d = j
  BY <1>1, <1>4, <1>5
<1> QED BY <1>0, <1>1, <1>2, <1>3, <1>6 DEF y, d

(* What lies at byte c of row j of a shard                                 *)
LEMMA CellIs ==
  ASSUME RowsAssumption, ckpt \in Checkpoints, NEW t \in Found, NEW rb \in Nat, OfTable!RowBytes(t) = rb,
         t.end - t.begin = t.rows * rb, NEW j \in Nat, j < t.rows, NEW c \in 0..rb-1
  PROVE  OfTable!Cell(t.file, t.begin + j * rb + c) = <<t.shard, j, c>>
<1> DEFINE off == t.begin + j * rb + c
<1>1. t \in ckpt /\ OfTable!Tensor(t) /\ rb \in Nat \ {0}
  BY FoundAre
<1>2. t.begin \in Nat /\ t.end \in Nat /\ t.rows \in Nat /\ j * rb \in Nat /\ (j + 1) * rb = j * rb + rb
  BY <1>1 DEF OfTable!Tensor
<1>3. (j + 1) * rb <= t.rows * rb
  BY <1>2, ProductMonotone
<1>4. t.begin <= off /\ off < t.end /\ off \in Nat
  BY <1>2, <1>3
<1>5. ASSUME NEW x \in ckpt, x.file = t.file, x.begin <= off, off < x.end
      PROVE  x = t
  <2>1. x.begin \in Nat /\ x.end \in Nat
    BY TensorsAre DEF OfTable!Tensor
  <2>2. x # t => x.end <= t.begin \/ t.end <= x.begin
    BY <1>1, <1>5, TensorsAre
  <2> QED BY <2>1, <2>2, <1>2, <1>4, <1>5
<1> DEFINE P(x) == x.file = t.file /\ x.begin <= off /\ off < x.end
<1>6. t \in ckpt /\ P(t)
  BY <1>1, <1>4
<1>7. (CHOOSE x \in ckpt : P(x)) = t
  <2> DEFINE u == CHOOSE x \in ckpt : P(x)
  <2>1. u \in ckpt /\ P(u)
    <3> HIDE DEF P
    <3> QED BY <1>6
  <2> HIDE DEF u, off
  <2>2. u = t
    BY <2>1, <1>5
  <2> QED BY <2>2 DEF u
<1>8. OfTable!Cell(t.file, off) = <<t.shard, (off - t.begin) \div rb, (off - t.begin) % rb>>
  BY <1>6, <1>7, Zenon DEF OfTable!Cell
<1>9. off - t.begin = j * rb + c
  BY <1>2
<1> QED BY <1>1, <1>8, <1>9, DivideIs

-----------------------------------------------------------------------------
(* Rows of the embedding: where each is, and that it is read there.        *)
LEMMA PlaceOf ==
  ASSUME RowsAssumption, TableInv, phase = "ready", NEW i \in 0..Rows-1
  PROVE  LET s == i \div OfTable!ShardSize
             j == i % OfTable!ShardSize
         IN  /\ s \in DOMAIN shards /\ shards[s] \in Found /\ shards[s].shard = s
             /\ j \in Nat /\ j < shards[s].rows /\ i = s * OfTable!ShardSize + j
             /\ table.shardRows = OfTable!ShardSize
             /\ OfTable!RowBytes(shards[s]) = table.rowBytes /\ table.rowBytes \in Nat
             /\ shards[s].end - shards[s].begin = shards[s].rows * table.rowBytes
             /\ OfTable!ShardSize \in Nat \ {0}
<1> DEFINE q == OfTable!ShardSize
           s == i \div q
           j == i % q
<1>1. Rows \in Nat /\ Rows > 0 /\ i \in Nat /\ i < Rows /\ ckpt \in Checkpoints
  BY TableConsts DEF TableInv
<1>2. q \in Nat \ {0}
  BY <1>1, ShardSizeIs
<1>3. PICK n \in Nat \ {0} :
        /\ DOMAIN shards = 0..n-1 /\ Rows <= n * q /\ table.shardRows = q
        /\ \A x \in 0..n-1 :
             /\ shards[x] \in Found /\ shards[x].shard = x
             /\ shards[x].rows = OfTable!ExpectedRows(x)
             /\ OfTable!RowBytes(shards[x]) = table.rowBytes
             /\ shards[x].end - shards[x].begin = shards[x].rows * table.rowBytes
  BY <1>1, ReadyIs
<1> HIDE DEF q
<1>4. s \in Nat /\ j \in Nat /\ j < q /\ s * q <= i /\ i < (s + 1) * q /\ j = i - q * s
  BY <1>1, <1>2
<1>5. q * s = s * q /\ s * q \in Nat /\ n * q \in Nat
  BY <1>2, <1>3, <1>4
<1>6. s < n
  <2> SUFFICES ASSUME n <= s PROVE FALSE
    BY <1>3, <1>4
  <2>1. n * q <= s * q
    BY <1>2, <1>3, <1>4, ProductMonotone
  <2> QED BY <2>1, <1>1, <1>3, <1>4, <1>5
<1> HIDE DEF s, j
<1>7. s \in 0..n-1
  BY <1>4, <1>6, <1>3
<1>8. j < OfTable!ExpectedRows(s)
  BY <1>1, <1>2, <1>4, <1>5, ExpectedIs DEF q
<1>9. table.rowBytes \in Nat
  BY <1>1, <1>3, <1>7, FoundAre
<1> QED BY <1>2, <1>3, <1>4, <1>5, <1>7, <1>8, <1>9 DEF q, s, j

LEMMA RowReadIs ==
  ASSUME RowsAssumption, TableInv, phase = "ready", NEW i \in 0..Rows-1
  PROVE  OfTable!ReadRow(i) = OfTable!TrueRow(i)
<1> DEFINE q == OfTable!ShardSize
           s == i \div q
           j == i % q
           rb == table.rowBytes
           t == shards[s]
<1>1. /\ s \in DOMAIN shards /\ t \in Found /\ t.shard = s
      /\ j \in Nat /\ j < t.rows /\ table.shardRows = q
      /\ OfTable!RowBytes(t) = rb /\ rb \in Nat
      /\ t.end - t.begin = t.rows * rb
  BY PlaceOf, Zenon
<1>2. ckpt \in Checkpoints
  BY DEF TableInv
<1>3. OfTable!Offset(i) = [s |-> s, at |-> j * rb]
  BY <1>1 DEF OfTable!Offset
<1>4. OfTable!ReadRow(i) = OfTable!Pread(t.file, t.begin + j * rb, rb)
  <2> HIDE DEF s, j, rb, t
  <2>1. OfTable!Offset(i).s = s /\ OfTable!Offset(i).at = j * rb
    BY <1>3
  <2> QED BY <1>1, <2>1, Zenon DEF OfTable!ReadRow, t, rb
<1>5. ASSUME NEW c \in 1..rb
      PROVE  OfTable!Cell(t.file, t.begin + j * rb + c - 1) = <<s, j, c - 1>>
  <2> HIDE DEF s, j, rb, t
  <2>1. c - 1 \in 0..rb-1
    BY <1>1
  <2>2. OfTable!Cell(t.file, t.begin + j * rb + (c - 1)) = <<t.shard, j, c - 1>>
    BY <2>1, <1>1, <1>2, CellIs
  <2>3. t.begin + j * rb + (c - 1) = t.begin + j * rb + c - 1
    <3>1. t.begin \in Nat /\ j * rb \in Nat
      BY <1>1, <1>2, FoundAre DEF OfTable!Tensor
    <3> QED BY <3>1
  <2> QED BY <2>2, <2>3, <1>1
<1>6. OfTable!Pread(t.file, t.begin + j * rb, rb) = [c \in 1..rb |-> <<s, j, c - 1>>]
  <2> HIDE DEF s, j, rb, t
  <2> QED BY <1>5, Zenon DEF OfTable!Pread
<1>7. OfTable!TrueRow(i) = [c \in 1..rb |-> <<s, j, c - 1>>]
  BY Zenon DEF OfTable!TrueRow
<1> QED BY <1>4, <1>6, <1>7

-----------------------------------------------------------------------------
(* Reading many rows at once: byte y counted from the first row asked for, *)
(* and what cells[done] should be, the bytes from row `done` on.           *)
ByteAt(start, y) ==
  LET i == start + y \div table.rowBytes
  IN  <<i \div OfTable!ShardSize, i % OfTable!ShardSize, y % table.rowBytes>>

BytesFrom(start, count, done) ==
  [x \in 1..(count - done) * table.rowBytes |-> ByteAt(start, done * table.rowBytes + x - 1)]

ByteNames == Nat \X Nat \X Nat

(* One read of the loop, and the rows it covers.                           *)
Run(start, count, done) == OfTable!RunLength(start + done, count - done)

OneRead(start, count, done) ==
  LET o == OfTable!Offset(start + done)
  IN  OfTable!Pread(shards[o.s].file, shards[o.s].begin + o.at, Run(start, count, done) * table.rowBytes)

Loop(f, start, count) ==
  f = [done \in 0..count |->
         IF done = count THEN << >> ELSE OneRead(start, count, done) \o f[done + Run(start, count, done)]]

LEMMA BytesOfRow ==
  ASSUME RowsAssumption, TableInv, phase = "ready", Rows > 0
  PROVE  table.rowBytes \in Nat \ {0} /\ OfTable!ShardSize \in Nat \ {0}
<1>1. 0 \in 0..Rows-1
  BY TableConsts
<1> DEFINE s == 0 \div OfTable!ShardSize
<1>2. shards[s] \in Found /\ OfTable!RowBytes(shards[s]) = table.rowBytes /\ OfTable!ShardSize \in Nat \ {0}
  BY <1>1, PlaceOf, Zenon
<1> HIDE DEF s
<1>3. OfTable!Loadable(shards[s]) /\ OfTable!Tensor(shards[s])
  BY <1>2, FoundAre DEF TableInv
<1>4. shards[s].width \in Nat \ {0} /\ shards[s].bytes \in Nat \ {0}
  BY <1>3, TableConsts DEF OfTable!Loadable, OfTable!Tensor
<1>5. ASSUME NEW a \in Nat \ {0}, NEW b \in Nat \ {0} PROVE a * b \in Nat \ {0}
  BY <1>5, SMT
<1> QED BY <1>2, <1>4, <1>5 DEF OfTable!RowBytes

LEMMA RunIs ==
  ASSUME RowsAssumption, TableInv, phase = "ready", NEW start \in 0..Rows-1, NEW count \in 1..Rows-start,
         NEW done \in 0..count-1
  PROVE  /\ Run(start, count, done) \in 1..count-done
         /\ ((start + done) % OfTable!ShardSize) + Run(start, count, done) <= OfTable!ShardSize
<1> DEFINE q == OfTable!ShardSize
           j == (start + done) % q
<1>1. Rows \in Nat /\ start \in Nat /\ count \in Nat /\ done \in Nat /\ start + done \in 0..Rows-1 /\ Rows > 0
  BY TableConsts
<1>2. q \in Nat \ {0} /\ table.shardRows = q
  BY <1>1, PlaceOf, Zenon
<1> HIDE DEF q
<1>3. j \in Nat /\ j < q
  BY <1>1, <1>2
<1>4. ChunkRows \in Nat \ {0} /\ count - done \in Nat \ {0}
  BY <1>1, TableConsts
<1>5. Run(start, count, done) =
        LET inShard == q - j
            cut == IF count - done < ChunkRows THEN count - done ELSE ChunkRows
        IN  IF cut < inShard THEN cut ELSE inShard
  BY <1>2 DEF Run, OfTable!RunLength
<1> HIDE DEF j
<1> QED BY <1>2, <1>3, <1>4, <1>5 DEF q, j

(* A read returns the bytes of the rows it covers.                         *)
LEMMA OneReadIs ==
  ASSUME RowsAssumption, TableInv, phase = "ready", NEW start \in 0..Rows-1, NEW count \in 1..Rows-start,
         NEW done \in 0..count-1
  PROVE  OneRead(start, count, done) =
           [x \in 1..Run(start, count, done) * table.rowBytes |->
              ByteAt(start, done * table.rowBytes + x - 1)]
<1> DEFINE q == OfTable!ShardSize
           rb == table.rowBytes
           row == start + done
           s == row \div q
           j == row % q
           t == shards[s]
           run == Run(start, count, done)
<1>1. Rows \in Nat /\ Rows > 0 /\ start \in Nat /\ count \in Nat /\ done \in Nat /\ row \in 0..Rows-1
      /\ start + count <= Rows /\ ckpt \in Checkpoints
  BY TableConsts DEF TableInv
<1>2. rb \in Nat \ {0} /\ q \in Nat \ {0}
  BY <1>1, BytesOfRow
<1>3. /\ t \in Found /\ t.shard = s /\ s \in Nat /\ j \in Nat /\ row = s * q + j
      /\ table.shardRows = q /\ OfTable!RowBytes(t) = rb /\ t.end - t.begin = t.rows * rb
  <2>1. /\ t \in Found /\ t.shard = s /\ j \in Nat /\ row = s * q + j
        /\ table.shardRows = q /\ OfTable!RowBytes(t) = rb /\ t.end - t.begin = t.rows * rb
    BY <1>1, PlaceOf, Zenon
  <2>2. s \in Nat
    BY <1>1, <1>2
  <2> QED BY <2>1, <2>2
<1>4. run \in 1..count-done /\ j + run <= q
  BY RunIs
<1>5. OneRead(start, count, done) = OfTable!Pread(t.file, t.begin + j * rb, run * rb)
  <2>1. OfTable!Offset(row) = [s |-> s, at |-> j * rb]
    BY <1>3 DEF OfTable!Offset
  <2>2. OfTable!Offset(row).s = s /\ OfTable!Offset(row).at = j * rb
    BY <2>1
  <2> HIDE DEF s, j, q
  <2> QED BY <2>2, Zenon DEF OneRead
<1> HIDE DEF q, row, s, j, t, run, rb
<1>6. ASSUME NEW x \in 1..run * rb
      PROVE  OfTable!Cell(t.file, t.begin + j * rb + x - 1) = ByteAt(start, done * rb + x - 1)
  <2> DEFINE a == (x - 1) \div rb
             c == (x - 1) % rb
  <2>1. run \in Nat /\ run * rb \in Nat /\ x - 1 \in Nat /\ x - 1 < run * rb
    BY <1>1, <1>2, <1>4, <1>6
  <2>2. a \in Nat /\ c \in 0..rb-1 /\ x - 1 = a * rb + c
    BY <1>2, <2>1
  <2> HIDE DEF a, c
  <2>3. a < run
    <3> SUFFICES ASSUME run <= a PROVE FALSE
      BY <2>1, <2>2
    <3>1. run * rb <= a * rb /\ a * rb \in Nat
      BY <1>2, <2>1, <2>2, ProductMonotone
    <3> QED BY <3>1, <2>1, <2>2
  <2>4. row + a \in 0..Rows-1 /\ j + a \in 0..q-1 /\ j + a \in Nat
    <3>1. row = start + done
      BY DEF row
    <3> QED BY <3>1, <1>1, <1>2, <1>3, <1>4, <2>1, <2>2, <2>3
  <2>5. (row + a) \div q = s /\ (row + a) % q = j + a
    <3>1. row + a = s * q + (j + a)
      <4>1. s * q \in Nat
        BY <1>2, <1>3
      <4> QED BY <4>1, <1>3, <2>2
    <3>2. (s * q + (j + a)) \div q = s /\ (s * q + (j + a)) % q = j + a
      BY <1>2, <1>3, <2>4, DivideIs, ZenonT(60)
    <3> QED BY <3>1, <3>2
  <2>6. j + a < t.rows
    <3>1. (row + a) % q < shards[(row + a) \div q].rows
      BY <2>4, PlaceOf, Zenon DEF q
    <3> QED BY <3>1, <2>5 DEF t
  <2>7. OfTable!Cell(t.file, t.begin + (j + a) * rb + c) = <<s, j + a, c>>
    BY <1>1, <1>2, <1>3, <2>2, <2>4, <2>6, CellIs
  <2>8. t.begin + (j + a) * rb + c = t.begin + j * rb + x - 1
    <3>1. t.begin \in Nat /\ j * rb \in Nat /\ a * rb \in Nat /\ (j + a) * rb = j * rb + a * rb
      BY <1>1, <1>2, <1>3, <2>2, FoundAre DEF OfTable!Tensor
    <3> HIDE DEF t
    <3> QED BY <3>1, <2>2, <1>6, <2>1
  <2>9. done * rb + x - 1 = (done + a) * rb + c
    <3>1. done * rb \in Nat /\ a * rb \in Nat /\ (done + a) * rb = done * rb + a * rb
      BY <1>1, <1>2, <2>2
    <3> QED BY <3>1, <2>1, <2>2
  <2>10. (done * rb + x - 1) \div rb = done + a /\ (done * rb + x - 1) % rb = c
    <3>1. done + a \in Nat
      BY <1>1, <2>2
    <3>2. ((done + a) * rb + c) \div rb = done + a /\ ((done + a) * rb + c) % rb = c
      BY <3>1, <2>2, <1>2, DivideIs
    <3> QED BY <3>2, <2>9
  <2>11. start + (done + a) = row + a
    BY <1>1, <2>2 DEF row
  <2>12. ByteAt(start, done * rb + x - 1) = <<s, j + a, c>>
    <3>1. ByteAt(start, done * rb + x - 1) = <<(start + (done + a)) \div q, (start + (done + a)) % q, c>>
      BY <2>10, Zenon DEF ByteAt, q, rb
    <3> QED BY <3>1, <2>5, <2>11
  <2> QED BY <2>7, <2>8, <2>12
<1>7. OfTable!Pread(t.file, t.begin + j * rb, run * rb) =
        [x \in 1..run * rb |-> ByteAt(start, done * rb + x - 1)]
  BY <1>6, Zenon DEF OfTable!Pread
<1> QED BY <1>5, <1>7 DEF rb, run

LEMMA ByteAtType ==
  ASSUME RowsAssumption, TableInv, phase = "ready", Rows > 0, NEW start \in Nat, NEW y \in Nat
  PROVE  ByteAt(start, y) \in ByteNames
<1> DEFINE i == start + y \div table.rowBytes
<1>1. table.rowBytes \in Nat \ {0} /\ OfTable!ShardSize \in Nat \ {0}
  BY BytesOfRow
<1>2. i \in Nat /\ y % table.rowBytes \in Nat
  BY <1>1
<1> HIDE DEF i
<1>3. i \div OfTable!ShardSize \in Nat /\ i % OfTable!ShardSize \in Nat
  BY <1>1, <1>2
<1>4. ByteAt(start, y) = <<i \div OfTable!ShardSize, i % OfTable!ShardSize, y % table.rowBytes>>
  BY DEF ByteAt, i
<1> QED BY <1>2, <1>3, <1>4 DEF ByteNames

LEMMA BytesFromType ==
  ASSUME RowsAssumption, TableInv, phase = "ready", NEW start \in 0..Rows-1, NEW count \in 1..Rows-start,
         NEW done \in 0..count
  PROVE  /\ BytesFrom(start, count, done) \in Seq(ByteNames)
         /\ Len(BytesFrom(start, count, done)) = (count - done) * table.rowBytes
         /\ (count - done) * table.rowBytes \in Nat
<1>1. Rows \in Nat /\ Rows > 0 /\ start \in Nat /\ count \in Nat /\ done \in Nat /\ count - done \in Nat
  BY TableConsts
<1>2. table.rowBytes \in Nat
  BY <1>1, BytesOfRow
<1>3. (count - done) * table.rowBytes \in Nat /\ done * table.rowBytes \in Nat
  BY <1>1, <1>2
<1>4. ASSUME NEW x \in 1..(count - done) * table.rowBytes
      PROVE  ByteAt(start, done * table.rowBytes + x - 1) \in ByteNames
  <2>1. done * table.rowBytes + x - 1 \in Nat
    BY <1>3
  <2> QED BY <2>1, <1>1, ByteAtType
<1> QED BY <1>3, <1>4 DEF BytesFrom

(* The bytes from a row on are a read and the bytes after it.              *)
LEMMA BytesUnfold ==
  ASSUME RowsAssumption, TableInv, phase = "ready", NEW start \in 0..Rows-1, NEW count \in 1..Rows-start,
         NEW done \in 0..count-1
  PROVE  BytesFrom(start, count, done) =
           OneRead(start, count, done) \o BytesFrom(start, count, done + Run(start, count, done))
<1> DEFINE rb == table.rowBytes
           run == Run(start, count, done)
           next == done + run
           A == BytesFrom(start, count, done)
           B == OneRead(start, count, done)
           C == BytesFrom(start, count, next)
<1>1. Rows \in Nat /\ Rows > 0 /\ start \in Nat /\ count \in Nat /\ done \in Nat
  BY TableConsts
<1>2. rb \in Nat /\ run \in 1..count-done /\ next \in 0..count /\ done \in 0..count
  BY <1>1, BytesOfRow, RunIs
<1>3. /\ A \in Seq(ByteNames) /\ Len(A) = (count - done) * rb /\ (count - done) * rb \in Nat
      /\ C \in Seq(ByteNames) /\ Len(C) = (count - next) * rb /\ (count - next) * rb \in Nat
  <2> HIDE DEF next
  <2> QED BY <1>2, BytesFromType
<1>4. B = [x \in 1..run * rb |-> ByteAt(start, done * rb + x - 1)]
  BY OneReadIs
<1>5. run * rb \in Nat /\ done * rb \in Nat /\ next * rb = done * rb + run * rb
      /\ (count - done) * rb = run * rb + (count - next) * rb
  <2>1. run \in Nat /\ count - next \in Nat /\ count - done = run + (count - next)
    BY <1>1, <1>2
  <2>2. (run + (count - next)) * rb = run * rb + (count - next) * rb
    BY <1>2, <2>1
  <2>3. next * rb = done * rb + run * rb
    BY <1>1, <1>2, <2>1
  <2>4. run * rb \in Nat /\ done * rb \in Nat
    BY <1>1, <1>2, <2>1
  <2> QED BY <2>1, <2>2, <2>3, <2>4
<1>6. B \in Seq(ByteNames) /\ Len(B) = run * rb
  <2>1. ASSUME NEW x \in 1..run * rb PROVE ByteAt(start, done * rb + x - 1) \in ByteNames
    <3>1. done * rb + x - 1 \in Nat
      BY <1>5
    <3> QED BY <3>1, <1>1, ByteAtType
  <2> HIDE DEF run, rb, B
  <2> QED BY <1>4, <1>5, <2>1
<1>7. \A x \in 1..(count - done) * rb : A[x] = ByteAt(start, done * rb + x - 1)
  BY DEF BytesFrom
<1>8. \A x \in 1..(count - next) * rb : C[x] = ByteAt(start, next * rb + x - 1)
  BY DEF BytesFrom
<1>9. \A x \in 1..run * rb : B[x] = ByteAt(start, done * rb + x - 1)
  <2> HIDE DEF run, rb, B
  <2> QED BY <1>4
<1> HIDE DEF A, B, C, rb, run, next
<1>10. /\ B \o C \in Seq(ByteNames) /\ Len(B \o C) = Len(B) + Len(C)
       /\ \A i \in 1..Len(B) + Len(C) : (B \o C)[i] = IF i <= Len(B) THEN B[i] ELSE C[i - Len(B)]
  BY <1>3, <1>6, ConcatProperties
<1>11. ASSUME NEW x \in 1..(count - done) * rb PROVE A[x] = (B \o C)[x]
  <2>1. x \in 1..Len(B) + Len(C)
    BY <1>3, <1>5, <1>6
  <2>2. CASE x <= Len(B)
    <3>1. x \in 1..run * rb
      BY <2>2, <1>6, <1>5, <1>11
    <3> QED BY <3>1, <2>1, <2>2, <1>7, <1>9, <1>10, <1>11
  <2>3. CASE ~(x <= Len(B))
    <3>1. x - run * rb \in 1..(count - next) * rb
      BY <2>3, <1>3, <1>5, <1>6, <1>11
    <3>2. next * rb + (x - run * rb) - 1 = done * rb + x - 1
      BY <1>5, <1>11
    <3>3. C[x - run * rb] = ByteAt(start, next * rb + (x - run * rb) - 1)
      BY <3>1, <1>8
    <3> QED BY <3>2, <3>3, <2>1, <2>3, <1>6, <1>7, <1>10, <1>11
  <2> QED BY <2>2, <2>3
<1>12. Len(A) = Len(B \o C)
  BY <1>3, <1>5, <1>6, <1>10
<1>13. A = B \o C
  BY <1>3, <1>10, <1>11, <1>12, SMTT(60)
<1> QED BY <1>13 DEF A, B, C, next, run

(* The loop as a whole                                                     *)
LEMMA ReadContiguousIs ==
  ASSUME RowsAssumption, TableInv, phase = "ready", NEW start \in 0..Rows-1, NEW count \in 1..Rows-start
  PROVE  OfTable!ReadContiguous(start, count) = BytesFrom(start, count, 0)
<1>1. Rows \in Nat /\ Rows > 0 /\ start \in Nat /\ count \in Nat \ {0}
  BY TableConsts
<1> DEFINE H == [done \in 0..count |-> BytesFrom(start, count, done)]
<1>2. BytesFrom(start, count, count) = << >>
  <2>1. (count - count) * table.rowBytes = 0
    BY <1>1, BytesOfRow
  <2>2. count \in 0..count
    BY <1>1
  <2> QED BY <2>1, <2>2, BytesFromType
<1>3. Loop(H, start, count)
  <2>1. ASSUME NEW done \in 0..count
        PROVE  BytesFrom(start, count, done) =
                 IF done = count THEN << >> ELSE OneRead(start, count, done) \o H[done + Run(start, count, done)]
    <3>1. CASE done = count
      BY <3>1, <1>2
    <3>2. CASE done # count
      <4>1. done \in 0..count-1
        BY <3>2, <1>1
      <4>2. done + Run(start, count, done) \in 0..count
        BY <4>1, <1>1, RunIs
      <4>3. H[done + Run(start, count, done)] = BytesFrom(start, count, done + Run(start, count, done))
        BY <4>2
      <4> HIDE DEF H
      <4> QED BY <3>2, <4>1, <4>3, BytesUnfold
    <3> QED BY <3>1, <3>2
  <2> QED BY <2>1, Zenon DEF Loop
<1>4. PICK f : Loop(f, start, count) /\ OfTable!ReadContiguous(start, count) = f[0]
  <2>1. OfTable!ReadContiguous(start, count) = (CHOOSE f : Loop(f, start, count))[0]
    BY Zenon DEF OfTable!ReadContiguous, Loop, OneRead, Run
  <2>2. Loop(CHOOSE f : Loop(f, start, count), start, count)
    <3> HIDE DEF H
    <3> QED BY <1>3
  <2> QED BY <2>1, <2>2
<1> HIDE DEF H
<1> DEFINE D == {m \in 0..count : \A done \in count-m..count : f[done] = BytesFrom(start, count, done)}
<1>5. \A done \in 0..count :
        f[done] = IF done = count THEN << >> ELSE OneRead(start, count, done) \o f[done + Run(start, count, done)]
  BY <1>4, Zenon DEF Loop
<1>6. 0 \in D
  <2>1. f[count] = << >>
    BY <1>1, <1>5
  <2> QED BY <2>1, <1>1, <1>2
<1>7. ASSUME NEW m \in 1..count, m - 1 \in D PROVE m \in D
  <2> SUFFICES ASSUME NEW done \in count-m..count PROVE f[done] = BytesFrom(start, count, done)
    BY <1>1
  <2>1. \A d \in count-(m-1)..count : f[d] = BytesFrom(start, count, d)
    BY <1>7
  <2>2. CASE done \in count-(m-1)..count
    BY <2>1, <2>2
  <2>3. CASE done \notin count-(m-1)..count
    <3>1. done = count - m /\ done \in 0..count-1 /\ done # count /\ done \in 0..count
      BY <2>3, <1>1
    <3>2. Run(start, count, done) \in 1..count-done
      BY <3>1, RunIs
    <3>3. done + Run(start, count, done) \in count-(m-1)..count
      BY <3>1, <3>2, <1>1
    <3>4. f[done] = OneRead(start, count, done) \o BytesFrom(start, count, done + Run(start, count, done))
      BY <3>1, <3>3, <2>1, <1>5
    <3> QED BY <3>1, <3>4, BytesUnfold
  <2> QED BY <2>2, <2>3
<1>8. count \in D
  <2> HIDE DEF D
  <2> QED BY <1>1, <1>6, <1>7, IntervalInduction
<1>9. f[0] = BytesFrom(start, count, 0)
  <2>1. 0 \in count-count..count
    BY <1>1
  <2> QED BY <1>8, <2>1
<1> QED BY <1>4, <1>9

LEMMA ReadersAgreeIs ==
  ASSUME RowsAssumption, TableInv, phase = "ready", NEW start \in 0..Rows-1, NEW count \in 1..Rows-start
  PROVE  LET cells == OfTable!ReadContiguous(start, count)
         IN  /\ Len(cells) = count * table.rowBytes
             /\ \A d \in 0..count-1 :
                  SubSeq(cells, d * table.rowBytes + 1, (d + 1) * table.rowBytes) = OfTable!ReadRow(start + d)
<1> DEFINE rb == table.rowBytes
           A == BytesFrom(start, count, 0)
<1>1. Rows \in Nat /\ Rows > 0 /\ start \in Nat /\ count \in Nat /\ count - 0 = count /\ 0 \in 0..count
  BY TableConsts
<1>2. rb \in Nat \ {0}
  BY <1>1, BytesOfRow
<1>3. OfTable!ReadContiguous(start, count) = A
  BY ReadContiguousIs
<1>4. A \in Seq(ByteNames) /\ Len(A) = count * rb /\ count * rb \in Nat
  <2>1. A \in Seq(ByteNames) /\ Len(A) = (count - 0) * rb /\ (count - 0) * rb \in Nat
    BY <1>1, BytesFromType
  <2> HIDE DEF A
  <2> QED BY <2>1, <1>1
<1>5. ASSUME NEW y \in Nat, y < count * rb PROVE A[y + 1] = ByteAt(start, y)
  <2>1. y + 1 \in 1..(count - 0) * rb
    BY <1>1, <1>4, <1>5
  <2>2. A[y + 1] = ByteAt(start, 0 * rb + (y + 1) - 1)
    BY <2>1 DEF BytesFrom
  <2>3. 0 * rb + (y + 1) - 1 = y
    BY <1>2
  <2> QED BY <2>2, <2>3
<1> HIDE DEF A, rb
<1>6. ASSUME NEW d \in 0..count-1
      PROVE  SubSeq(A, d * rb + 1, (d + 1) * rb) = OfTable!ReadRow(start + d)
  <2> DEFINE i == start + d
             R == OfTable!TrueRow(i)
  <2>1. i \in 0..Rows-1 /\ d \in Nat
    BY <1>1
  <2>2. OfTable!ReadRow(i) = R
    BY <2>1, RowReadIs
  <2>3. d * rb \in Nat /\ (d + 1) * rb = d * rb + rb /\ (d + 1) * rb <= count * rb /\ (d + 1) * rb \in Nat
    <3>1. d * rb \in Nat /\ (d + 1) * rb = d * rb + rb /\ (d + 1) * rb \in Nat
      BY <1>2, <2>1
    <3>2. (d + 1) * rb <= count * rb
      BY <1>1, <1>2, <2>1, ProductMonotone
    <3> QED BY <3>1, <3>2
  <2>4. \A x \in d * rb + 1..(d + 1) * rb : A[x] \in ByteNames
    <3>1. \A x \in d * rb + 1..(d + 1) * rb : x \in 1..Len(A)
      BY <1>4, <2>3
    <3> QED BY <3>1, <1>4
  <2> DEFINE T == SubSeq(A, d * rb + 1, (d + 1) * rb)
             lo == d * rb + 1
             hi == (d + 1) * rb
  <2>5. /\ T \in Seq(ByteNames) /\ Len(T) = IF lo <= hi THEN hi - lo + 1 ELSE 0
        /\ \A x \in 1..hi-lo+1 : T[x] = A[lo + x - 1]
    <3>1. lo \in Int /\ hi \in Int
      BY <2>3
    <3> HIDE DEF lo, hi
    <3> QED BY <2>4, <3>1, SubSeqProperties DEF lo, hi
  <2>6. lo <= hi /\ hi - lo + 1 = rb
    BY <1>2, <2>3
  <2>7. ASSUME NEW c \in 1..rb PROVE T[c] = <<i \div OfTable!ShardSize, i % OfTable!ShardSize, c - 1>>
    <3>1. T[c] = A[(d * rb + (c - 1)) + 1]
      <4>1. T[c] = A[lo + c - 1]
        <5> HIDE DEF T, lo, hi
        <5> QED BY <2>5, <2>6
      <4>2. lo + c - 1 = (d * rb + (c - 1)) + 1
        BY <2>3, <1>2
      <4> HIDE DEF T, lo
      <4> QED BY <4>1, <4>2
    <3>2. d * rb + (c - 1) \in Nat /\ d * rb + (c - 1) < count * rb /\ c - 1 \in 0..rb-1
      BY <1>2, <1>4, <2>3
    <3>3. T[c] = ByteAt(start, d * rb + (c - 1))
      <4> HIDE DEF T
      <4> QED BY <3>1, <3>2, <1>5
    <3>4. (d * rb + (c - 1)) \div rb = d /\ (d * rb + (c - 1)) % rb = c - 1
      BY <3>2, <2>1, <1>2, DivideIs
    <3> HIDE DEF T
    <3> QED BY <3>3, <3>4, Zenon DEF ByteAt, rb
  <2>8. R = [c \in 1..rb |-> <<i \div OfTable!ShardSize, i % OfTable!ShardSize, c - 1>>]
    BY Zenon DEF OfTable!TrueRow, rb
  <2>9. T = [c \in 1..Len(T) |-> T[c]] /\ Len(T) = rb
    <3> HIDE DEF T, lo, hi
    <3> QED BY <2>5, <2>6
  <2>10. T = R
    <3> HIDE DEF T, R, i
    <3> QED BY <2>7, <2>8, <2>9, Zenon
  <2> QED BY <2>2, <2>10
<1> QED BY <1>3, <1>4, <1>6 DEF rb

-----------------------------------------------------------------------------
(* A whole checkpoint: no shard of it is refused.                          *)
LEMMA WholeIs ==
  ASSUME RowsAssumption, ckpt \in Checkpoints, OfTable!WellFormed
  PROVE  /\ {t.shard : t \in Found} = 0..NgramParts-1
         /\ \A t \in Found : /\ OfTable!Loadable(t)
                            /\ t.end - t.begin = t.rows * OfTable!RowBytes(t)
         /\ \A t, u \in Found : t.bytes = u.bytes /\ OfTable!RowBytes(t) = OfTable!RowBytes(u)
         /\ \A t \in Found : t.shard < NgramParts - 1 => t.rows = OfTable!ShardSize
         /\ \A t, u \in Found : t.shard = u.shard => t = u
<1>1. /\ {t.shard : t \in Found} = 0..NgramParts-1
      /\ Cardinality(Found) = NgramParts
      /\ \A t \in Found : /\ t.rows = OfTable!ExpectedRows(t.shard) /\ t.width = EmbeddingDim
                         /\ t.end - t.begin = t.rows * OfTable!RowBytes(t)
      /\ \A t, u \in Found : t.bytes = u.bytes
      /\ \A t \in Found : t.shard < NgramParts - 1 => t.rows = OfTable!ShardSize
  BY SameCardinality, Zenon DEF OfTable!WellFormed, Found
<1>2. ASSUME NEW t \in Found PROVE OfTable!Loadable(t)
  <2>1. t.shard \in 0..NgramParts-1
    BY <1>1
  <2>2. t.shard < NgramParts
    BY <2>1, TableConsts
  <2> QED BY <1>1, <2>2 DEF OfTable!Loadable
<1>3. \A t, u \in Found : OfTable!RowBytes(t) = OfTable!RowBytes(u)
  BY <1>1 DEF OfTable!RowBytes
<1> DEFINE T == 0..NgramParts-1
           g == [t \in Found |-> t.shard]
<1>4. g \in Surjection(Found, T)
  BY <1>1 DEF Surjection
<1>5. IsFiniteSet(T) /\ Cardinality(T) = NgramParts
  <2>1. NgramParts \in Nat \ {0} /\ NgramParts - 1 \in Int
    BY TableConsts
  <2>2. IsFiniteSet(T) /\ Cardinality(T) = IF 0 > NgramParts - 1 THEN 0 ELSE (NgramParts - 1) - 0 + 1
    BY <2>1, FS_Interval
  <2> HIDE DEF T
  <2> QED BY <2>1, <2>2
<1>6. g \in Injection(Found, T)
  <2> HIDE DEF T, g
  <2> QED BY <1>1, <1>4, <1>5, FoundAre, FS_SurjSameCardinalityImpliesInj
<1>7. \A t, u \in Found : t.shard = u.shard => t = u
  BY <1>6 DEF Injection, IsInjective
<1> QED BY <1>1, <1>2, <1>3, <1>7

LEMMA WholeIsConsistent ==
  ASSUME RowsAssumption, ckpt \in Checkpoints, OfTable!WellFormed, Filed(Found)
  PROVE  OfTable!Consistent
<1> DEFINE n == NgramParts
<1>1. DOMAIN shards = 0..n-1 /\ n \in Nat \ {0}
  BY WholeIs, TableConsts DEF Filed
<1>2. OfTable!Cardinality(DOMAIN shards) = n /\ Cardinality(DOMAIN shards) = n
  <2>1. Cardinality(0..n-1) = IF 0 > n - 1 THEN 0 ELSE (n - 1) - 0 + 1
    BY <1>1, FS_Interval
  <2> QED BY <2>1, <1>1, SameCardinality
<1>3. ASSUME NEW s \in 0..n-1
      PROVE  shards[s] \in Found /\ shards[s].shard = s /\ shards[s].rows = OfTable!ExpectedRows(s)
  <2>1. PICK t \in Found : t.shard = s
    BY <1>1 DEF Filed
  <2>2. shards[s] = t
    BY <2>1 DEF Filed
  <2> QED BY <2>1, <2>2, WholeIs DEF OfTable!Loadable
<1>4. ASSUME NEW s \in 0..n-1
      PROVE  OfTable!RowBytes(shards[s]) = OfTable!RowBytes(shards[0]) /\ shards[s].bytes = shards[0].bytes
  <2>1. 0 \in 0..n-1
    BY <1>1
  <2> QED BY <2>1, <1>3, WholeIs
<1>5. ASSUME NEW s \in 0..n-2 PROVE shards[s].rows = shards[0].rows
  <2>1. 0 \in 0..n-1 /\ s \in 0..n-1 /\ 0 < n - 1 /\ s < n - 1
    BY <1>1
  <2> QED BY <2>1, <1>3, WholeIs
<1>6. OfTable!RowsOfShards = Rows
  <2>1. OfTable!RowsOfShards = IF Rows < n * OfTable!ShardSize THEN Rows ELSE n * OfTable!ShardSize
    BY <1>1, <1>2, <1>3, RowsOfShardsIs
  <2>2. Rows <= n * OfTable!ShardSize /\ n * OfTable!ShardSize \in Int /\ Rows \in Int
    BY <1>1, ShardSizeIs, TableConsts
  <2> QED BY <2>1, <2>2
<1>7. n > 0
  BY <1>1
<1> HIDE DEF n
<1> QED BY <1>1, <1>2, <1>4, <1>5, <1>6, <1>7, Zenon DEF OfTable!Consistent

-----------------------------------------------------------------------------
LEMMA TableInit ==
  ASSUME OfTable!Init
  PROVE  TableInv
  BY DEF OfTable!Init, OfTable!None, TableInv, Found

LEMMA LoadShardStep ==
  ASSUME RowsAssumption, TableInv, NEW t \in toLoad, OfTable!LoadShard(t)
  PROVE  TableInv'
<1>1. /\ phase = "load" /\ toLoad' = toLoad \ {t} /\ UNCHANGED <<ckpt, indexed, toScan, shards, table>>
      /\ phase' = IF OfTable!Loadable(t) THEN phase ELSE "failed"
  BY DEF OfTable!LoadShard
<1>2. /\ ckpt \in Checkpoints /\ toLoad \subseteq Found /\ shards = << >>
      /\ \A u \in Found \ toLoad : OfTable!Loadable(u)
  BY <1>1 DEF TableInv
<1>3. Found' = Found /\ (OfTable!WellFormed)' = OfTable!WellFormed
      /\ \A u \in Found : OfTable!Loadable(u)' = OfTable!Loadable(u)
  BY <1>1 DEF Found, OfTable!Scanned, OfTable!WellFormed, OfTable!Loadable
<1>4. CASE OfTable!Loadable(t)
  BY <1>1, <1>2, <1>3, <1>4 DEF TableInv
<1>5. CASE ~OfTable!Loadable(t)
  <2>1. ~OfTable!WellFormed
    BY <1>2, <1>5, WholeIs
  <2> QED BY <1>1, <1>2, <1>3, <1>5, <2>1 DEF TableInv
<1> QED BY <1>4, <1>5

LEMMA StartScanStep ==
  ASSUME TableInv, OfTable!StartScan
  PROVE  TableInv'
<1>1. /\ phase = "load" /\ toLoad = {} /\ phase' = "scan" /\ toScan' = Found
      /\ UNCHANGED <<ckpt, indexed, toLoad, shards, table>>
  BY DEF OfTable!StartScan, Found
<1>2. ckpt \in Checkpoints /\ shards = << >> /\ \A u \in Found : OfTable!Loadable(u)
  BY <1>1 DEF TableInv
<1>3. Found' = Found /\ \A u \in Found : OfTable!Loadable(u)' = OfTable!Loadable(u)
  BY <1>1 DEF Found, OfTable!Scanned, OfTable!Loadable
<1>4. Filed(Found \ toScan)'
  <2>1. (Found \ toScan)' = {}
    BY <1>1, <1>3
  <2>2. DOMAIN shards' = {}
    BY <1>1, <1>2
  <2> QED BY <2>1, <2>2 DEF Filed
<1> QED BY <1>1, <1>2, <1>3, <1>4 DEF TableInv

LEMMA ScanTensorStep ==
  ASSUME RowsAssumption, TableInv, NEW t \in toScan, OfTable!ScanTensor(t)
  PROVE  TableInv'
<1>1. phase = "scan" /\ toScan' = toScan \ {t} /\ UNCHANGED <<ckpt, indexed, toLoad, table>>
  BY DEF OfTable!ScanTensor
<1>2. /\ ckpt \in Checkpoints /\ toScan \subseteq Found /\ Filed(Found \ toScan)
      /\ \A u \in Found : OfTable!Loadable(u)
  BY <1>1 DEF TableInv
<1>3. Found' = Found /\ (OfTable!WellFormed)' = OfTable!WellFormed
      /\ \A u \in Found : OfTable!Loadable(u)' = OfTable!Loadable(u)
  BY <1>1 DEF Found, OfTable!Scanned, OfTable!WellFormed, OfTable!Loadable
<1>4. CASE OfTable!Accepted(t)
  <2>1. /\ shards' = [s \in DOMAIN shards \union {t.shard} |-> IF s = t.shard THEN t ELSE shards[s]]
        /\ phase' = phase
    BY <1>4 DEF OfTable!ScanTensor
  <2>2. t.shard \notin DOMAIN shards /\ t.end - t.begin = t.rows * OfTable!RowBytes(t)
    BY <1>4 DEF OfTable!Accepted
  <2> DEFINE old == Found \ toScan
             new == Found \ (toScan \ {t})
  <2>3. new = old \cup {t}
    BY <1>2
  <2>4. DOMAIN shards' = {u.shard : u \in new}
    BY <1>2, <2>1, <2>3 DEF Filed
  <2>5. ASSUME NEW u \in new
        PROVE  shards'[u.shard] = u /\ u.end - u.begin = u.rows * OfTable!RowBytes(u)
    <3>1. CASE u = t
      BY <2>1, <2>2, <3>1
    <3>2. CASE u # t
      <4>1. u \in old /\ u.shard \in DOMAIN shards
        BY <2>3, <3>2, <1>2 DEF Filed
      <4>2. u.shard # t.shard
        BY <4>1, <2>2
      <4> QED BY <4>1, <4>2, <2>1, <1>2 DEF Filed
    <3> QED BY <3>1, <3>2
  <2>6. (Found \ toScan)' = new
    BY <1>1, <1>3
  <2>7. Filed(Found \ toScan)'
    <3> HIDE DEF new, old
    <3> QED BY <2>4, <2>5, <2>6 DEF Filed, OfTable!RowBytes
  <2> QED BY <1>1, <1>2, <1>3, <2>1, <2>7 DEF TableInv
<1>5. CASE ~OfTable!Accepted(t)
  <2>1. phase' = "failed" /\ shards' = shards
    BY <1>5 DEF OfTable!ScanTensor
  <2>2. ~OfTable!WellFormed
    <3> SUFFICES ASSUME OfTable!WellFormed PROVE FALSE
      OBVIOUS
    <3>1. t.shard \in DOMAIN shards
      BY <1>2, <1>5, WholeIs DEF OfTable!Accepted
    <3>2. PICK u \in Found \ toScan : u.shard = t.shard
      BY <3>1, <1>2 DEF Filed
    <3> QED BY <3>2, <1>2, WholeIs
  <2> QED BY <1>1, <1>2, <1>3, <2>1, <2>2 DEF TableInv
<1> QED BY <1>4, <1>5

LEMMA BuildTableStep ==
  ASSUME RowsAssumption, TableInv, OfTable!BuildTable
  PROVE  TableInv'
<1>1. phase = "scan" /\ toScan = {} /\ UNCHANGED <<ckpt, indexed, toLoad, toScan, shards>>
  BY DEF OfTable!BuildTable
<1>2. /\ ckpt \in Checkpoints /\ Filed(Found) /\ \A u \in Found : OfTable!Loadable(u)
  <2>1. Found \ toScan = Found
    BY <1>1
  <2> QED BY <1>1, <2>1 DEF TableInv
<1>3. /\ Found' = Found /\ (OfTable!WellFormed)' = OfTable!WellFormed
      /\ \A u \in Found : OfTable!Loadable(u)' = OfTable!Loadable(u)
      /\ OfTable!Consistent' = OfTable!Consistent
      /\ Filed(Found)' = Filed(Found)
      /\ OfTable!RowBytes(shards[0])' = OfTable!RowBytes(shards[0])
  BY <1>1 DEF Found, OfTable!Scanned, OfTable!WellFormed, OfTable!Loadable, OfTable!Consistent,
              OfTable!RowsOfShards, OfTable!RowBytes, Filed
<1>4. CASE OfTable!Consistent
  <2>1. /\ phase' = "ready"
        /\ table' = [n |-> OfTable!Cardinality(DOMAIN shards), rowBytes |-> OfTable!RowBytes(shards[0]),
                     shardRows |-> shards[0].rows]
    BY <1>4 DEF OfTable!BuildTable
  <2>2. table'.rowBytes = OfTable!RowBytes(shards[0]) /\ table'.shardRows = shards[0].rows
    BY <2>1
  <2> QED BY <1>1, <1>2, <1>3, <1>4, <2>1, <2>2 DEF TableInv
<1>5. CASE ~OfTable!Consistent
  <2>1. phase' = "failed" /\ ~OfTable!WellFormed
    BY <1>2, <1>5, WholeIsConsistent DEF OfTable!BuildTable
  <2> QED BY <1>1, <1>2, <1>3, <2>1 DEF TableInv
<1> QED BY <1>4, <1>5

LEMMA TableStep ==
  ASSUME RowsAssumption, TableInv, [OfTable!Next]_(OfTable!vars)
  PROVE  TableInv'
<1>1. CASE UNCHANGED OfTable!vars
  BY <1>1 DEF OfTable!vars, TableInv, Found, Filed, OfTable!Scanned, OfTable!WellFormed, OfTable!Loadable,
              OfTable!Consistent, OfTable!RowsOfShards, OfTable!RowBytes
<1>2. CASE OfTable!Next
  BY <1>2, LoadShardStep, StartScanStep, ScanTensorStep, BuildTableStep DEF OfTable!Next
<1> QED BY <1>1, <1>2

LEMMA StepOfTable ==
  ASSUME [NextRows]_rowsVars
  PROVE  UNCHANGED part /\ (part = "table" => [OfTable!Next]_(OfTable!vars))
<1>1. CASE UNCHANGED rowsVars
  BY <1>1 DEF rowsVars, tableVars, OfTable!vars
<1>2. CASE NextRows
  BY <1>2 DEF NextRows
<1> QED BY <1>1, <1>2

(* Whatever lies in the files: a table the scan accepts returns for every  *)
(* row of the embedding the bytes of that row, and a checkpoint that holds *)
(* every shard once is not refused.                                        *)
THEOREM RowsAreTheirOwnHolds ==
  ASSUME RowsAssumption
  PROVE  SpecRows => []RowsAreTheirOwn
<1> DEFINE Inv == part = "table" => TableInv
<1>1. InitRows => Inv
  BY TableInit DEF InitRows
<1>2. Inv /\ [NextRows]_rowsVars => Inv'
  BY TableStep, StepOfTable
<1>3. Inv => RowsAreTheirOwn
  BY RowReadIs DEF RowsAreTheirOwn, OfTable!RowsAreTheirOwn, OfTable!WholeIsAccepted, TableInv
<1> QED BY <1>1, <1>2, <1>3, PTL DEF SpecRows

(* The reader of contiguous rows returns what the reader of single rows    *)
(* does, for every range of rows, wherever shards and reads end in it.     *)
THEOREM ReadersAgreeHolds ==
  ASSUME RowsAssumption
  PROVE  SpecRows => []ReadersAgree
<1> DEFINE Inv == part = "table" => TableInv
<1>1. InitRows => Inv
  BY TableInit DEF InitRows
<1>2. Inv /\ [NextRows]_rowsVars => Inv'
  BY TableStep, StepOfTable
<1>3. Inv => ReadersAgree
  BY ReadersAgreeIs, Zenon DEF ReadersAgree, OfTable!ReadersAgree
<1> QED BY <1>1, <1>2, <1>3, PTL DEF SpecRows

-----------------------------------------------------------------------------
(* Division, step by step                                                  *)

LEMMA RemainderIs ==
  ASSUME NEW a \in Int, NEW b \in Nat \ {0}
  PROVE  a % b \in 0..b-1 /\ a = (a \div b) * b + (a % b) /\ a \div b \in Int
<1>1. a % b \in 0..b-1 /\ a \div b \in Int
  OBVIOUS
<1>2. a = b * (a \div b) + (a % b)
  OBVIOUS
<1> QED BY <1>1, <1>2

LEMMA DivideMore ==
  ASSUME NEW a \in Int, NEW b \in Nat \ {0}, NEW q \in Int, NEW r \in Int, 0 <= r, r < b, a = q * b + r
  PROVE  a \div b = q /\ a % b = r
<1>1. q * b <= a /\ a < q * b + b /\ q * b \in Int
  OBVIOUS
<1>2. a \div b = q
  BY <1>1, DivideUnique
<1> DEFINE m == a % b
           p == q * b
<1>3. m \in Int /\ a = p + m /\ p \in Int /\ a = p + r
  <2>1. a % b \in 0..b-1 /\ a = (a \div b) * b + (a % b)
    BY RemainderIs
  <2>2. a = q * b + (a % b)
    BY <1>2, <2>1, Zenon
  <2> QED BY <1>1, <2>1, <2>2
<1> HIDE DEF m, p
<1>4. m = r
  BY <1>3
<1> QED BY <1>2, <1>4 DEF m

LEMMA DivideNat ==
  ASSUME NEW a \in Nat, NEW b \in Nat \ {0} PROVE a \div b \in Nat
<1>1. a \div b \in Int /\ a < (a \div b) * b + b
  BY DivideBounds
<1> DEFINE q == a \div b
<1> HIDE DEF q
<1>2. q \in Int /\ 0 < (q + 1) * b
  BY <1>1 DEF q
<1>3. q >= 0
  BY <1>2
<1> QED BY <1>2, <1>3 DEF q

LEMMA DivideTwice ==
  ASSUME NEW a \in Int, NEW b \in Nat \ {0}, NEW c \in Nat \ {0}
  PROVE  (a \div b) \div c = a \div (b * c)
<1> DEFINE p == a \div b
           q == p \div c
<1>1. p \in Int /\ p * b <= a /\ a < p * b + b
  BY DivideBounds
<1>2. q \in Int /\ q * c <= p /\ p < q * c + c
  <2> HIDE DEF p
  <2> QED BY <1>1, DivideBounds
<1> HIDE DEF p, q
<1>3. b * c \in Nat \ {0}
  OBVIOUS
<1>4. q * (b * c) <= a
  <2>1. (q * c) * b <= p * b
    BY <1>1, <1>2
  <2>2. (q * c) * b = q * (b * c) /\ q * (b * c) \in Int /\ p * b \in Int
    BY <1>1, <1>2
  <2> QED BY <1>1, <2>1, <2>2
<1>5. a < q * (b * c) + b * c
  <2>1. (p + 1) * b <= (q * c + c) * b
    BY <1>1, <1>2
  <2>2. (q * c + c) * b = q * (b * c) + b * c /\ (p + 1) * b = p * b + b
    BY <1>1, <1>2
  <2> DEFINE x == q * (b * c)
             y == b * c
             z == p * b
  <2>3. x \in Int /\ y \in Int /\ z \in Int /\ z + b <= x + y /\ a < z + b
    BY <1>1, <1>2, <2>1, <2>2
  <2> HIDE DEF x, y, z
  <2>4. a < x + y
    BY <2>3
  <2> QED BY <2>4 DEF x, y
<1> DEFINE d == b * c
<1> HIDE DEF d
<1>6. a \div d = q
  BY <1>2, <1>3, <1>4, <1>5, DivideUnique DEF d
<1> QED BY <1>6 DEF d, q, p

-----------------------------------------------------------------------------
(* DeviceIds                                                               *)

LEMMA WaysMeetAlways ==
  ASSUME NEW n \in Nat, NEW assigned \in Seq(0..n-1), NEW shown \in Seq({Device!NotANumber} \cup 0..n-1), NEW d \in Nat
  PROVE  WaysMeet(assigned, shown, d)
<1> DEFINE p == Device!LogicalToPhysical(assigned, shown, d)
           v == Device!LogicalToVisible(assigned, shown, d)
           places == {i \in 0..Len(shown)-1 : Device!ToPhysical(shown[i + 1]) = p}
           odd == \E i \in DOMAIN shown : Device!ToPhysical(shown[i]) = Device!Error
<1>0. \A i \in DOMAIN shown : /\ shown[i] \in Int
                             /\ Device!ToPhysical(shown[i]) \in Int
                             /\ Device!ToPhysical(shown[i]) = Device!Error <=> shown[i] = Device!NotANumber
                             /\ shown[i] # Device!NotANumber => Device!ToPhysical(shown[i]) = shown[i]
  <2> SUFFICES ASSUME NEW i \in DOMAIN shown
               PROVE  /\ shown[i] \in Int
                      /\ Device!ToPhysical(shown[i]) \in Int
                      /\ Device!ToPhysical(shown[i]) = Device!Error <=> shown[i] = Device!NotANumber
                      /\ shown[i] # Device!NotANumber => Device!ToPhysical(shown[i]) = shown[i]
    OBVIOUS
  <2>1. shown[i] \in {Device!NotANumber} \cup 0..n-1
    BY ElementOfSeq, LenProperties
  <2> QED BY <2>1 DEF Device!ToPhysical, Device!NotANumber, Device!Error
<1>1. p \in Int /\ Len(shown) \in Nat /\ DOMAIN shown = 1..Len(shown)
  <2>1. Len(shown) \in Nat /\ DOMAIN shown = 1..Len(shown)
    BY LenProperties
  <2>2. CASE assigned # Device!Unset
    BY <2>2, LenProperties, ElementOfSeq DEF Device!LogicalToPhysical, Device!At, Device!Error
  <2>3. CASE assigned = Device!Unset /\ shown # Device!Unset /\ d < Len(shown)
    <3>1. d + 1 \in DOMAIN shown /\ p = Device!ToPhysical(shown[d + 1])
      BY <2>1, <2>3 DEF Device!LogicalToPhysical, Device!At
    <3>2. shown[d + 1] \in {Device!NotANumber} \cup 0..n-1
      BY <3>1, ElementOfSeq, LenProperties
    <3>3. Device!ToPhysical(shown[d + 1]) \in Int
      BY <3>2 DEF Device!ToPhysical, Device!NotANumber, Device!Error
    <3> HIDE DEF p
    <3> QED BY <2>1, <3>1, <3>3
  <2>4. CASE assigned = Device!Unset /\ ~(shown # Device!Unset /\ d < Len(shown))
    BY <2>1, <2>4 DEF Device!LogicalToPhysical, Device!At, Device!Error, Device!ToPhysical, Device!NotANumber
  <2> HIDE DEF p
  <2> QED BY <2>1, <2>2, <2>3, <2>4
<1>2. CASE shown = Device!Unset \/ p = Device!Error
  <2>1. v = p
    BY <1>2 DEF Device!LogicalToVisible
  <2>2. p # Device!Error => Device!VisibleToPhysical(shown, v) = p
    BY <1>2, <2>1 DEF Device!VisibleToPhysical
  <2> HIDE DEF p, v
  <2> QED BY <2>1, <2>2 DEF WaysMeet, p, v
<1>3. CASE ~(shown = Device!Unset \/ p = Device!Error)
  <2>1. v = IF places = {} \/ odd THEN Device!Error ELSE CHOOSE i \in places : \A j \in places : i <= j
    BY <1>3 DEF Device!LogicalToVisible
  <2>2. places # {} /\ ~odd => v \in places
    <3>1. places \in SUBSET Int /\ IsFiniteSet(places)
      <4>1. IsFiniteSet(0..Len(shown)-1)
        BY <1>1, FS_Interval
      <4>2. places \subseteq 0..Len(shown)-1
        OBVIOUS
      <4> QED BY <4>1, <4>2, FS_Subset, <1>1
    <3> HIDE DEF places, v, odd
    <3>2. places # {} => \E i \in places : \A j \in places : i <= j
      BY <3>1, GreatestAndLeast
    <3> QED BY <2>1, <3>2
  <2>3. CASE places = {} \/ odd
    <3>1. ASSUME odd PROVE \E i \in DOMAIN shown : shown[i] = Device!NotANumber
      <4>1. PICK i \in DOMAIN shown : Device!ToPhysical(shown[i]) = Device!Error
        BY <3>1
      <4>2. shown[i] \in {Device!NotANumber} \cup 0..n-1
        BY ElementOfSeq, LenProperties
      <4>3. shown[i] = Device!NotANumber
        BY <4>1, <4>2 DEF Device!ToPhysical, Device!NotANumber, Device!Error
      <4> QED BY <4>3
    <3>2. ASSUME places = {}, ~odd, NEW i \in DOMAIN shown PROVE shown[i] # p
      <4>1. i - 1 \in 0..Len(shown)-1 /\ (i - 1) + 1 = i
        BY <1>1
      <4>2. Device!ToPhysical(shown[i]) = shown[i]
        BY <1>0, <3>2
      <4> QED BY <3>2, <4>1, <4>2
    <3>3. v = Device!Error
      <4> HIDE DEF places, v, odd
      <4> QED BY <2>1, <2>3
    <3> HIDE DEF places, v, odd, p
    <3>4. \/ shown # Device!Unset /\ \A i \in DOMAIN shown : shown[i] # p
          \/ \E i \in DOMAIN shown : shown[i] = Device!NotANumber
      BY <1>3, <2>3, <3>1, <3>2
    <3> QED BY <3>3, <3>4 DEF WaysMeet, p, v
  <2>4. CASE places # {} /\ ~odd
    <3>1. v \in 0..Len(shown)-1 /\ Device!ToPhysical(shown[v + 1]) = p
      BY <2>2, <2>4
    <3> HIDE DEF v, p
    <3>2. Device!VisibleToPhysical(shown, v) = p /\ v # Device!Error
      BY <1>1, <1>3, <3>1 DEF Device!VisibleToPhysical, Device!At, Device!Error
    <3> QED BY <3>2 DEF WaysMeet, v, p
  <2> QED BY <2>3, <2>4
<1> QED BY <1>2, <1>3

LEMMA RanksAreVisibleAlways ==
  ASSUME NEW n \in Nat, NEW assigned \in Seq(0..n-1), NEW shown \in Seq({Device!NotANumber} \cup 0..n-1), NEW d \in Nat
  PROVE  RanksAreVisible(assigned, shown, d)
<1> SUFFICES ASSUME assigned = Device!Unset, IsInjective(shown), \A i \in DOMAIN shown : shown[i] # Device!NotANumber
             PROVE  Device!LogicalToVisible(assigned, shown, d) =
                      IF shown = Device!Unset \/ d < Len(shown) THEN d ELSE Device!Error
  BY DEF RanksAreVisible
<1> DEFINE p == Device!LogicalToPhysical(assigned, shown, d)
           v == Device!LogicalToVisible(assigned, shown, d)
           places == {i \in 0..Len(shown)-1 : Device!ToPhysical(shown[i + 1]) = p}
           odd == \E i \in DOMAIN shown : Device!ToPhysical(shown[i]) = Device!Error
<1>1. Len(shown) \in Nat /\ DOMAIN shown = 1..Len(shown)
  BY LenProperties
<1>0. \A i \in DOMAIN shown : /\ shown[i] \in 0..n-1
                             /\ Device!ToPhysical(shown[i]) = shown[i]
                             /\ shown[i] # Device!Error
  <2> SUFFICES ASSUME NEW i \in DOMAIN shown
               PROVE  /\ shown[i] \in 0..n-1
                      /\ Device!ToPhysical(shown[i]) = shown[i]
                      /\ shown[i] # Device!Error
    OBVIOUS
  <2>1. shown[i] \in 0..n-1
    BY ElementOfSeq, <1>1
  <2> QED BY <2>1 DEF Device!ToPhysical, Device!Error
<1>5. ~odd
  BY <1>0
<1>2. CASE shown = Device!Unset
  BY <1>2 DEF Device!LogicalToVisible, Device!LogicalToPhysical
<1>3. CASE shown # Device!Unset /\ ~(d < Len(shown))
  <2>1. p = Device!Error
    BY <1>3 DEF Device!LogicalToPhysical, Device!At, Device!ToPhysical, Device!Error, Device!NotANumber
  <2> HIDE DEF p
  <2>2. v = p
    BY <2>1 DEF Device!LogicalToVisible, p
  <2> QED BY <1>3, <2>1, <2>2
<1>4. CASE shown # Device!Unset /\ d < Len(shown)
  <2>1. p = shown[d + 1] /\ d + 1 \in DOMAIN shown /\ p \in 0..n-1
    BY <1>0, <1>1, <1>4 DEF Device!LogicalToPhysical, Device!At
  <2>2. places = {d}
    <3>1. d \in places
      BY <1>0, <1>1, <1>4, <2>1
    <3>2. ASSUME NEW i \in places PROVE i = d
      <4>1. i + 1 \in DOMAIN shown /\ shown[i + 1] = shown[d + 1] /\ i \in Int
        BY <1>0, <1>1, <2>1, <3>2
      <4>2. i + 1 = d + 1
        BY <2>1, <4>1 DEF IsInjective
      <4> QED BY <4>1, <4>2
    <3> QED BY <3>1, <3>2
  <2>3. v = CHOOSE i \in places : \A j \in places : i <= j
    <3>1. v = IF shown = Device!Unset \/ p = Device!Error THEN p
              ELSE IF places = {} \/ odd THEN Device!Error ELSE CHOOSE i \in places : \A j \in places : i <= j
      BY DEF Device!LogicalToVisible
    <3>2. p # Device!Error /\ places # {}
      <4>1. d \in {d}
        OBVIOUS
      <4> HIDE DEF p, places
      <4>2. p \in 0..n-1 /\ n \in Int
        BY <2>1
      <4>3. ~(-1 \in 0..n-1)
        OBVIOUS
      <4> QED BY <2>2, <4>1, <4>2, <4>3, Zenon DEF Device!Error
    <3> HIDE DEF v, p, places, odd
    <3> QED BY <1>4, <1>5, <3>1, <3>2
  <2>4. v = d
    <3> HIDE DEF v, p
    <3>1. v = CHOOSE i \in {d} : \A j \in {d} : i <= j
      BY <2>2, <2>3
    <3>2. \E i \in {d} : \A j \in {d} : i <= j
      OBVIOUS
    <3> QED BY <3>1, <3>2
  <2> QED BY <1>4, <2>4
<1> QED BY <1>2, <1>3, <1>4

LEMMA CapabilitiesAgreeAlways ==
  ASSUME MaxMajor \in Nat, MaxMinor \in 0..9, NEW d PROVE CapabilitiesAgree(d)
<1> SUFFICES ASSUME NEW c \in Capabilities, NEW asked \in (0..MaxMajor) \X (0..MaxMinor)
             PROVE  /\ Device!HasPair(c, asked) <=> Device!HasInt(c, Device!ToInt(asked))
                    /\ Device!IsPair(c, asked) <=> Device!IsInt(c, Device!ToInt(asked))
                    /\ Device!IsFamily(c, Device!ToInt(asked)) <=>
                         Device!HasPair(c, <<asked[1], 0>>) /\ ~Device!HasPair(c, <<asked[1] + 1, 0>>)
  BY DEF CapabilitiesAgree
<1>1. CASE c = Device!None
  BY <1>1 DEF Device!HasPair, Device!HasInt, Device!IsPair, Device!IsInt, Device!IsFamily
<1>2. CASE c # Device!None
  <2>1. c \in (0..MaxMajor) \X (0..MaxMinor)
    BY <1>2 DEF Capabilities
  <2>2. PICK M \in 0..MaxMajor, m \in 0..MaxMinor : c = <<M, m>>
    BY <2>1
  <2>3. PICK A \in 0..MaxMajor, a \in 0..MaxMinor : asked = <<A, a>>
    OBVIOUS
  <2>4. m \in 0..9 /\ a \in 0..9 /\ M \in Nat /\ A \in Nat
    OBVIOUS
  <2>5. Device!ToInt(c) = M * 10 + m /\ Device!ToInt(asked) = A * 10 + a
    BY <2>2, <2>3 DEF Device!ToInt
  <2>6. (M * 10 + m) \div 10 = M /\ (A * 10 + a) \div 10 = A
    BY <2>4
  <2>7. Device!HasPair(c, asked) <=> Device!HasInt(c, Device!ToInt(asked))
    BY <1>2, <2>2, <2>3, <2>4, <2>5 DEF Device!HasPair, Device!HasInt, Device!AtLeast
  <2>8. Device!IsPair(c, asked) <=> Device!IsInt(c, Device!ToInt(asked))
    BY <1>2, <2>2, <2>3, <2>4, <2>5 DEF Device!IsPair, Device!IsInt
  <2>9. Device!IsFamily(c, Device!ToInt(asked)) <=>
          Device!HasPair(c, <<asked[1], 0>>) /\ ~Device!HasPair(c, <<asked[1] + 1, 0>>)
    <3>1. Device!IsFamily(c, Device!ToInt(asked)) <=> M = A
      BY <1>2, <2>5, <2>6 DEF Device!IsFamily
    <3>2. Device!HasPair(c, <<A, 0>>) <=> M >= A
      BY <1>2, <2>2, <2>4 DEF Device!HasPair, Device!AtLeast
    <3>3. Device!HasPair(c, <<A + 1, 0>>) <=> M >= A + 1
      BY <1>2, <2>2, <2>4 DEF Device!HasPair, Device!AtLeast
    <3> QED BY <2>3, <2>4, <3>1, <3>2, <3>3
  <2> QED BY <2>7, <2>8, <2>9
<1> QED BY <1>1, <1>2

-----------------------------------------------------------------------------
(* TpPad: heads                                                            *)

(* Entry d of head j, after every head is repeated rep times               *)
RepHeadsAt(t, heads, dim, rep, j, d) ==
  /\ j * dim + d \in Pad!Size(heads * dim * rep)
  /\ Pad!RepHeads(t, heads, dim, rep)[j * dim + d] = t[(j \div rep) * dim + d]
  /\ j \div rep \in 0..heads-1 /\ (j \div rep) * dim + d \in Pad!Size(heads * dim)

LEMMA RepHeadsIs ==
  ASSUME NEW t, NEW heads \in Nat \ {0}, NEW dim \in Nat \ {0}, NEW rep \in Nat \ {0},
         NEW j \in 0..heads*rep-1, NEW d \in 0..dim-1
  PROVE  RepHeadsAt(t, heads, dim, rep, j, d)
<1> DEFINE i == j * dim + d
<1>0. heads * rep \in Nat /\ j \in Nat /\ j < heads * rep
  OBVIOUS
<1>1. j * dim \in Nat /\ (heads * rep) * dim \in Nat /\ (j + 1) * dim <= (heads * rep) * dim
  BY <1>0
<1>2. (heads * rep) * dim = heads * dim * rep /\ (j + 1) * dim = j * dim + dim
  BY <1>0
<1>3. i \in 0..(heads * dim * rep)-1
  BY <1>1, <1>2
<1>4. i \in Int /\ j \in Int /\ d \in Int
  BY <1>1
<1>5. i \div dim = j /\ i % dim = d
  BY <1>4, DivideMore
<1>6. j \div rep \in Nat /\ (j \div rep) * rep <= j
  BY <1>0, DivideNat, DivideBounds
<1> DEFINE h == j \div rep
<1> HIDE DEF h
<1>7. h \in 0..heads-1
  <2>1. h * rep < heads * rep
    BY <1>0, <1>6 DEF h
  <2> QED BY <1>6, <2>1 DEF h
<1>8. h * dim + d \in 0..heads*dim-1
  <2>1. (h + 1) * dim <= heads * dim /\ h * dim \in Nat /\ heads * dim \in Nat /\ (h + 1) * dim = h * dim + dim
    BY <1>7
  <2> QED BY <2>1
<1> HIDE DEF i
<1>9. Pad!RepHeads(t, heads, dim, rep)[i] = t[((i \div dim) \div rep) * dim + (i % dim)]
  BY <1>3 DEF Pad!RepHeads, Pad!Size
<1>10. Pad!RepHeads(t, heads, dim, rep)[i] = t[h * dim + d]
  BY <1>5, <1>9 DEF h
<1> QED BY <1>3, <1>7, <1>8, <1>10 DEF i, h, Pad!Size, RepHeadsAt

(* A rank's share of what is read in groups: entry l of rank r, of p       *)
(* entries a rank, in groups of g                                          *)
LEMMA GroupOfShare ==
  ASSUME NEW r \in Nat, NEW L \in Nat, NEW g \in Nat \ {0}, NEW l \in 0..L*g-1
  PROVE  /\ l \div g \in 0..L-1
         /\ (r * (L * g) + l) \div g = r * L + (l \div g)
<1> DEFINE q == l \div g
<1>1. L * g \in Nat /\ l \in Nat /\ l < L * g
  OBVIOUS
<1>2. q \in Nat /\ q * g <= l /\ l < q * g + g
  BY <1>1, DivideNat, DivideBounds
<1> HIDE DEF q
<1>3. q < L
  <2>1. q * g < L * g
    BY <1>1, <1>2
  <2> QED BY <1>2, <2>1
<1>4. (r * L + q) * g <= r * (L * g) + l /\ r * (L * g) + l < (r * L + q) * g + g
  <2>1. (r * L + q) * g = r * (L * g) + q * g
    BY <1>2
  <2>2. r * (L * g) \in Nat /\ q * g \in Nat
    BY <1>2
  <2> QED BY <1>1, <1>2, <2>1, <2>2
<1> DEFINE a == r * (L * g) + l
           c == r * L + q
<1>5. a \in Int /\ c \in Int
  BY <1>1, <1>2
<1> HIDE DEF a, c
<1>6. a \div g = c
  BY <1>4, <1>5, DivideUnique DEF a, c
<1> QED BY <1>2, <1>3, <1>6 DEF a, c, q

(* Divides means: is a multiple.                                           *)
LEMMA MultipleIs ==
  ASSUME NEW a \in Nat, NEW b \in Nat \ {0}, a % b = 0
  PROVE  a \div b \in Nat /\ a = (a \div b) * b
BY RemainderIs, DivideNat

LEMMA AttentionKeeps ==
  ASSUME Dim \in Nat \ {0}, MaxKvHeads \in Nat, NEW tp \in Nat \ {0}, NEW rep \in Nat \ {0}, NEW size \in Nat,
         NEW rank \in 0..tp-1
  PROVE  AttentionKeepsItsHeads(tp, rep, size, rank)
<1> SUFFICES ASSUME NEW kv \in 1..MaxKvHeads, NEW group \in 1..size, 
                    Pad!SplitsHeads(kv * group * rep, kv * rep, tp),
                    NEW l \in Pad!Size((kv * group * rep) \div tp), NEW d \in Pad!Size(Dim)
             PROVE  LET q == kv * group * rep
                        t == Pad!RepHeads([i \in Pad!Size(kv * Dim) |-> i \div Dim], kv, Dim, rep)
                        perRank == q \div tp
                        local   == Pad!KvPerRank(kv * rep, tp)
                        j == l \div (perRank \div local)
                    IN  t[Pad!KvOfRank(kv * rep, tp, rank, j) * Dim + d] = (rank * perRank + l) \div (q \div kv)
  BY DEF AttentionKeepsItsHeads
<1> DEFINE q == kv * group * rep
           n == kv * rep
           org == [i \in Pad!Size(kv * Dim) |-> i \div Dim]
           t == Pad!RepHeads(org, kv, Dim, rep)
           perRank == q \div tp
           local   == Pad!KvPerRank(n, tp)
           j == l \div (perRank \div local)
           h == Pad!KvOfRank(n, tp, rank, j)
<1>0. kv \in Nat \ {0} /\ group \in Nat \ {0} /\ n \in Nat \ {0} /\ q \in Nat \ {0} /\ rank \in Nat /\ d \in 0..Dim-1
  BY DEF Pad!Size
<1>1. q = n * group /\ q = (group * rep) * kv /\ group * rep \in Nat \ {0} /\ q % tp = 0
  BY <1>0 DEF Pad!SplitsHeads
<1>2. q \div kv = group * rep
  <2> DEFINE gr == group * rep
  <2> HIDE DEF gr, q
  <2>1. gr \in Int /\ q = gr * kv
    BY <1>1 DEF gr
  <2> QED BY <1>0, <2>1, DivideExact DEF gr
<1>3. perRank \in Nat /\ q = perRank * tp /\ perRank > 0
  <2> HIDE DEF q
  <2>1. perRank \in Nat /\ q = perRank * tp
    BY <1>0, <1>1, MultipleIs
  <2> HIDE DEF perRank
  <2> QED BY <1>0, <2>1
<1>4. l \in Nat /\ l < perRank
  BY <1>3 DEF Pad!Size
(* What the rank reads, in heads of the checkpoint                         *)
<1>5. ASSUME h \in 0..n-1, h \div rep = (rank * perRank + l) \div (group * rep)
      PROVE  t[h * Dim + d] = (rank * perRank + l) \div (q \div kv)
  <2> DEFINE c == h \div rep
  <2>1. t[h * Dim + d] = org[c * Dim + d] /\ c * Dim + d \in Pad!Size(kv * Dim) /\ c \in 0..kv-1
    <3>1. h \in 0..kv*rep-1 /\ d \in 0..Dim-1 /\ kv \in Nat \ {0}
      BY <1>0, <1>5
    <3> HIDE DEF h, org
    <3>2. RepHeadsAt(org, kv, Dim, rep, h, d)
      BY <3>1, RepHeadsIs
    <3> QED BY <3>2 DEF RepHeadsAt
  <2> HIDE DEF c, h, t
  <2>2. org[c * Dim + d] = (c * Dim + d) \div Dim
    BY <2>1
  <2>3. (c * Dim + d) \div Dim = c
    <3> DEFINE a == c * Dim + d
    <3>1. a \in Int /\ c \in Int /\ d \in Int /\ 0 <= d /\ d < Dim
      BY <1>0, <2>1
    <3> QED BY <3>1, DivideMore
  <2> HIDE DEF org, q, perRank
  <2> QED BY <1>2, <1>5, <2>1, <2>2, <2>3 DEF c
<1>6. CASE n >= tp
  <2> DEFINE L == n \div tp
  <2>1. n % tp = 0 /\ local = L /\ h = rank * L + j
    BY <1>6 DEF Pad!SplitsHeads, Pad!KvPerRank, Pad!KvOfRank
  <2>2. L \in Nat /\ n = L * tp
    <3> HIDE DEF n
    <3> QED BY <1>0, <2>1, MultipleIs
  <2> HIDE DEF L, n
  <2>3. L > 0
    BY <1>0, <2>2
  <2>4. perRank = L * group
    <3> DEFINE x == L * group
    <3>1. q = x * tp /\ x \in Int
      BY <1>0, <1>1, <2>2
    <3> HIDE DEF x, q
    <3>2. q \div tp = x
      BY <3>1, DivideExact
    <3> QED BY <3>2 DEF x
  <2>5. perRank \div local = group
    <3> HIDE DEF perRank, local
    <3>1. (group * L) \div L = group /\ group * L = L * group
      BY <1>0, <2>2, <2>3, DivideExact
    <3> QED BY <2>1, <2>4, <3>1
  <2>6. /\ l \div group \in 0..L-1
        /\ (rank * (L * group) + l) \div group = rank * L + (l \div group)
    <3> HIDE DEF perRank
    <3> QED BY <1>0, <1>4, <2>2, <2>4, GroupOfShare
  <2>7. h = (rank * perRank + l) \div group /\ h = rank * L + (l \div group)
    BY <2>1, <2>4, <2>5, <2>6
  <2> HIDE DEF h, perRank
  <2>8. h \in 0..n-1
    <3> DEFINE x == l \div group
    <3>1. x \in 0..L-1 /\ h = rank * L + x
      BY <2>6, <2>7
    <3> HIDE DEF x
    <3>2. (rank + 1) * L <= tp * L /\ (rank + 1) * L = rank * L + L /\ tp * L = n /\ rank * L \in Nat
      BY <1>0, <2>2
    <3> QED BY <1>0, <2>2, <3>1, <3>2
  <2>9. h \div rep = (rank * perRank + l) \div (group * rep)
    <3> DEFINE a == rank * perRank + l
    <3>1. a \in Int
      BY <1>0, <1>3, <1>4
    <3> HIDE DEF a
    <3>2. (a \div group) \div rep = a \div (group * rep)
      BY <1>0, <3>1, DivideTwice
    <3> QED BY <2>7, <3>2 DEF a
  <2> QED BY <1>5, <2>8, <2>9 DEF h, perRank, n
<1>7. CASE ~(n >= tp)
  <2> DEFINE m == tp \div n
  <2>1. tp % n = 0 /\ local = 1 /\ h = rank \div m
    BY <1>7 DEF Pad!SplitsHeads, Pad!KvPerRank, Pad!KvOfRank
  <2>2. m \in Nat /\ tp = m * n
    <3> HIDE DEF n
    <3> QED BY <1>0, <2>1, MultipleIs
  <2> HIDE DEF m, n
  <2>3. m > 0 /\ m \in Nat \ {0}
    BY <1>0, <2>2
  <2>4. group = perRank * m
    <3>1. group * n = (perRank * m) * n
      <4> HIDE DEF perRank, q
      <4>1. (perRank * m) * n = perRank * (m * n) /\ group * n = n * group
        BY <1>0, <1>3, <2>2
      <4> QED BY <1>1, <1>3, <2>2, <4>1
    <3>2. perRank * m \in Nat
      BY <1>3, <2>2
    <3> HIDE DEF perRank
    <3> DEFINE x == perRank * m
    <3> HIDE DEF x
    <3>3. x \in Nat /\ group * n = x * n
      BY <3>1, <3>2 DEF x
    <3>4. group = x
      BY <1>0, <3>3
    <3> QED BY <3>4 DEF x
  <2> HIDE DEF perRank, h
  <2>5. h \in 0..n-1
    <3>1. h \in Nat /\ h * m <= rank
      BY <1>0, <2>1, <2>3, DivideNat, DivideBounds
    <3>2. h * m < n * m /\ n * m = tp
      BY <1>0, <2>2, <3>1
    <3>3. h < n
      BY <1>0, <2>3, <3>1, <3>2
    <3> QED BY <1>0, <3>1, <3>3
  <2>6. h \div rep = (rank * perRank + l) \div (group * rep)
    <3> DEFINE a == rank * perRank + l
    <3>1. a \in Int /\ a \div perRank = rank
      <4>1. a \in Int /\ rank \in Int /\ l \in Int /\ 0 <= l /\ perRank \in Nat \ {0}
        BY <1>0, <1>3, <1>4
      <4> QED BY <1>4, <4>1, DivideMore
    <3> HIDE DEF a
    <3>2. (a \div perRank) \div m = a \div (perRank * m)
      <4>1. perRank \in Nat \ {0}
        BY <1>3
      <4> QED BY <2>3, <3>1, <4>1, DivideTwice
    <3>3. (a \div group) \div rep = a \div (group * rep)
      BY <1>0, <3>1, DivideTwice
    <3> QED BY <2>1, <2>4, <3>1, <3>2, <3>3 DEF a
  <2> QED BY <1>5, <2>5, <2>6 DEF h, perRank, n
<1> QED BY <1>6, <1>7

(* What is as many times the ranks, every rank has its share of.           *)
LEMMA ShareDivides ==
  ASSUME NEW x \in Int, NEW tp \in Nat \ {0}, NEW y, y = x * tp PROVE y \div tp = x
BY DivideExact

LEMMA DeltaNetKeeps ==
  ASSUME Dim \in Nat \ {0}, MaxKvHeads \in Nat, NEW tp \in Nat \ {0}, NEW rep \in Nat \ {0},
         NEW size \in Nat \ {0}, NEW rank \in 0..tp-1
  PROVE  DeltaNetKeepsItsHeads(tp, rep, size, rank)
<1> SUFFICES ASSUME NEW heads \in 1..MaxKvHeads, (heads * rep) % tp = 0,
                    NEW l \in Pad!Size((heads * rep * size) \div tp), NEW d \in Pad!Size(Dim)
             PROVE  LET vHeads == heads * rep * size
                        kd  == heads * Dim
                        kd2 == kd * rep
                        t   == Pad!TransformQkv([i \in Pad!Size(2 * kd + vHeads * Dim) |-> i], heads, Dim, vHeads * Dim, rep)
                        keys   == Pad!ShardOf([i \in Pad!Size(kd2) |-> t[kd2 + i]], kd2, tp, rank)
                        values == Pad!ShardOf([i \in Pad!Size(vHeads * Dim) |-> t[2 * kd2 + i]], vHeads * Dim, tp, rank)
                        v == rank * (vHeads \div tp) + l
                    IN  /\ values[l * Dim + d] = 2 * kd + v * Dim + d
                        /\ keys[(l \div size) * Dim + d] = kd + (v \div (vHeads \div heads)) * Dim + d
  BY DEF DeltaNetKeepsItsHeads
<1> DEFINE n == heads * rep
           L == n \div tp
           vHeads == n * size
           kd  == heads * Dim
           kd2 == kd * rep
           vRows == vHeads * Dim
           org == [i \in Pad!Size(2 * kd + vRows) |-> i]
           t   == Pad!TransformQkv(org, heads, Dim, vRows, rep)
           keyPart == [i \in Pad!Size(kd2) |-> t[kd2 + i]]
           valPart == [i \in Pad!Size(vRows) |-> t[2 * kd2 + i]]
           keys   == Pad!ShardOf(keyPart, kd2, tp, rank)
           values == Pad!ShardOf(valPart, vRows, tp, rank)
           v == rank * (vHeads \div tp) + l
           j == l \div size
           keyRows == [i \in Pad!Size(kd) |-> org[kd + i]]
<1>0. heads \in Nat \ {0} /\ n \in Nat \ {0} /\ rank \in Nat /\ d \in 0..Dim-1 /\ n % tp = 0
  BY DEF Pad!Size
<1>1. L \in Nat /\ n = L * tp
  <2> HIDE DEF n
  <2> QED BY <1>0, MultipleIs
<1>2. vHeads \div tp = L * size /\ kd2 \div tp = L * Dim /\ vRows \div tp = (L * size) * Dim /\ vHeads \div heads = size * rep
  <2>1. vHeads = (L * size) * tp
    <3> HIDE DEF n, L
    <3> QED BY <1>0, <1>1
  <2>2. kd2 = (L * Dim) * tp
    <3>1. kd2 = n * Dim
      BY <1>0
    <3> HIDE DEF n, L, kd2
    <3> QED BY <1>0, <1>1, <3>1
  <2>3. vRows = ((L * size) * Dim) * tp
    <3> DEFINE y == L * size
    <3>1. y \in Int /\ vHeads = y * tp
      BY <1>1, <2>1
    <3> HIDE DEF y, vHeads
    <3>2. (y * tp) * Dim = (y * Dim) * tp
      BY <3>1
    <3> QED BY <3>1, <3>2 DEF y
  <2>4. vHeads = (size * rep) * heads
    BY <1>0
  <2>5. L * size \in Int /\ L * Dim \in Int /\ (L * size) * Dim \in Int /\ size * rep \in Int
    BY <1>1
  <2>6. (size * rep) \in Int /\ heads \in Nat \ {0}
    BY <1>0, <2>5
  <2> HIDE DEF vHeads, kd2, vRows, L
  <2>7. vHeads \div tp = L * size
    BY <2>1, <2>5, ShareDivides
  <2>8. kd2 \div tp = L * Dim
    BY <2>2, <2>5, ShareDivides
  <2>9. vRows \div tp = (L * size) * Dim
    BY <2>3, <2>5, ShareDivides
  <2>10. vHeads \div heads = size * rep
    BY <2>4, <2>6, ShareDivides
  <2> QED BY <2>7, <2>8, <2>9, <2>10
<1>3. l \in 0..L*size-1 /\ v = rank * (L * size) + l
  <2> HIDE DEF n, L
  <2> QED BY <1>2 DEF Pad!Size, n
<1>4. j \in 0..L-1 /\ v \div size = rank * L + j
  <2> HIDE DEF L, n
  <2>1. l \div size \in 0..L-1 /\ (rank * (L * size) + l) \div size = rank * L + (l \div size)
    BY <1>0, <1>1, <1>3, GroupOfShare
  <2> HIDE DEF v
  <2> QED BY <1>3, <2>1
<1>5. v \div (vHeads \div heads) = (rank * L + j) \div rep
  <2>1. v \in Int
    BY <1>0, <1>1, <1>3
  <2> HIDE DEF v, L, n, vHeads
  <2>2. (v \div size) \div rep = v \div (size * rep)
    BY <2>1, DivideTwice
  <2> QED BY <1>2, <1>4, <2>2
(* The head of the rank, and the rows of it                                *)
<1>6. rank * L + j \in 0..n-1
  <2> HIDE DEF L, j, n
  <2>1. (rank + 1) * L <= tp * L /\ (rank + 1) * L = rank * L + L /\ tp * L = n /\ rank * L \in Nat
    BY <1>0, <1>1
  <2> QED BY <1>0, <1>1, <1>4, <2>1
<1>7. keys[j * Dim + d] = kd + (((rank * L + j) \div rep) * Dim + d)
  <2> DEFINE h == rank * L + j
             e == h * Dim + d
             c == h \div rep
             f == c * Dim + d
  <2>1. RepHeadsAt(keyRows, heads, Dim, rep, h, d)
    <3> HIDE DEF h, keyRows
    <3>1. h \in 0..heads*rep-1
      BY <1>6 DEF h
    <3> QED BY <1>0, <3>1, RepHeadsIs
  <2>2. e \in Pad!Size(heads * Dim * rep) /\ Pad!RepHeads(keyRows, heads, Dim, rep)[e] = keyRows[f] /\ f \in Pad!Size(kd)
    BY <2>1 DEF RepHeadsAt
  <2>3. keys[j * Dim + d] = keyPart[rank * (L * Dim) + (j * Dim + d)]
    <3>1. j * Dim + d \in Pad!Size(L * Dim)
      <4> HIDE DEF j, L
      <4>1. (j + 1) * Dim <= L * Dim /\ (j + 1) * Dim = j * Dim + Dim /\ j * Dim \in Nat /\ L * Dim \in Nat
        BY <1>1, <1>4
      <4> QED BY <1>0, <4>1 DEF Pad!Size
    <3> HIDE DEF keyPart, j, L, kd2, n
    <3> QED BY <1>2, <3>1 DEF Pad!ShardOf
  <2>4. rank * (L * Dim) + (j * Dim + d) = e
    <3> HIDE DEF L, j
    <3> QED BY <1>0, <1>1, <1>4
  <2>5. kd2 = heads * Dim * rep /\ kd \in Nat /\ kd2 \in Nat /\ vRows \in Nat
    BY <1>0
  <2>6. e \in Nat /\ e < kd2
    BY <2>2, <2>5 DEF Pad!Size
  <2>7. keyPart[e] = t[kd2 + e]
    <3> HIDE DEF e, kd2, t
    <3> QED BY <2>5, <2>6 DEF Pad!Size
  <2>8. t[kd2 + e] = Pad!RepHeads(keyRows, heads, Dim, rep)[e]
    <3> DEFINE x == kd2 + e
               q == Pad!RepHeads([i \in Pad!Size(kd) |-> org[i]], heads, Dim, rep)
               kk == Pad!RepHeads(keyRows, heads, Dim, rep)
    <3>1. t = [i \in Pad!Size(2 * kd * rep + vRows) |->
                 IF i < kd * rep THEN q[i]
                 ELSE IF i < 2 * kd * rep THEN kk[i - kd * rep]
                 ELSE org[i - 2 * kd * rep + 2 * kd]]
      BY DEF Pad!TransformQkv
    <3>2. 2 * kd * rep = kd2 + kd2
      BY <2>5
    <3>3. x \in Pad!Size(2 * kd * rep + vRows) /\ ~(x < kd * rep) /\ x < 2 * kd * rep /\ x - kd * rep = e
      <4> HIDE DEF e, vRows, kd
      <4>1. kd * rep = kd2
        OBVIOUS
      <4> DEFINE kr == 2 * kd * rep
      <4> HIDE DEF kr, kd2
      <4> QED BY <2>5, <2>6, <3>2, <4>1 DEF Pad!Size, kr
    <3> HIDE DEF q, kk, x, org, kd, kd2, vRows, e, t
    <3>4. t[x] = kk[x - kd * rep]
      BY <3>1, <3>3
    <3> QED BY <3>3, <3>4 DEF x, kk
  <2>9. keyRows[f] = kd + f
    <3> HIDE DEF f
    <3>1. f \in Nat /\ f < kd
      BY <2>2, <2>5 DEF Pad!Size
    <3>2. kd + f \in Pad!Size(2 * kd + vRows)
      <4> HIDE DEF kd, vRows
      <4> QED BY <2>5, <3>1 DEF Pad!Size
    <3>3. keyRows[f] = org[kd + f]
      <4> HIDE DEF org
      <4> QED BY <2>2
    <3> HIDE DEF keyRows
    <3> QED BY <3>2, <3>3
  <2>10. keys[j * Dim + d] = keyRows[f]
    <3> HIDE DEF keys, keyPart, e, f, keyRows, t
    <3> QED BY <2>2, <2>3, <2>4, <2>7, <2>8
  <2>11. f = ((rank * L + j) \div rep) * Dim + d
    OBVIOUS
  <2> HIDE DEF keys, keyRows, f, kd
  <2> QED BY <2>9, <2>10, <2>11
<1>8. values[l * Dim + d] = 2 * kd + (v * Dim + d)
  <2> DEFINE e == rank * ((L * size) * Dim) + (l * Dim + d)
             p == L * size
  <2>1. p \in Nat /\ l \in 0..p-1 /\ v = rank * p + l /\ n \in Nat /\ vHeads = p * tp
    <3>1. vHeads = (L * size) * tp
      <4> HIDE DEF n, L
      <4> QED BY <1>0, <1>1
    <3> HIDE DEF n, L, v, vHeads
    <3> QED BY <1>0, <1>1, <1>3, <3>1
  <2>2. l * Dim + d \in Pad!Size(p * Dim)
    <3> HIDE DEF p
    <3>1. (l + 1) * Dim <= p * Dim /\ (l + 1) * Dim = l * Dim + Dim /\ l * Dim \in Nat /\ p * Dim \in Nat
      BY <2>1
    <3> QED BY <1>0, <3>1 DEF Pad!Size
  <2>3. values[l * Dim + d] = valPart[e]
    <3> HIDE DEF valPart, L, vRows, n
    <3> QED BY <1>2, <2>2 DEF Pad!ShardOf
  <2>4. e = v * Dim + d
    <3> HIDE DEF p, v
    <3>1. rank * (p * Dim) + (l * Dim + d) = (rank * p + l) * Dim + d
      BY <1>0, <2>1
    <3> QED BY <2>1, <3>1 DEF p
  <2>5. kd \in Nat /\ kd2 \in Nat /\ vRows \in Nat /\ vRows = (p * tp) * Dim
    <3> HIDE DEF vHeads, p, n, L
    <3> QED BY <1>0, <2>1
  <2>6. e \in Nat /\ e < vRows
    <3> HIDE DEF p, v, vRows, e
    <3>1. v \in Nat /\ v + 1 <= p * tp
      <4>1. (rank + 1) * p <= tp * p /\ (rank + 1) * p = rank * p + p /\ tp * p = p * tp /\ rank * p \in Nat
        BY <1>0, <2>1
      <4> QED BY <2>1, <4>1
    <3>2. (v + 1) * Dim <= (p * tp) * Dim /\ (v + 1) * Dim = v * Dim + Dim /\ v * Dim \in Nat
      BY <2>1, <3>1
    <3> QED BY <1>0, <2>4, <2>5, <3>2
  <2>7. valPart[e] = t[2 * kd2 + e]
    <3> HIDE DEF e, kd2, t, vRows
    <3> QED BY <2>5, <2>6 DEF Pad!Size
  <2>8. t[2 * kd2 + e] = 2 * kd + e
    <3> DEFINE x == 2 * kd2 + e
               q == Pad!RepHeads([i \in Pad!Size(kd) |-> org[i]], heads, Dim, rep)
               kk == Pad!RepHeads(keyRows, heads, Dim, rep)
               kr == 2 * kd * rep
    <3>1. t = [i \in Pad!Size(2 * kd * rep + vRows) |->
                 IF i < kd * rep THEN q[i]
                 ELSE IF i < 2 * kd * rep THEN kk[i - kd * rep]
                 ELSE org[i - 2 * kd * rep + 2 * kd]]
      BY DEF Pad!TransformQkv
    <3>2. kr = 2 * kd2 /\ kd * rep = kd2
      BY <2>5
    <3>3. x \in Pad!Size(kr + vRows) /\ ~(x < kd * rep) /\ ~(x < kr) /\ x - kr + 2 * kd = 2 * kd + e
      <4> HIDE DEF e, vRows, kd, kd2, kr
      <4> QED BY <2>5, <2>6, <3>2 DEF Pad!Size
    <3> HIDE DEF q, kk, x, org, kd, kd2, vRows, e, t
    <3>4. t[x] = org[x - 2 * kd * rep + 2 * kd]
      BY <3>1, <3>3
    <3>5. x - 2 * kd * rep + 2 * kd = 2 * kd + e
      BY <3>3
    <3>6. 2 * kd + e \in Pad!Size(2 * kd + vRows)
      BY <2>5, <2>6 DEF Pad!Size
    <3>7. org[2 * kd + e] = 2 * kd + e
      BY <3>6 DEF org
    <3> QED BY <3>4, <3>5, <3>7 DEF x
  <2> HIDE DEF values, valPart, e, t, v
  <2> QED BY <2>3, <2>4, <2>7, <2>8
<1>9. kd \in Int /\ v * Dim \in Int /\ ((rank * L + j) \div rep) * Dim \in Int
  <2> DEFINE h == rank * L + j
  <2>1. h \in Int
    BY <1>6
  <2>2. h \div rep \in Int
    <3> HIDE DEF h
    <3> QED BY <2>1, DivideBounds
  <2>3. v \in Int
    BY <1>0, <1>1, <1>3
  <2> HIDE DEF h, v
  <2> QED BY <1>0, <2>2, <2>3 DEF h
<1> HIDE DEF keys, values, v, kd, L, j
<1>10. values[l * Dim + d] = 2 * kd + v * Dim + d
  BY <1>0, <1>8, <1>9
<1>11. keys[j * Dim + d] = kd + (v \div (vHeads \div heads)) * Dim + d
  <2> DEFINE c == (rank * L + j) \div rep
             y == c * Dim
  <2>1. kd \in Int /\ y \in Int /\ d \in Int /\ keys[j * Dim + d] = kd + (y + d)
    BY <1>0, <1>7, <1>9
  <2>2. v \div (vHeads \div heads) = c
    BY <1>5
  <2> HIDE DEF y, c, vHeads
  <2>3. keys[j * Dim + d] = kd + y + d
    BY <2>1
  <2> QED BY <2>2, <2>3 DEF y
<1> QED BY <1>10, <1>11 DEF keys, values, v, kd, j

-----------------------------------------------------------------------------
(* TpPad: padding                                                          *)

(* A product is a multiple of its factors.                                 *)
LEMMA ProductDivides ==
  ASSUME NEW x \in Int, NEW b \in Nat \ {0}, NEW y, y = x * b PROVE y % b = 0
<1>1. y \in Int /\ y = x * b + 0
  OBVIOUS
<1> QED BY <1>1, DivideMore

LEMMA PaddingKeeps ==
  ASSUME NEW tp \in Nat \ {0}, NEW rep \in Nat \ {0}, NEW size \in Nat \ {0}, NEW rank \in 0..tp-1
  PROVE  PaddingKeepsBlocks(tp, rep, size, rank)
<1> DEFINE new == size + rep
           perRank == new \div tp
           weights == Pad!PadDim([i \in Pad!Size(size) |-> i], size, size, new, -1)
<1> SUFFICES ASSUME NEW block \in 1..size,
                    size % block = 0, Pad!Scales(size \div block, size, new),
                    new % tp = 0, (((size \div block) * new) \div size) % tp = 0
             PROVE  LET blocks  == size \div block
                        nBlocks == (blocks * new) \div size
                        scales  == Pad!PadDim([i \in Pad!Size(blocks) |-> i], blocks, size, new, -1)
                    IN  /\ nBlocks * block = new
                        /\ \A l \in Pad!Size(perRank) :
                             LET unit  == Pad!ShardOf(weights, new, tp, rank)[l]
                                 scale == Pad!ShardOf(scales, nBlocks, tp, rank)[l \div block]
                             IN  /\ unit = (IF rank * perRank + l < size THEN rank * perRank + l ELSE -1)
                                 /\ scale = (IF unit = -1 THEN -1 ELSE unit \div block)
  BY DEF PaddingKeepsBlocks
<1> DEFINE blocks  == size \div block
           nBlocks == (blocks * new) \div size
           scales  == Pad!PadDim([i \in Pad!Size(blocks) |-> i], blocks, size, new, -1)
           N == nBlocks \div tp
<1>0. block \in Nat \ {0} /\ new \in Nat \ {0} /\ new > size
  OBVIOUS
<1>1. blocks \in Nat \ {0} /\ size = blocks * block
  <2>1. blocks \in Nat /\ size = blocks * block
    BY <1>0, MultipleIs
  <2> HIDE DEF blocks
  <2> QED BY <1>0, <2>1
<1>2. nBlocks \in Nat /\ blocks * new = nBlocks * size
  <2> DEFINE b == blocks * new
  <2>1. b \in Nat /\ b % size = 0
    BY <1>0, <1>1 DEF Pad!Scales
  <2> HIDE DEF b
  <2>2. b \div size \in Nat /\ b = (b \div size) * size
    BY <2>1, MultipleIs
  <2> QED BY <2>2 DEF b
<1> HIDE DEF blocks, nBlocks, new
<1>3. nBlocks * block = new
  <2>1. blocks * new = blocks * (nBlocks * block)
    BY <1>0, <1>1, <1>2
  <2> DEFINE z == nBlocks * block
  <2>2. z \in Nat
    BY <1>0, <1>2
  <2> HIDE DEF z
  <2>3. blocks * new = blocks * z
    BY <2>1 DEF z
  <2>4. new = z
    BY <1>0, <1>1, <2>2, <2>3
  <2> QED BY <2>4 DEF z
<1>4. N \in Nat /\ nBlocks = N * tp
  <2>1. nBlocks % tp = 0
    BY DEF nBlocks, blocks, new
  <2> QED BY <1>2, <2>1, MultipleIs
<1> HIDE DEF N
<1>5. perRank = N * block
  <2>1. new = (N * block) * tp /\ N * block \in Int
    BY <1>0, <1>3, <1>4
  <2> QED BY <2>1, ShareDivides
<1> HIDE DEF perRank
<1>6. weights = [i \in Pad!Size(new) |-> IF i < size THEN i ELSE -1]
  <2>1. (size * new) \div size = new
    <3>1. size * new = new * size
      BY <1>0
    <3> QED BY <1>0, <3>1, DivideExact
  <2>2. weights = [i \in Pad!Size(new) |-> IF i < size THEN [u \in Pad!Size(size) |-> u][i] ELSE -1]
    BY <2>1 DEF Pad!PadDim
  <2>3. \A i \in Pad!Size(new) : i < size => i \in Pad!Size(size)
    BY DEF Pad!Size
  <2> QED BY <2>2, <2>3
<1>7. scales = [i \in Pad!Size(nBlocks) |-> IF i < blocks THEN i ELSE -1]
  <2>1. scales = [i \in Pad!Size(nBlocks) |-> IF i < blocks THEN [u \in Pad!Size(blocks) |-> u][i] ELSE -1]
    BY DEF Pad!PadDim, nBlocks
  <2>2. \A i \in Pad!Size(nBlocks) : i < blocks => i \in Pad!Size(blocks)
    BY <1>1, <1>2 DEF Pad!Size
  <2> QED BY <2>1, <2>2
<1> HIDE DEF weights, scales
<1>8. ASSUME NEW l \in Pad!Size(perRank)
      PROVE  /\ Pad!ShardOf(weights, new, tp, rank)[l]
                  = (IF rank * perRank + l < size THEN rank * perRank + l ELSE -1)
             /\ Pad!ShardOf(scales, nBlocks, tp, rank)[l \div block]
                  = (IF Pad!ShardOf(weights, new, tp, rank)[l] = -1 THEN -1
                     ELSE Pad!ShardOf(weights, new, tp, rank)[l] \div block)
  <2> DEFINE a == rank * perRank + l
             c == rank * N + (l \div block)
  <2>1. l \in 0..N*block-1
    BY <1>5, <1>8 DEF Pad!Size
  <2>2. l \div block \in 0..N-1 /\ a \div block = c
    <3>1. rank \in Nat /\ N \in Nat /\ block \in Nat \ {0} /\ l \in 0..N*block-1
      BY <1>0, <1>4, <2>1
    <3>2. l \div block \in 0..N-1 /\ (rank * (N * block) + l) \div block = rank * N + (l \div block)
      BY <3>1, GroupOfShare
    <3> QED BY <1>5, <3>2
  <2>3. N * block \in Nat /\ l \in Nat /\ l < perRank /\ perRank \in Nat /\ rank \in Nat /\ rank + 1 <= tp
    BY <1>0, <1>4, <1>5, <2>1
  <2>4. a \in 0..new-1
    <3>1. (rank + 1) * perRank <= tp * perRank /\ (rank + 1) * perRank = rank * perRank + perRank
      BY <2>3
    <3>2. tp * perRank = new
      BY <1>0, <1>3, <1>4, <1>5
    <3> DEFINE x == rank * perRank
    <3>3. x \in Nat /\ x + perRank <= new
      BY <2>3, <3>1, <3>2
    <3> HIDE DEF x
    <3>4. x + l \in 0..new-1
      BY <1>0, <2>3, <3>3
    <3> QED BY <3>4 DEF x
  <2>5. c \in 0..nBlocks-1
    <3> DEFINE x == l \div block
    <3>1. x \in 0..N-1
      BY <2>2
    <3> HIDE DEF x
    <3>2. (rank + 1) * N <= tp * N /\ (rank + 1) * N = rank * N + N /\ tp * N = nBlocks /\ rank * N \in Nat
      BY <1>4, <2>3
    <3> QED BY <1>2, <1>4, <3>1, <3>2 DEF x
  <2>6. a < size <=> c < blocks
    <3> HIDE DEF a, c
    <3>1. a \in Int /\ a \div block = c
      BY <2>2, <2>4 DEF a, c
    <3>2. a \div block \in Int /\ (a \div block) * block <= a /\ a < (a \div block) * block + block
      BY <1>0, <3>1, DivideBounds
    <3>3. c * block <= a /\ a < c * block + block /\ c \in Int
      BY <3>1, <3>2
    <3>4. ASSUME a < size PROVE c < blocks
      <4>1. c * block < blocks * block
        BY <1>0, <1>1, <3>1, <3>3, <3>4
      <4> QED BY <1>0, <1>1, <3>1, <3>3, <4>1
    <3>5. ASSUME ~(a < size) PROVE ~(c < blocks)
      <4>1. blocks * block < (c + 1) * block
        BY <1>0, <1>1, <3>1, <3>3, <3>5
      <4> QED BY <1>0, <1>1, <3>1, <3>3, <4>1
    <3> QED BY <3>4, <3>5
  <2>7. Pad!ShardOf(weights, new, tp, rank)[l] = weights[a]
    BY <1>8 DEF Pad!ShardOf, perRank
  <2>8. Pad!ShardOf(scales, nBlocks, tp, rank)[l \div block] = scales[c]
    BY <2>2 DEF Pad!ShardOf, Pad!Size, N
  <2>9. weights[a] = (IF a < size THEN a ELSE -1) /\ scales[c] = (IF c < blocks THEN c ELSE -1)
    BY <1>6, <1>7, <2>4, <2>5 DEF Pad!Size
  <2>10. a # -1
    BY <2>4
  <2> HIDE DEF a, c
  <2>11. Pad!ShardOf(weights, new, tp, rank)[l] = (IF a < size THEN a ELSE -1)
    BY <2>7, <2>9
  <2>12. Pad!ShardOf(scales, nBlocks, tp, rank)[l \div block]
           = (IF Pad!ShardOf(weights, new, tp, rank)[l] = -1 THEN -1
              ELSE Pad!ShardOf(weights, new, tp, rank)[l] \div block)
    BY <2>2, <2>6, <2>8, <2>9, <2>10, <2>11
  <2> QED BY <2>11, <2>12 DEF a
<1> QED BY <1>3, <1>8 DEF nBlocks, blocks, scales

LEMMA VocabSplitsAlways ==
  ASSUME NEW tp \in Nat \ {0}, NEW ps \in Nat \ {0}, MaxSize \in Nat, MaxTP \in Nat
  PROVE  VocabSplits(tp, ps)
<1> DEFINE p == Pad!PaddingSize(ps, tp)
<1>1. p \in Nat \ {0} /\ p % tp = 0 /\ \E m \in Nat : p = m * ps
  <2>1. CASE tp > 1 /\ ps % tp # 0
    <3>1. p = ps * tp /\ p = tp * ps /\ p \in Nat \ {0}
      BY <2>1 DEF Pad!PaddingSize
    <3> HIDE DEF p
    <3>2. p % tp = 0
      BY <3>1, ProductDivides
    <3> QED BY <3>1, <3>2
  <2>2. CASE ~(tp > 1 /\ ps % tp # 0)
    <3>1. p = ps /\ ps = 1 * ps
      BY <2>2 DEF Pad!PaddingSize
    <3>2. ps % tp = 0
      <4>1. tp = 1 => ps % 1 = 0
        OBVIOUS
      <4> QED BY <2>2, <4>1
    <3> QED BY <3>1, <3>2
  <2> QED BY <2>1, <2>2
<1>2. Pad!PaddingSize(p, tp) = p
  BY <1>1 DEF Pad!PaddingSize
<1> HIDE DEF p
<1>3. ASSUME NEW org \in 1..MaxSize * MaxTP
      PROVE  /\ Pad!PaddedVocab(org, p) % tp = 0
             /\ Pad!PaddedVocab(org, p) % ps = 0
             /\ Pad!PaddedVocab(org, p) >= org
  <2> DEFINE a == org + p - 1
             q == a \div p
             once == Pad!PaddedVocab(org, p)
  <2>1. org \in Nat /\ a \in Nat
    <3>1. MaxSize * MaxTP \in Nat
      OBVIOUS
    <3> QED BY <1>1, <3>1
  <2>2. q \in Int /\ a < q * p + p
    <3> HIDE DEF a
    <3>1. a \in Int /\ p \in Nat \ {0}
      BY <1>1, <2>1
    <3>2. a \div p \in Int /\ a < (a \div p) * p + p
      BY <3>1, DivideBounds
    <3> QED BY <3>2
  <2>3. once = q * p
    BY DEF Pad!PaddedVocab
  <2> HIDE DEF q
  <2>4. once >= org
    <3>1. q * p \in Int
      BY <1>1, <2>2
    <3> QED BY <1>1, <2>1, <2>2, <2>3, <3>1
  <2> HIDE DEF once, a
  <2>5. once % tp = 0
    <3>1. p \div tp \in Nat /\ p = (p \div tp) * tp
      BY <1>1, MultipleIs
    <3> DEFINE x == p \div tp
    <3> HIDE DEF x
    <3>2. x \in Nat /\ p = x * tp
      BY <3>1 DEF x
    <3>3. once = (q * x) * tp /\ q * x \in Int
      BY <2>2, <2>3, <3>2
    <3> QED BY <3>3, ProductDivides
  <2>6. once % ps = 0
    <3>1. PICK m \in Nat : p = m * ps
      BY <1>1
    <3>2. once = (q * m) * ps /\ q * m \in Int
      BY <2>2, <2>3, <3>1
    <3> QED BY <3>2, ProductDivides
  <2> QED BY <2>4, <2>5, <2>6 DEF once
<1> QED BY <1>2, <1>3 DEF VocabSplits, p

-----------------------------------------------------------------------------
(* Nvfp4                                                                   *)

(* The fraction of a float has 23 bits, of which the upper eight matter.   *)
Fractions == 2^23
Lower     == 2^15

LEMMA FractionsAre ==
  /\ Fractions \in Nat \ {0} /\ Lower \in Nat \ {0} /\ Fractions = Lower * 256
  /\ 2^22 = Lower * 128 /\ 2^20 = Lower * 32 /\ 2^23 = Lower * 256
<1>1. \A m, n \in Nat : 2^(m+n) = 2^m * 2^n
  BY TwoSum
<1>2. 15 \in Nat /\ 8 \in Nat /\ 7 \in Nat /\ 5 \in Nat /\ 15 + 8 = 23 /\ 15 + 7 = 22 /\ 15 + 5 = 20
  OBVIOUS
<1>3. 2^23 = 2^15 * 2^8 /\ 2^22 = 2^15 * 2^7 /\ 2^20 = 2^15 * 2^5
  BY <1>1, <1>2, Zenon
<1>4. 2^8 = 256 /\ 2^7 = 128 /\ 2^5 = 32
  OBVIOUS
<1>5. 2^15 \in Nat /\ 2^15 > 0
  BY <1>2, TwoType, Zenon
<1>6. Lower \in Nat \ {0}
  <2>1. Lower \in Nat /\ Lower > 0
    BY <1>5, Zenon DEF Lower
  <2> QED BY <2>1
<1>7. Fractions = Lower * 256 /\ 2^22 = Lower * 128 /\ 2^20 = Lower * 32 /\ 2^23 = Lower * 256
  BY <1>3, <1>4, Zenon DEF Fractions, Lower
<1> QED BY <1>6, <1>7

(* A float by its exponent and its fraction                                *)
Float(e, f) == e * Fractions + f
Value(power, f) == power + (((f \div Lower) * power) \div 256)

LEMMA FloatIs ==
  ASSUME NEW e \in 1..255, NEW f \in 0..Fractions-1, NEW unit \in Int, NEW up \in Int, up = e - 127 + unit
  PROVE  Cache!FloatIn(Float(e, f), unit) = Value(2^up, f)
<1> DEFINE bits == Float(e, f)
<1>0. bits = e * Fractions + f
  BY DEF Float
<1> HIDE DEF bits
<1>1. 2^8 = 256 /\ 2^23 = Fractions /\ 2^15 = Lower
  BY DEF Fractions, Lower
<1>2. bits \in Int /\ e * Fractions > 0 /\ e * Fractions \in Int /\ f \in Int /\ 0 <= f /\ f < Fractions
  BY <1>0, FractionsAre
<1>3. bits # 0
  BY <1>0, <1>2
<1>4. bits \div Fractions = e /\ bits % Fractions = f
  BY <1>0, <1>2, FractionsAre, DivideMore
<1>5. Cache!FloatIn(bits, unit)
        = LET exponent == bits \div Fractions
              fraction == bits % Fractions
              shift    == exponent - 127 + unit
          IN  (2^shift) + (((fraction \div Lower) * 2^shift) \div 256)
  BY <1>1, <1>3, Zenon DEF Cache!FloatIn
<1>6. Cache!FloatIn(bits, unit) = 2^up + (((f \div Lower) * 2^up) \div 256)
  BY <1>4, <1>5, Zenon
<1> QED BY <1>6 DEF bits, Value

(* A magnitude with an exponent                                            *)
LEMMA NormalIs ==
  ASSUME NEW e \in 1..3, NEW f \in 0..1
  PROVE  Cache!FloatIn((126 + e) * Fractions + f * (Lower * 128), 1) = 2^(e - 1) * (2 + f)
<1> DEFINE P == 2^(e - 1)
           g == f * (Lower * 128)
           x == 126 + e
           bits == Float(x, g)
<1>1. P \in Nat
  <2>1. e - 1 \in Nat
    OBVIOUS
  <2> QED BY <2>1, TwoType
<1>2. 2^e = P + P
  <2>1. e - 1 \in Nat /\ (e - 1) + 1 = e
    OBVIOUS
  <2> QED BY <2>1, TwoNext
<1>3. x \in 1..255 /\ x - 127 + 1 = e
  OBVIOUS
<1>4. P + P = 2^(x - 127 + 1)
  BY <1>2, <1>3
<1>5. g \in 0..Fractions-1 /\ g \div Lower = f * 128
  <2>1. g = (f * 128) * Lower /\ f * 128 \in Int
    BY FractionsAre
  <2>2. g \in 0..Fractions-1
    BY FractionsAre
  <2> QED BY <2>1, <2>2, FractionsAre, ShareDivides
<1> HIDE DEF P, g, x
<1>6. Cache!FloatIn(bits, 1) = (P + P) + (((g \div Lower) * (P + P)) \div 256)
  <2>1. Cache!FloatIn(bits, 1) = Value(P + P, g)
    <3>1. Cache!FloatIn(Float(x, g), 1) = Value(2^e, g)
      <4>1. 1 \in Int /\ e \in Int
        OBVIOUS
      <4> QED BY <1>3, <1>5, <4>1, FloatIs, ZenonT(60)
    <3> QED BY <1>2, <3>1
  <2> QED BY <2>1 DEF Value
<1>7. ((g \div Lower) * (P + P)) \div 256 = f * P
  <2> DEFINE y == f * P
  <2>1. y \in Int /\ (f * 128) * (P + P) = y * 256
    BY <1>1
  <2> HIDE DEF y
  <2>2. (y * 256) \div 256 = y
    BY <2>1
  <2> QED BY <1>5, <2>1, <2>2 DEF y
<1>8. (P + P) + f * P = P * (2 + f)
  BY <1>1
<1> QED BY <1>6, <1>7, <1>8 DEF P, g, x, Float

LEMMA MagnitudeIs ==
  ASSUME NEW m \in 0..7
  PROVE  Cache!FloatIn(Cache!NibbleBits(m), 1)
           = IF m \div 2 = 0 THEN m % 2 ELSE 2^(m \div 2 - 1) * (2 + (m % 2))
<1> DEFINE e == m \div 2
           f == m % 2
<1>1. e \in 0..3 /\ f \in 0..1 /\ m = 2 * e + f
  OBVIOUS
<1>2. 2^22 = Lower * 128 /\ 2^23 = Fractions
  BY FractionsAre, Zenon DEF Fractions
<1>3. Cache!NibbleBits(m) = IF m < 2 THEN m * (126 * Fractions) ELSE 126 * Fractions + m * (Lower * 128)
  BY <1>2, Zenon DEF Cache!NibbleBits
<1>4. Fractions \in Int /\ Lower \in Int /\ Fractions = Lower * 256
  BY FractionsAre
<1> HIDE DEF e, f
<1>5. CASE m = 0
  <2>1. Cache!NibbleBits(m) = 0 /\ e = 0 /\ f = 0
    BY <1>1, <1>3, <1>4, <1>5
  <2> QED BY <2>1 DEF Cache!FloatIn, e, f
<1>6. CASE m = 1
  <2>1. Cache!NibbleBits(m) = 126 * Fractions + 0 /\ e = 0 /\ f = 1
    BY <1>1, <1>3, <1>4, <1>6
  <2>2. 0 = 126 - 127 + 1 /\ 126 \in 1..255 /\ 1 \in Int /\ 0 \in Int /\ 2^0 = 1
    OBVIOUS
  <2>3. 0 \in 0..Fractions-1 /\ 0 \div Lower = 0
    BY FractionsAre
  <2>4. Cache!FloatIn(Float(126, 0), 1) = Value(1, 0)
    <3> DEFINE x == 126
               up == 0
               g == 0
               u == 1
    <3>1. x \in 1..255 /\ up = x - 127 + u /\ up \in Int /\ u \in Int /\ g \in 0..Fractions-1
      BY <2>3
    <3> HIDE DEF x, up, g, u
    <3>2. Cache!FloatIn(Float(x, g), u) = Value(2^up, g)
      BY <3>1, FloatIs, ZenonT(60)
    <3> QED BY <2>2, <3>2, Zenon DEF x, up, g, u
  <2>5. Cache!FloatIn(Cache!NibbleBits(m), 1) = 1
    BY <2>1, <2>3, <2>4 DEF Float, Value
  <2> QED BY <2>1, <2>5 DEF e, f
<1>7. CASE m >= 2
  <2>1. e \in 1..3
    BY <1>1, <1>7
  <2>2. Cache!NibbleBits(m) = (126 + e) * Fractions + f * (Lower * 128)
    <3>1. m * (Lower * 128) = e * Fractions + f * (Lower * 128)
      BY <1>1, <1>4
    <3>2. (126 + e) * Fractions = 126 * Fractions + e * Fractions
      BY <1>1, <1>4
    <3>3. f * (Lower * 128) \in Int /\ e * Fractions \in Int
      BY <1>1, <1>4
    <3> QED BY <1>3, <1>4, <1>7, <3>1, <3>2, <3>3
  <2>3. Cache!FloatIn((126 + e) * Fractions + f * (Lower * 128), 1) = 2^(e - 1) * (2 + f)
    BY <1>1, <2>1, NormalIs
  <2> QED BY <2>1, <2>2, <2>3 DEF e, f
<1> QED BY <1>5, <1>6, <1>7

LEMMA NibbleIs == ASSUME NEW nibble \in 0..15 PROVE NibbleIsE2M1(nibble)
<1> DEFINE m == nibble % 8
<1>1. m \in 0..7 /\ m % 2 = nibble % 2 /\ (nibble \div 8 = 1 <=> nibble >= 8)
  OBVIOUS
<1> HIDE DEF m
<1>2. Cache!FloatIn(Cache!NibbleBits(m), 1) = IF m \div 2 = 0 THEN m % 2 ELSE 2^(m \div 2 - 1) * (2 + (m % 2))
  BY <1>1, MagnitudeIs
<1> QED BY <1>1, <1>2 DEF NibbleIsE2M1, Cache!NibbleValue, m

LEMMA ScaleIs == ASSUME NEW byte \in 0..255 PROVE ScaleIsE4M3(byte)
<1> DEFINE p == byte % 128
           e == p \div 8
           f == p % 8
           Q == 2^(e - 1)
<1>1. /\ p \in 0..127 /\ e \in 0..15 /\ f \in 0..7 /\ p = e * 8 + f
      /\ e = (byte \div 8) % 16 /\ f = byte % 8
  OBVIOUS
<1> HIDE DEF p, e, f
<1>2. CASE e = 0
  <2>1. p = 0 => f = 0
    BY <1>1, <1>2
  <2> QED BY <1>1, <1>2, <2>1 DEF ScaleIsE4M3, Cache!ScaleValue, p, e, f
<1>3. CASE e # 0
  <2>1. e - 1 \in Nat /\ p # 0 /\ e + 120 \in 1..255
    BY <1>1, <1>3
  <2>2. Q \in Nat
    BY <2>1, TwoType
  <2>3. 2^(3 + (e - 1)) = 8 * Q
    <3>1. \A up \in Nat : 2^(3+up) = 2^3 * 2^up
      BY TwoSum
    <3> DEFINE up == e - 1
    <3> HIDE DEF up
    <3>2. up \in Nat
      BY <2>1 DEF up
    <3>3. 2^(3 + up) = 2^3 * 2^up
      BY <3>1, <3>2
    <3>4. 2^3 = 8
      OBVIOUS
    <3>5. 2^(3 + up) = 8 * 2^up
      BY <3>3, <3>4, Zenon
    <3> QED BY <3>5, Zenon DEF up
  <2> DEFINE g == f * (Lower * 32)
             bits == Float(e + 120, g)
             P == 8 * Q
             up == 3 + (e - 1)
  <2>4. P = 2^up /\ up = (e + 120) - 127 + 9 /\ up \in Int
    BY <1>1, <2>3
  <2> HIDE DEF P, Q, up
  <2>5. g \in 0..Fractions-1 /\ g \div Lower = f * 32
    <3>1. g = (f * 32) * Lower /\ f * 32 \in Int
      BY <1>1, FractionsAre
    <3>2. g \in 0..Fractions-1
      BY <1>1, FractionsAre
    <3> QED BY <3>1, <3>2, FractionsAre, ShareDivides
  <2> HIDE DEF g
  <2>6. Cache!FloatIn(bits, 9) = P + (((g \div Lower) * P) \div 256)
    <3> DEFINE x == e + 120
    <3>1. x \in 1..255 /\ bits = Float(x, g) /\ up = x - 127 + 9 /\ up \in Int /\ 9 \in Int
      BY <2>1, <2>4
    <3> HIDE DEF x, bits, up
    <3>2. Cache!FloatIn(Float(x, g), 9) = Value(2^up, g)
      BY <2>5, <3>1, FloatIs, ZenonT(60)
    <3> QED BY <2>4, <3>1, <3>2 DEF Value
  <2>7. ((g \div Lower) * P) \div 256 = f * Q
    <3>1. f * Q \in Int
      BY <1>1, <2>2
    <3>2. (f * 32) * (8 * Q) = (f * Q) * 256
      BY <1>1, <2>2
    <3> DEFINE y == f * Q
    <3>3. y \in Int /\ (g \div Lower) * P = y * 256
      BY <2>5, <3>1, <3>2 DEF P
    <3> HIDE DEF y
    <3>4. (y * 256) \div 256 = y
      BY <3>3
    <3> QED BY <3>3, <3>4 DEF y
  <2>8. P + f * Q = Q * (8 + f)
    BY <1>1, <2>2 DEF P
  <2>9. 2^23 = Fractions /\ 2^20 = Lower * 32
    BY FractionsAre, Zenon DEF Fractions
  <2>10. Cache!ScaleValue(byte) = Cache!FloatIn(bits, 9)
    BY <1>3, <2>1, <2>9, Zenon DEF Cache!ScaleValue, Float, p, e, f, g
  <2> QED BY <1>1, <1>3, <2>6, <2>7, <2>8, <2>10 DEF ScaleIsE4M3, Q
<1> QED BY <1>2, <1>3

(* Where the scale of a group is, and what is read off from there          *)
CoordIs(slot, group, page, dim) ==
  LET m  == dim \div 4
      at == Cache!ScaleCoord(slot, group, TRUE, dim)
  IN  /\ at \in (0..page-1) \X (0..dim-1)
      /\ at[1] \div 4 = slot \div 4 /\ at[1] % 4 = group \div m
      /\ at[2] \div 4 = group % m /\ at[2] % 4 = slot % 4
      /\ slot = (slot \div 4) * 4 + (slot % 4)
      /\ group = (group \div m) * m + (group % m)

LEMMA CoordOf ==
  ASSUME NEW page \in Nat \ {0}, page % 4 = 0, NEW dim \in Nat \ {0}, dim % 4 = 0,
         NEW slot \in 0..page-1, NEW group \in 0..dim-1
  PROVE  CoordIs(slot, group, page, dim)
<1> DEFINE m == dim \div 4
           hi == slot \div 4
           lo == slot % 4
           g == group \div m
           r == group % m
           at == Cache!ScaleCoord(slot, group, TRUE, dim)
<1>1. m \in Nat \ {0} /\ dim = 4 * m
  OBVIOUS
<1>2. hi \in Nat /\ lo \in 0..3 /\ slot = hi * 4 + lo /\ 4 * hi + 4 <= page
  OBVIOUS
<1> HIDE DEF m, hi, lo
<1>3. g \in Nat /\ r \in 0..m-1 /\ group = g * m + r
  <2>1. group \in Int /\ group \in Nat
    OBVIOUS
  <2>2. group % m \in 0..m-1 /\ group = (group \div m) * m + (group % m)
    BY <1>1, <2>1, RemainderIs
  <2>3. group \div m \in Nat
    BY <1>1, <2>1, DivideNat
  <2> QED BY <2>2, <2>3
<1> HIDE DEF g, r
<1>4. g \in 0..3
  <2>1. g * m < 4 * m
    <3>1. g * m \in Nat
      BY <1>1, <1>3
    <3> QED BY <1>1, <1>3, <3>1
  <2>2. g < 4
    BY <1>1, <1>3, <2>1
  <2> QED BY <1>3, <2>2
<1>5. at = <<hi * 4 + g, r * 4 + lo>>
  BY DEF Cache!ScaleCoord, m, hi, lo, g, r
<1>6. hi * 4 + g \in 0..page-1 /\ (hi * 4 + g) \div 4 = hi /\ (hi * 4 + g) % 4 = g
  BY <1>2, <1>4
<1>7. r * 4 + lo \in 0..dim-1 /\ (r * 4 + lo) \div 4 = r /\ (r * 4 + lo) % 4 = lo
  BY <1>1, <1>2, <1>3
<1> HIDE DEF at
<1>8. /\ at \in (0..page-1) \X (0..dim-1)
      /\ at[1] \div 4 = hi /\ at[1] % 4 = g /\ at[2] \div 4 = r /\ at[2] % 4 = lo
  BY <1>5, <1>6, <1>7
<1> QED BY <1>2, <1>3, <1>8 DEF CoordIs, m, hi, lo, g, r, at

LEMMA ScaleIsItsOwnAlways ==
  ASSUME NEW page \in Nat \ {0}, page % 4 = 0, NEW dim \in Nat \ {0}, dim % 4 = 0,
         NEW slot \in 0..page-1, NEW group \in 0..dim-1
  PROVE  ScaleIsItsOwn(slot, group, page, dim)
<1>1. ASSUME NEW s \in 0..page-1, NEW g \in 0..dim-1,
             Cache!ScaleCoord(s, g, TRUE, dim) = Cache!ScaleCoord(slot, group, TRUE, dim)
      PROVE  s = slot /\ g = group
  <2>1. CoordIs(s, g, page, dim) /\ CoordIs(slot, group, page, dim)
    BY CoordOf
  <2>2. s \div 4 = slot \div 4 /\ s % 4 = slot % 4
    BY <1>1, <2>1 DEF CoordIs
  <2>3. g \div (dim \div 4) = group \div (dim \div 4) /\ g % (dim \div 4) = group % (dim \div 4)
    BY <1>1, <2>1 DEF CoordIs
  <2>4. s = (s \div 4) * 4 + (s % 4) /\ slot = (slot \div 4) * 4 + (slot % 4)
    OBVIOUS
  <2>5. g = (g \div (dim \div 4)) * (dim \div 4) + (g % (dim \div 4))
    BY <2>1 DEF CoordIs
  <2>6. group = (group \div (dim \div 4)) * (dim \div 4) + (group % (dim \div 4))
    BY <2>1 DEF CoordIs
  <2>7. g = group
    <3> DEFINE m == dim \div 4
               a == g \div m
               b == g % m
    <3>1. g = a * m + b /\ group = a * m + b
      BY <2>3, <2>5, <2>6
    <3> QED BY <3>1
  <2> QED BY <2>2, <2>4, <2>7
<1>2. Cache!ScaleCoord(slot, group, TRUE, dim) \in (0..page-1) \X (0..dim-1)
  BY CoordOf DEF CoordIs
<1>3. \A s, g : Cache!ScaleCoord(s, g, FALSE, dim) = <<s, g>>
  BY DEF Cache!ScaleCoord
<1>4. <<slot, group>> \in (0..page-1) \X (0..dim-1)
  OBVIOUS
<1>5. ASSUME NEW swizzled \in BOOLEAN
      PROVE  /\ Cache!ScaleCoord(slot, group, swizzled, dim) \in (0..page-1) \X (0..dim-1)
             /\ \A s \in 0..page-1, g \in 0..dim-1 :
                  Cache!ScaleCoord(s, g, swizzled, dim) = Cache!ScaleCoord(slot, group, swizzled, dim)
                    => s = slot /\ g = group
  <2>1. CASE swizzled = TRUE
    <3>1. \A s \in 0..page-1, g \in 0..dim-1 :
            Cache!ScaleCoord(s, g, TRUE, dim) = Cache!ScaleCoord(slot, group, TRUE, dim)
              => s = slot /\ g = group
      BY <1>1
    <3> QED BY <1>2, <2>1, <3>1, Zenon
  <2>2. CASE swizzled = FALSE
    <3>1. \A s \in 0..page-1, g \in 0..dim-1 :
            Cache!ScaleCoord(s, g, FALSE, dim) = Cache!ScaleCoord(slot, group, FALSE, dim)
              => s = slot /\ g = group
      <4> SUFFICES ASSUME NEW s \in 0..page-1, NEW g \in 0..dim-1,
                          Cache!ScaleCoord(s, g, FALSE, dim) = Cache!ScaleCoord(slot, group, FALSE, dim)
                   PROVE  s = slot /\ g = group
        BY Zenon
      <4>1. <<s, g>> = <<slot, group>>
        BY <1>3, Zenon
      <4> QED BY <4>1
    <3>2. Cache!ScaleCoord(slot, group, FALSE, dim) \in (0..page-1) \X (0..dim-1)
      BY <1>3, <1>4
    <3> QED BY <2>2, <3>1, <3>2, Zenon
  <2> QED BY <2>1, <2>2
<1> QED BY <1>5 DEF ScaleIsItsOwn

-----------------------------------------------------------------------------
(* PleHash                                                                 *)

LEMMA HashSum == ASSUME NEW f PROVE Hash!SumFunction(f) = SumFunctionOnSet(f, DOMAIN f)
BY DEF Hash!SumFunction, Hash!SumFunctionOnSet, Hash!FoldFunctionOnSet, Hash!MapThenFoldSet,
       SumFunctionOnSet, FoldFunctionOnSet, MapThenFoldSet

LEMMA SignedType == ASSUME Width \in Nat \ {0}, NEW x \in Int PROVE Hash!Signed(x) \in Int
<1>1. 2^Width \in Nat /\ 2^Width > 0
  BY TwoType
<1> DEFINE w == 2^Width
           u == x % w
<1>2. u \in Int /\ w \in Int
  <2>1. w \in Nat \ {0}
    BY <1>1
  <2> HIDE DEF w
  <2> QED BY <2>1
<1> HIDE DEF u, w
<1>3. Hash!Signed(x) = u \/ Hash!Signed(x) = u - w
  BY Zenon DEF Hash!Signed, Hash!Unsigned, u, w
<1> QED BY <1>2, <1>3

LEMMA SignedXorType == ASSUME Width \in Nat \ {0}, NEW x, NEW y PROVE Hash!SignedXor(x, y) \in Int
<1> DEFINE f == [b \in 0..Width-1 |-> IF Hash!Bit(x, b) # Hash!Bit(y, b) THEN 2^b ELSE 0]
<1>1. \A b \in 0..Width-1 : 2^b \in Int
  <2>1. \A b \in 0..Width-1 : b \in Nat
    OBVIOUS
  <2> QED BY <2>1, TwoType
<1>2. DOMAIN f = 0..Width-1 /\ \A b \in 0..Width-1 : f[b] \in Int
  BY <1>1
<1>3. IsFiniteSet(0..Width-1)
  <2>1. 0 \in Int /\ Width - 1 \in Int
    OBVIOUS
  <2> QED BY <2>1, FS_Interval
<1>4. Hash!SignedXor(x, y) = Hash!Signed(Hash!SumFunction(f))
  BY DEF Hash!SignedXor
<1> HIDE DEF f
<1>5. SumFunctionOnSet(f, 0..Width-1) \in Int
  BY <1>2, <1>3, SumType
<1>6. Hash!SumFunction(f) \in Int
  BY <1>2, <1>5, HashSum
<1> QED BY <1>4, <1>6, SignedType

(* f mixes s with the products after it, those within the order.           *)
Mixes(f, n, order, s, a) ==
  f[0] = s /\ \A i \in 1..n : f[i] = IF order > i THEN Hash!SignedXor(f[i-1], a[i]) ELSE f[i-1]

LEMMA MixingExists ==
  ASSUME Width \in Nat \ {0}, NEW n \in Nat, NEW order \in Int, NEW s \in Int, NEW a
  PROVE  \E g \in [0..n -> Int] : Mixes(g, n, order, s, a)
<1> DEFINE step == [i \in 1..n |-> [v \in Int |-> IF order > i THEN Hash!SignedXor(v, a[i]) ELSE v]]
<1>1. step \in [1..n -> [Int -> Int]]
  BY SignedXorType
<1>2. \A i \in 1..n, v \in Int : step[i][v] = IF order > i THEN Hash!SignedXor(v, a[i]) ELSE v
  OBVIOUS
<1> HIDE DEF step
<1>3. PICK g \in [0..n -> Int] : Recursion(g, n, s, step)
  <2> DEFINE S == Int
  <2>1. s \in S /\ step \in [1..n -> [S -> S]]
    BY <1>1
  <2> HIDE DEF S
  <2>2. \E g \in [0..n -> S] : Recursion(g, n, s, step)
    BY <2>1, RecursionExists
  <2> QED BY <2>2 DEF S
<1>4. \A i \in 1..n : i - 1 \in 0..n
  OBVIOUS
<1>5. g[0] = s /\ \A i \in 1..n : g[i] = step[i][g[i-1]]
  BY <1>3 DEF Recursion
<1>6. g \in [0..n -> Int] /\ Mixes(g, n, order, s, a)
  <2>1. \A i \in 1..n : g[i-1] \in Int
    BY <1>3, <1>4
  <2>2. \A i \in 1..n : g[i] = IF order > i THEN Hash!SignedXor(g[i-1], a[i]) ELSE g[i-1]
    BY <1>2, <1>5, <2>1
  <2> QED BY <1>3, <1>5, <2>2 DEF Mixes
<1> QED BY <1>6

LEMMA MixesStayInt ==
  ASSUME Width \in Nat \ {0}, NEW n \in Nat, NEW order \in Int, NEW s \in Int, NEW a, NEW f, Mixes(f, n, order, s, a)
  PROVE  \A i \in 0..n : f[i] \in Int
<1> DEFINE D == {i \in 0..n : f[i] \in Int}
<1>1. 0 \in D
  BY DEF Mixes
<1>2. ASSUME NEW i \in 1..n, i - 1 \in D PROVE i \in D
  BY <1>2, SignedXorType DEF Mixes
<1>3. \A i \in 0..n : i \in D
  <2> HIDE DEF D
  <2> QED BY <1>1, <1>2, IntervalInduction
<1> QED BY <1>3

(* Two mixings agree up to the order, and past it there is no more to mix. *)
LEMMA MixingsAgree ==
  ASSUME Width \in Nat \ {0}, NEW n \in Nat, NEW m \in 0..n, NEW s \in Int, NEW a,
         NEW f, Mixes(f, n, m + 1, s, a), NEW g, Mixes(g, m, m + 1, s, a)
  PROVE  f[n] = g[m]
<1> DEFINE D == {i \in 0..m : f[i] = g[i]}
           E == {i \in 0..n : i >= m => f[i] = g[m]}
<1>1. 0 \in D
  BY DEF Mixes
<1>2. ASSUME NEW i \in 1..m, i - 1 \in D PROVE i \in D
  <2>1. i \in 1..n /\ m + 1 > i
    OBVIOUS
  <2>2. f[i] = Hash!SignedXor(f[i-1], a[i]) /\ g[i] = Hash!SignedXor(g[i-1], a[i])
    BY <2>1 DEF Mixes
  <2>3. f[i-1] = g[i-1]
    BY <1>2
  <2> QED BY <2>2, <2>3
<1>3. \A i \in 0..m : i \in D
  <2> HIDE DEF D
  <2> QED BY <1>1, <1>2, IntervalInduction
<1>4. f[m] = g[m]
  BY <1>3
<1>5. 0 \in E
  BY <1>4
<1>6. ASSUME NEW i \in 1..n, i - 1 \in E PROVE i \in E
  <2>1. CASE i - 1 >= m
    <3>1. ~(m + 1 > i) /\ f[i-1] = g[m]
      BY <1>6, <2>1
    <3> QED BY <3>1 DEF Mixes
  <2>2. CASE ~(i - 1 >= m)
    <3>1. i >= m => i = m
      BY <2>2
    <3> QED BY <1>4, <3>1
  <2> QED BY <2>1, <2>2
<1>7. \A i \in 0..n : i \in E
  <2> HIDE DEF E
  <2> QED BY <1>5, <1>6, IntervalInduction
<1> QED BY <1>7

(* The products of an n-gram                                               *)
Products(gram, multipliers) == [i \in 0..NGram-1 |-> Hash!Signed(gram[i] * multipliers[i])]

OrderOf(h) == (h \div HeadsPerNgram) + 2

LEMMA KernelMixes ==
  ASSUME Width \in Nat \ {0}, NGram \in Nat \ {0, 1}, NEW gram, NEW multipliers,
         NEW a, a = Products(gram, multipliers), a[0] \in Int, NEW h, NEW order \in Int, order = OrderOf(h)
  PROVE  \E f : Mixes(f, NGram - 1, order, a[0], a) /\ Hash!KernelMixed(gram, multipliers, h) = f[NGram - 1]
<1> DEFINE n == NGram - 1
           s == a[0]
           Body(g) == [i \in 0..n |-> IF i = 0 THEN Hash!Signed(gram[0] * multipliers[0])
                                      ELSE IF order > i THEN Hash!SignedXor(g[i-1], Hash!Signed(gram[i] * multipliers[i]))
                                      ELSE g[i-1]]
           f == CHOOSE g : g = Body(g)
<1>0. n \in Nat /\ \A i \in 0..n : a[i] = Hash!Signed(gram[i] * multipliers[i])
  BY DEF Products
<1>1. \A g : Mixes(g, n, order, s, a) /\ g = [i \in 0..n |-> g[i]] <=> g = Body(g)
  <2>1. 0 \in 0..n /\ \A i \in 1..n : i \in 0..n /\ i # 0
    BY <1>0
  <2>2. ASSUME NEW g, Mixes(g, n, order, s, a), g = [i \in 0..n |-> g[i]] PROVE g = Body(g)
    <3>0. /\ g[0] = s
          /\ \A i \in 1..n : g[i] = IF order > i THEN Hash!SignedXor(g[i-1], a[i]) ELSE g[i-1]
      BY <2>2 DEF Mixes
    <3>1. ASSUME NEW i \in 0..n PROVE g[i] = Body(g)[i]
      <4>1. a[i] = Hash!Signed(gram[i] * multipliers[i]) /\ 0 \in 0..n
        BY <1>0
      <4>2. CASE i = 0
        BY <1>0, <3>0, <4>1, <4>2
      <4>3. CASE i # 0
        <5>1. i \in 1..n
          BY <4>3
        <5>2. g[i] = IF order > i THEN Hash!SignedXor(g[i-1], a[i]) ELSE g[i-1]
          BY <3>0, <5>1
        <5>3. Body(g)[i] = IF order > i THEN Hash!SignedXor(g[i-1], Hash!Signed(gram[i] * multipliers[i])) ELSE g[i-1]
          BY <4>3
        <5> HIDE DEF Body
        <5> QED BY <4>1, <5>1, <5>2, <5>3
      <4> QED BY <4>2, <4>3
    <3> QED BY <2>2, <3>1
  <2>3. ASSUME NEW g, g = Body(g) PROVE Mixes(g, n, order, s, a) /\ g = [i \in 0..n |-> g[i]]
    <3>1. \A i \in 0..n : g[i] = Body(g)[i]
      BY <2>3
    <3> HIDE DEF n
    <3>2. Mixes(g, n, order, s, a)
      BY <1>0, <2>1, <3>1 DEF Mixes
    <3> QED BY <2>3, <3>2
  <2> HIDE DEF Body, n
  <2> QED BY <2>2, <2>3
<1>2. \E g : g = Body(g)
  <2> HIDE DEF Body, n, s
  <2>1. s \in Int
    BY DEF s
  <2>2. PICK g \in [0..n -> Int] : Mixes(g, n, order, s, a)
    BY <1>0, <2>1, MixingExists
  <2>3. g = [i \in 0..n |-> g[i]]
    OBVIOUS
  <2> QED BY <1>1, <2>2, <2>3
<1>3. f = Body(f)
  <2> HIDE DEF Body
  <2> QED BY <1>2
<1>4. Hash!KernelMixed(gram, multipliers, h) = f[n]
  BY DEF Hash!KernelMixed, OrderOf
<1> HIDE DEF Body, f
<1> QED BY <1>1, <1>3, <1>4

LEMMA TorchMixes ==
  ASSUME Width \in Nat \ {0}, NGram \in Nat \ {0, 1}, NEW gram, NEW multipliers,
         NEW a, a = Products(gram, multipliers), a[0] \in Int, NEW order \in 2..NGram
  PROVE  \E f : Mixes(f, order - 1, order, a[0], a) /\ Hash!TorchMixed(gram, multipliers, order) = f[order - 1]
<1> DEFINE n == order - 1
           s == a[0]
           Body(g) == [i \in 0..n |-> IF i = 0 THEN Hash!Signed(gram[0] * multipliers[0])
                                      ELSE Hash!SignedXor(g[i-1], Hash!Signed(gram[i] * multipliers[i]))]
           f == CHOOSE g : g = Body(g)
<1>0. n \in Nat /\ \A i \in 0..n : a[i] = Hash!Signed(gram[i] * multipliers[i])
  BY DEF Products
<1>1. \A g : Mixes(g, n, order, s, a) /\ g = [i \in 0..n |-> g[i]] <=> g = Body(g)
  <2>1. 0 \in 0..n /\ \A i \in 1..n : i \in 0..n /\ i # 0 /\ order > i
    BY <1>0
  <2>2. ASSUME NEW g, Mixes(g, n, order, s, a), g = [i \in 0..n |-> g[i]] PROVE g = Body(g)
    <3>0. /\ g[0] = s
          /\ \A i \in 1..n : g[i] = IF order > i THEN Hash!SignedXor(g[i-1], a[i]) ELSE g[i-1]
      BY <2>2 DEF Mixes
    <3>1. ASSUME NEW i \in 0..n PROVE g[i] = Body(g)[i]
      <4>1. a[i] = Hash!Signed(gram[i] * multipliers[i]) /\ 0 \in 0..n
        BY <1>0
      <4>2. CASE i = 0
        BY <1>0, <3>0, <4>1, <4>2
      <4>3. CASE i # 0
        <5>1. i \in 1..n /\ order > i
          BY <4>3
        <5>2. g[i] = IF order > i THEN Hash!SignedXor(g[i-1], a[i]) ELSE g[i-1]
          BY <3>0, <5>1
        <5>3. Body(g)[i] = Hash!SignedXor(g[i-1], Hash!Signed(gram[i] * multipliers[i]))
          BY <4>3
        <5> HIDE DEF Body
        <5> QED BY <4>1, <5>1, <5>2, <5>3
      <4> QED BY <4>2, <4>3
    <3> QED BY <2>2, <3>1
  <2>3. ASSUME NEW g, g = Body(g) PROVE Mixes(g, n, order, s, a) /\ g = [i \in 0..n |-> g[i]]
    <3>1. \A i \in 0..n : g[i] = Body(g)[i]
      BY <2>3
    <3> HIDE DEF n
    <3>2. Mixes(g, n, order, s, a)
      BY <1>0, <2>1, <3>1 DEF Mixes
    <3> QED BY <2>3, <3>2
  <2> HIDE DEF Body, n
  <2> QED BY <2>2, <2>3
<1>2. \E g : g = Body(g)
  <2> HIDE DEF Body, n, s
  <2>1. s \in Int /\ order \in Int
    BY DEF s
  <2>2. PICK g \in [0..n -> Int] : Mixes(g, n, order, s, a)
    BY <1>0, <2>1, MixingExists
  <2>3. g = [i \in 0..n |-> g[i]]
    OBVIOUS
  <2> QED BY <1>1, <2>2, <2>3
<1>3. f = Body(f)
  <2> HIDE DEF Body
  <2> QED BY <1>2
<1>4. Hash!TorchMixed(gram, multipliers, order) = f[n]
  BY DEF Hash!TorchMixed
<1> HIDE DEF Body, f
<1> QED BY <1>1, <1>3, <1>4

LEMMA RemainderOfKernel ==
  ASSUME NEW x \in Int, NEW d \in Nat \ {0} PROVE Hash!KernelRemainder(x, d) = x % d
<1>1. CASE x >= 0
  <2>1. x % d \in 0..d-1
    OBVIOUS
  <2> QED BY <1>1, <2>1 DEF Hash!KernelRemainder, Hash!TruncatedRemainder
<1>2. CASE x < 0
  <2> DEFINE y == -x
             r == y % d
             q == y \div d
  <2>1. y \in Int
    OBVIOUS
  <2>2. r \in 0..d-1 /\ y = q * d + r /\ q \in Int
    <3> HIDE DEF y
    <3> QED BY <2>1, RemainderIs
  <2>3. Hash!KernelRemainder(x, d) = IF -r < 0 THEN -r + d ELSE -r
    BY <1>2 DEF Hash!KernelRemainder, Hash!TruncatedRemainder
  <2> HIDE DEF r, q
  <2>4. CASE r = 0
    <3>1. x = (-q) * d + 0 /\ -q \in Int
      BY <2>2, <2>4
    <3>2. x % d = 0
      <4> DEFINE i == -q
      <4>1. i \in Int /\ x = i * d + 0
        BY <3>1
      <4> HIDE DEF i
      <4> QED BY <4>1, DivideMore
    <3> QED BY <2>3, <2>4, <3>2
  <2>5. CASE r # 0
    <3>1. x = (-q - 1) * d + (d - r) /\ -q - 1 \in Int
      <4>1. (-q - 1) * d = -(q * d) - d /\ q * d \in Int
        BY <2>2
      <4> QED BY <2>2, <4>1
    <3>2. x % d = d - r
      <4> DEFINE i == -q - 1
                 z == d - r
      <4>1. i \in Int /\ z \in Int /\ 0 <= z /\ z < d /\ x = i * d + z
        BY <2>2, <2>5, <3>1
      <4> HIDE DEF i, z
      <4>2. x % d = z
        BY <4>1, DivideMore
      <4> QED BY <4>2 DEF z
    <3> QED BY <2>2, <2>3, <2>5, <3>2
  <2> QED BY <2>4, <2>5
<1> QED BY <1>1, <1>2

LEMMA OffsetsAre ==
  ASSUME NEW n \in Nat, NEW sizes, \A h \in 0..n-1 : sizes[h] \in Nat \ {0}
  PROVE  \A h \in 0..n-1 : /\ Hash!HeadOffsets(sizes, n)[h] \in Int
                           /\ Hash!HeadOffsets(sizes, n)[h+1] = Hash!HeadOffsets(sizes, n)[h] + sizes[h]
<1> DEFINE step == [i \in 1..n |-> [v \in Int |-> v + sizes[i-1]]]
           Body(g) == [i \in 0..n |-> IF i = 0 THEN 0 ELSE g[i-1] + sizes[i-1]]
           f == Hash!HeadOffsets(sizes, n)
           zero == 0
           S == Int
<1>1. zero \in S /\ step \in [1..n -> [S -> S]] /\ \A i \in 1..n, v \in Int : step[i][v] = v + sizes[i-1]
  <2>1. \A i \in 1..n : i - 1 \in 0..n-1
    OBVIOUS
  <2> QED BY <2>1
<1> HIDE DEF step
<1>2. \E g : g = Body(g)
  <2>1. PICK g \in [0..n -> S] : Recursion(g, n, zero, step)
    <3> HIDE DEF S, zero, Body
    <3> QED BY <1>1, RecursionExists
  <2>2. \A i \in 1..n : i - 1 \in 0..n
    OBVIOUS
  <2>3. \A i \in 0..n : g[i] = IF i = 0 THEN 0 ELSE g[i-1] + sizes[i-1]
    <3>1. g[0] = zero /\ \A i \in 1..n : g[i] = step[i][g[i-1]] /\ g[i-1] \in Int
      BY <2>1, <2>2 DEF Recursion
    <3>2. \A i \in 1..n : g[i] = g[i-1] + sizes[i-1]
      BY <1>1, <3>1
    <3> QED BY <3>1, <3>2
  <2>4. g = Body(g)
    BY <2>1, <2>3
  <2> QED BY <2>4
<1>3. f = CHOOSE g : g = Body(g)
  BY DEF Hash!HeadOffsets
<1> HIDE DEF f
<1>4. f = Body(f)
  <2> HIDE DEF Body
  <2> QED BY <1>2, <1>3
<1>5. f[0] = 0 /\ \A i \in 1..n : f[i] = f[i-1] + sizes[i-1]
  BY <1>4
<1>6. \A i \in 0..n : f[i] \in S
  <2>1. \A i \in 1..n : f[i-1] \in S => f[i] = step[i][f[i-1]]
    BY <1>1, <1>5
  <2>2. StepsWithin(f, n, S, zero, step)
    <3>1. f[0] = zero
      BY <1>5
    <3> HIDE DEF S, zero, Body
    <3> QED BY <2>1, <3>1 DEF StepsWithin
  <2> HIDE DEF S, zero, Body
  <2> QED BY <1>1, <2>2, RecursionIs
<1>7. ASSUME NEW h \in 0..n-1 PROVE f[h] \in Int /\ f[h+1] = f[h] + sizes[h]
  <2>1. h + 1 \in 1..n /\ (h + 1) - 1 = h /\ h \in 0..n
    OBVIOUS
  <2> QED BY <1>5, <1>6, <2>1
<1> QED BY <1>7 DEF f

LEMMA HashesAgreeAlways ==
  ASSUME Width \in Nat \ {0}, NGram \in Nat \ {0, 1}, HeadsPerNgram \in Nat \ {0},
         Tokens \subseteq Int, Factors \subseteq Int, HeadRows \in [0..Hash!Heads-1 -> Nat \ {0}],
         NEW gram \in [0..NGram-1 -> Tokens], NEW multipliers \in [0..NGram-1 -> Factors], NEW h \in 0..Hash!Heads-1
  PROVE  LET id == Hash!KernelId(gram, multipliers, HeadRows, h)
             offsets == Hash!HeadOffsets(HeadRows, Hash!Heads)
         IN  /\ id = Hash!TorchId(gram, multipliers, HeadRows, h)
             /\ offsets[h] <= id /\ id < offsets[h + 1]
<1> DEFINE order == (h \div HeadsPerNgram) + 2
           a == Products(gram, multipliers)
           offsets == Hash!HeadOffsets(HeadRows, Hash!Heads)
           mixed == Hash!KernelMixed(gram, multipliers, h)
           d == HeadRows[h]
<1>0. Hash!Heads \in Nat /\ Hash!Heads = (NGram - 1) * HeadsPerNgram
  BY DEF Hash!Heads
<1>1. order \in 2..NGram
  <2> DEFINE q == h \div HeadsPerNgram
  <2>1. q \in Nat /\ q * HeadsPerNgram <= h /\ h < (NGram - 1) * HeadsPerNgram /\ h \in Nat
    <3>1. h \in Nat /\ h < (NGram - 1) * HeadsPerNgram
      BY <1>0
    <3>2. q \in Nat
      BY <3>1, DivideNat
    <3>3. q * HeadsPerNgram <= h
      <4>1. h \in Int /\ HeadsPerNgram \in Nat \ {0}
        BY <3>1
      <4> QED BY <4>1, DivideBounds
    <3> QED BY <3>1, <3>2, <3>3
  <2> HIDE DEF q
  <2>2. q < NGram - 1
    <3>1. q * HeadsPerNgram < (NGram - 1) * HeadsPerNgram
      BY <2>1
    <3> QED BY <2>1, <3>1
  <2> QED BY <2>1, <2>2 DEF q
<1>2. \A i \in 0..NGram-1 : a[i] \in Int
  <2>0. \A i \in 0..NGram-1 : gram[i] \in Int /\ multipliers[i] \in Int
    OBVIOUS
  <2>1. \A i \in 0..NGram-1 : gram[i] * multipliers[i] \in Int
    BY <2>0
  <2> QED BY <2>1, SignedType DEF Products
<1>3. mixed = Hash!TorchMixed(gram, multipliers, order) /\ mixed \in Int
  <2>0. a[0] \in Int /\ NGram - 1 \in Nat /\ order \in Int /\ order - 1 \in 0..NGram-1
    BY <1>1, <1>2
  <2>1. PICK f : Mixes(f, NGram - 1, order, a[0], a) /\ mixed = f[NGram - 1]
    <3>0. order = OrderOf(h)
      BY DEF OrderOf
    <3> HIDE DEF a, mixed, order
    <3>1. a = Products(gram, multipliers)
      BY DEF a
    <3>2. \E f : Mixes(f, NGram - 1, order, a[0], a) /\ Hash!KernelMixed(gram, multipliers, h) = f[NGram - 1]
      BY <2>0, <3>0, <3>1, KernelMixes
    <3> QED BY <3>2, Zenon DEF mixed
  <2>2. PICK g : Mixes(g, order - 1, order, a[0], a) /\ Hash!TorchMixed(gram, multipliers, order) = g[order - 1]
    <3> HIDE DEF a, order
    <3>1. a = Products(gram, multipliers)
      BY DEF a
    <3> QED BY <1>1, <2>0, <3>1, TorchMixes
  <2> DEFINE s == a[0]
             n == NGram - 1
             m == order - 1
  <2>3. s \in Int /\ n \in Nat /\ m \in 0..n /\ Mixes(f, n, m + 1, s, a) /\ Mixes(g, m, m + 1, s, a)
    <3>1. order = m + 1
      BY <2>0
    <3> HIDE DEF order, m, a
    <3> QED BY <2>0, <2>1, <2>2, <3>1 DEF m
  <2>4. mixed = f[n] /\ Hash!TorchMixed(gram, multipliers, order) = g[m] /\ n \in 0..n
    BY <2>1, <2>2, <2>3
  <2> HIDE DEF a, s, n, m, order, mixed
  <2>5. f[n] = g[m]
    BY <2>3, MixingsAgree
  <2>6. f[n] \in Int
    <3>1. m + 1 \in Int
      BY <2>3
    <3>2. \A i \in 0..n : f[i] \in Int
      BY <2>3, <3>1, MixesStayInt
    <3> QED BY <2>4, <3>2
  <2> QED BY <2>4, <2>5, <2>6
<1>4. d \in Nat \ {0}
  OBVIOUS
<1>5. Hash!KernelId(gram, multipliers, HeadRows, h) = Hash!KernelRemainder(mixed, d) + offsets[h]
  BY DEF Hash!KernelId
<1>6. Hash!TorchId(gram, multipliers, HeadRows, h) = (Hash!TorchMixed(gram, multipliers, order) % d) + offsets[h]
  <2>1. order = 2 + (h \div HeadsPerNgram)
    <3> DEFINE q == h \div HeadsPerNgram
    <3>1. q \in Int
      OBVIOUS
    <3> HIDE DEF q
    <3>2. q + 2 = 2 + q
      BY <3>1
    <3> QED BY <3>2 DEF q
  <2> HIDE DEF order, d, offsets
  <2> QED BY <2>1 DEF Hash!TorchId, d, offsets
<1>7. offsets[h] \in Int /\ offsets[h+1] = offsets[h] + d
  <2>1. \A i \in 0..Hash!Heads-1 : HeadRows[i] \in Nat \ {0}
    OBVIOUS
  <2> QED BY <1>0, <2>1, OffsetsAre
<1> HIDE DEF mixed, d, offsets, order
<1>8. Hash!KernelRemainder(mixed, d) = mixed % d
  BY <1>3, <1>4, RemainderOfKernel
<1>9. mixed % d \in 0..d-1
  BY <1>3, <1>4
<1> QED BY <1>3, <1>4, <1>5, <1>6, <1>7, <1>8, <1>9 DEF offsets

-----------------------------------------------------------------------------
(* What is asked                                                           *)

Batches(n) == {starts \in [0..n -> Nat] : Search!Layout(starts, n)}

AsksSearch(q) == \E n \in Nat \ {0} : \E starts \in Batches(n), t \in Nat :
  q = [of |-> "search", n |-> n, starts |-> starts, t |-> t]
AsksVocab(q) == \E value \in Nat : q = [of |-> "vocab", value |-> value]
AsksHash(q) == \E gram \in [0..NGram-1 -> Tokens] : q = [of |-> "hash", gram |-> gram]
AsksCache(q) == \E byte \in 0..255, page \in PageSizes, dim \in ScaleDims :
  q = [of |-> "cache", byte |-> byte, page |-> page, dim |-> dim]
AsksPad(q) == \E tp \in Nat \ {0}, rep \in Nat \ {0}, size \in Nat \ {0} : \E rank \in 0..tp-1 :
  q = [of |-> "pad", tp |-> tp, rep |-> rep, size |-> size, rank |-> rank]
AsksDevices(q) == \E assigned \in Seq(0..Devices-1), shown \in Seq(Entries), device \in Nat :
  q = [of |-> "devices", assigned |-> assigned, shown |-> shown, device |-> device]

(* Every question is one of the six, of the values its algorithm takes.    *)
Sensible(q) == AsksSearch(q) \/ AsksVocab(q) \/ AsksHash(q) \/ AsksCache(q) \/ AsksPad(q) \/ AsksDevices(q)

LEMMA KindOf ==
  ASSUME NEW q, Sensible(q)
  PROVE  /\ q.of = "search" => AsksSearch(q)
         /\ q.of = "vocab" => AsksVocab(q)
         /\ q.of = "hash" => AsksHash(q)
         /\ q.of = "cache" => AsksCache(q)
         /\ q.of = "pad" => AsksPad(q)
         /\ q.of = "devices" => AsksDevices(q)
<1>1. AsksSearch(q) => q.of = "search"
  BY DEF AsksSearch
<1>2. AsksVocab(q) => q.of = "vocab"
  BY DEF AsksVocab
<1>3. AsksHash(q) => q.of = "hash"
  BY DEF AsksHash
<1>4. AsksCache(q) => q.of = "cache"
  BY DEF AsksCache
<1>5. AsksPad(q) => q.of = "pad"
  BY DEF AsksPad
<1>6. AsksDevices(q) => q.of = "devices"
  BY DEF AsksDevices
<1> QED BY <1>1, <1>2, <1>3, <1>4, <1>5, <1>6 DEF Sensible

LEMMA BoundedIsSeq == ASSUME NEW S, NEW n \in Nat, NEW s \in BoundedSeq(S, n) PROVE s \in Seq(S)
<1>1. PICK m \in 0..n : s \in [1..m -> S]
  BY DEF BoundedSeq, SeqOf
<1> QED BY <1>1

LEMMA LayoutsAscend ==
  ASSUME MaxTokens \in Nat, NEW n \in Nat, NEW f \in Layouts(n)
  PROVE  f \in Batches(n)
<1>1. f \in [0..n -> 0..MaxTokens] /\ f[0] = 0 /\ \A i \in 1..n : f[i-1] <= f[i]
  BY DEF Layouts
<1>2. \A e \in 0..n : f[e] \in Nat
  BY <1>1
<1>3. \A i, j \in 0..n : i <= j => f[i] <= f[j]
  BY <1>1, <1>2, StepsAscend
<1> QED BY <1>1, <1>2, <1>3 DEF Batches, Search!Layout

LEMMA SensibleAtFirst == ASSUME AlgorithmsAssumption, InitQuestion PROVE Sensible(question)
<1>0. {MaxReqs, MaxTokens, MaxTP, MaxKvHeads, MaxSize, Devices, MaxMajor} \subseteq Nat
  BY DEF AlgorithmsAssumption
<1>1. CASE \E n \in 1..MaxReqs : question \in [of : {"search"}, n : {n}, starts : Layouts(n), t : {0}]
  <2>1. PICK n \in 1..MaxReqs : question \in [of : {"search"}, n : {n}, starts : Layouts(n), t : {0}]
    BY <1>1
  <2>2. PICK f \in Layouts(n) : question = [of |-> "search", n |-> n, starts |-> f, t |-> 0]
    BY <2>1
  <2>3. n \in Nat \ {0} /\ n \in Nat /\ MaxTokens \in Nat
    BY <1>0
  <2>4. f \in Batches(n)
    BY <2>3, LayoutsAscend
  <2> QED BY <2>2, <2>3, <2>4 DEF Sensible, AsksSearch
<1>2. CASE question = [of |-> "vocab", value |-> 0]
  BY <1>2 DEF Sensible, AsksVocab
<1>3. CASE question \in [of : {"hash"}, gram : [0..NGram-1 -> Tokens]]
  BY <1>3 DEF Sensible, AsksHash
<1>4. CASE question \in [of : {"cache"}, byte : {0}, page : PageSizes, dim : ScaleDims]
  <2>1. PICK page \in PageSizes, dim \in ScaleDims : question = [of |-> "cache", byte |-> 0, page |-> page, dim |-> dim]
    BY <1>4
  <2>2. 0 \in 0..255
    OBVIOUS
  <2> QED BY <2>1, <2>2 DEF Sensible, AsksCache
<1>5. CASE question \in [of : {"pad"}, tp : 1..MaxTP, rep : 1..MaxTP, size : 1..MaxSize, rank : {0}]
  <2>1. PICK tp \in 1..MaxTP, rep \in 1..MaxTP, size \in 1..MaxSize :
          question = [of |-> "pad", tp |-> tp, rep |-> rep, size |-> size, rank |-> 0]
    BY <1>5
  <2>2. tp \in Nat \ {0} /\ rep \in Nat \ {0} /\ size \in Nat \ {0} /\ 0 \in 0..tp-1
    BY <1>0
  <2> QED BY <2>1, <2>2 DEF Sensible, AsksPad
<1>6. CASE question \in [of : {"devices"}, assigned : BoundedSeq(0..Devices-1, Devices),
                          shown : BoundedSeq(Entries, Devices), device : {0}]
  <2>1. PICK assigned \in BoundedSeq(0..Devices-1, Devices), shown \in BoundedSeq(Entries, Devices) :
          question = [of |-> "devices", assigned |-> assigned, shown |-> shown, device |-> 0]
    BY <1>6
  <2>2. assigned \in Seq(0..Devices-1) /\ shown \in Seq(Entries)
    BY <1>0, BoundedIsSeq
  <2> QED BY <2>1, <2>2 DEF Sensible, AsksDevices
<1> QED BY <1>1, <1>2, <1>3, <1>4, <1>5, <1>6 DEF InitQuestion

LEMMA SensibleNext == ASSUME AlgorithmsAssumption, Sensible(question), NextQuestion PROVE Sensible(question')
<1>1. CASE NextToken
  <2>1. question.of = "search" /\ question' = [question EXCEPT !.t = @ + 1]
    BY <1>1 DEF NextToken
  <2>2. PICK n \in Nat \ {0} : \E f \in Batches(n), t \in Nat :
          question = [of |-> "search", n |-> n, starts |-> f, t |-> t]
    BY <2>1, KindOf DEF AsksSearch
  <2>3. PICK f \in Batches(n), t \in Nat : question = [of |-> "search", n |-> n, starts |-> f, t |-> t]
    BY <2>2
  <2>4. question' = [of |-> "search", n |-> n, starts |-> f, t |-> t + 1] /\ t + 1 \in Nat
    BY <2>1, <2>3
  <2> QED BY <2>4 DEF Sensible, AsksSearch
<1>2. CASE NextValue
  <2>1. question.of = "vocab" /\ question' = [question EXCEPT !.value = @ + 1]
    BY <1>2 DEF NextValue
  <2>2. PICK value \in Nat : question = [of |-> "vocab", value |-> value]
    BY <2>1, KindOf DEF AsksVocab
  <2>3. question' = [of |-> "vocab", value |-> value + 1] /\ value + 1 \in Nat
    BY <2>1, <2>2
  <2> QED BY <2>3 DEF Sensible, AsksVocab
<1>3. CASE NextByte
  <2>1. question.of = "cache" /\ question.byte < 255 /\ question' = [question EXCEPT !.byte = @ + 1]
    BY <1>3 DEF NextByte
  <2>2. PICK byte \in 0..255, page \in PageSizes, dim \in ScaleDims :
          question = [of |-> "cache", byte |-> byte, page |-> page, dim |-> dim]
    BY <2>1, KindOf DEF AsksCache
  <2>3. question' = [of |-> "cache", byte |-> byte + 1, page |-> page, dim |-> dim] /\ byte + 1 \in 0..255
    BY <2>1, <2>2
  <2> QED BY <2>3 DEF Sensible, AsksCache
<1>4. CASE NextRank
  <2>1. question.of = "pad" /\ question.rank + 1 < question.tp /\ question' = [question EXCEPT !.rank = @ + 1]
    BY <1>4 DEF NextRank
  <2>2. PICK tp \in Nat \ {0}, rep \in Nat \ {0}, size \in Nat \ {0} : \E rank \in 0..tp-1 :
          question = [of |-> "pad", tp |-> tp, rep |-> rep, size |-> size, rank |-> rank]
    BY <2>1, KindOf DEF AsksPad
  <2>3. PICK rank \in 0..tp-1 : question = [of |-> "pad", tp |-> tp, rep |-> rep, size |-> size, rank |-> rank]
    BY <2>2
  <2>4. /\ question' = [of |-> "pad", tp |-> tp, rep |-> rep, size |-> size, rank |-> rank + 1]
        /\ rank + 1 \in 0..tp-1
    BY <2>1, <2>3
  <2> QED BY <2>4 DEF Sensible, AsksPad
<1>5. CASE NextDevice
  <2>1. question.of = "devices" /\ question' = [question EXCEPT !.device = @ + 1]
    BY <1>5 DEF NextDevice
  <2>2. PICK assigned \in Seq(0..Devices-1), shown \in Seq(Entries), device \in Nat :
          question = [of |-> "devices", assigned |-> assigned, shown |-> shown, device |-> device]
    BY <2>1, KindOf DEF AsksDevices
  <2>3. /\ question' = [of |-> "devices", assigned |-> assigned, shown |-> shown, device |-> device + 1]
        /\ device + 1 \in Nat
    BY <2>1, <2>2
  <2> QED BY <2>3 DEF Sensible, AsksDevices
<1> QED BY <1>1, <1>2, <1>3, <1>4, <1>5 DEF NextQuestion

AskedSensibly == Sensible(question)

LEMMA AlwaysSensible == ASSUME AlgorithmsAssumption PROVE SpecAlgorithms => []AskedSensibly
<1>1. InitQuestion => AskedSensibly
  BY SensibleAtFirst DEF AskedSensibly
<1>2. AskedSensibly /\ [NextQuestion]_question => AskedSensibly'
  <2> SUFFICES ASSUME AskedSensibly, [NextQuestion]_question PROVE Sensible(question')
    BY DEF AskedSensibly
  <2>1. CASE UNCHANGED question
    <3>1. question' = question
      BY <2>1
    <3> QED BY <3>1 DEF AskedSensibly
  <2>2. CASE NextQuestion
    BY <2>2, SensibleNext DEF AskedSensibly
  <2> QED BY <2>1, <2>2
<1> QED BY <1>1, <1>2, PTL DEF SpecAlgorithms

(* _ple_ngram_ids_kernel and the convolution kernels: every token is found *)
(* in its request, in any batch.                                           *)
THEOREM RequestIsFoundHolds == ASSUME AlgorithmsAssumption PROVE SpecAlgorithms => []RequestIsFound
<1>1. AskedSensibly => RequestIsFound
  <2> SUFFICES ASSUME AskedSensibly, question.of = "search"
               PROVE  Search!FindsTheRequest(question.starts, question.n, question.t)
    BY DEF RequestIsFound
  <2>1. PICK n \in Nat \ {0} : \E f \in Batches(n), t \in Nat :
          question = [of |-> "search", n |-> n, starts |-> f, t |-> t]
    BY KindOf DEF AskedSensibly, AsksSearch
  <2>2. PICK f \in Batches(n), t \in Nat : question = [of |-> "search", n |-> n, starts |-> f, t |-> t]
    BY <2>1
  <2>3. \A i \in 0..n : f[i] \in Nat
    BY DEF Batches
  <2>4. Layout(f, n)
    BY DEF Batches, Search!Layout, Layout
  <2>5. FindsTheRequest(f, n, t)
    BY <2>3, <2>4, FindsTheRequestHolds
  <2>6. Search!FindsTheRequest(f, n, t)
    BY <2>5, Zenon DEF Search!FindsTheRequest, Search!FindRequest, Search!Bisect, Search!BitLength, Search!Powers,
                FindsTheRequest, FindRequest, Bisect, BitLength, Powers
  <2> QED BY <2>2, <2>6
<1> QED BY <1>1, AlwaysSensible, PTL

(* _ple_ngram_ids_kernel and compute_ngram_ids look the same row up, for   *)
(* every n-gram, all multipliers and every width of the integers.          *)
THEOREM HashesAgreeHolds == ASSUME AlgorithmsAssumption PROVE SpecAlgorithms => []HashesAgree
<1>1. AskedSensibly => HashesAgree
  <2> SUFFICES ASSUME AskedSensibly, question.of = "hash",
                      NEW multipliers \in [0..NGram-1 -> Factors], NEW h \in 0..Hash!Heads-1
               PROVE  LET id == Hash!KernelId(question.gram, multipliers, HeadRows, h)
                          offsets == Hash!HeadOffsets(HeadRows, Hash!Heads)
                      IN  /\ id = Hash!TorchId(question.gram, multipliers, HeadRows, h)
                          /\ offsets[h] <= id /\ id < offsets[h + 1]
    BY DEF HashesAgree
  <2>1. PICK gram \in [0..NGram-1 -> Tokens] : question = [of |-> "hash", gram |-> gram]
    BY KindOf DEF AskedSensibly, AsksHash
  <2>2. question.gram \in [0..NGram-1 -> Tokens]
    BY <2>1
  <2> QED BY <2>2, HashesAgreeAlways DEF AlgorithmsAssumption
<1> QED BY <1>1, AlwaysSensible, PTL

(* The NVFP4 cache: nibbles and scales decode to the numbers their bits    *)
(* stand for, and no two groups share a scale, for all sizes of pages.     *)
THEOREM CacheIsNvfp4Holds == ASSUME AlgorithmsAssumption PROVE SpecAlgorithms => []CacheIsNvfp4
<1>1. AskedSensibly => CacheIsNvfp4
  <2> SUFFICES ASSUME AskedSensibly, question.of = "cache" PROVE CacheIsNvfp4
    BY DEF CacheIsNvfp4
  <2>1. PICK byte \in 0..255, page \in PageSizes, dim \in ScaleDims :
          question = [of |-> "cache", byte |-> byte, page |-> page, dim |-> dim]
    BY KindOf DEF AskedSensibly, AsksCache
  <2>2. page \in Nat \ {0} /\ page % 4 = 0 /\ dim \in Nat \ {0} /\ dim % 4 = 0
    BY DEF AlgorithmsAssumption
  <2>3. \A nibble \in {byte % 16, byte \div 16} : NibbleIsE2M1(nibble)
    <3>1. byte % 16 \in 0..15 /\ byte \div 16 \in 0..15
      OBVIOUS
    <3> QED BY <3>1, NibbleIs
  <2>4. ScaleIsE4M3(byte)
    BY ScaleIs
  <2>5. ScaleIsItsOwn(byte % page, (byte \div page) % dim, page, dim)
    <3>1. byte % page \in 0..page-1 /\ byte \div page \in Int
      BY <2>2
    <3> DEFINE p == byte \div page
    <3> HIDE DEF p
    <3>2. p % dim \in 0..dim-1
      BY <2>2, <3>1 DEF p
    <3> QED BY <2>2, <3>1, <3>2, ScaleIsItsOwnAlways DEF p
  <2>6. question.byte = byte /\ question.page = page /\ question.dim = dim
    BY <2>1
  <2> QED BY <2>3, <2>4, <2>5, <2>6 DEF CacheIsNvfp4
<1> QED BY <1>1, AlwaysSensible, PTL

(* Whatever is asked about padding has sizes that are not zero.            *)
LEMMA PaddingAsked ==
  ASSUME AskedSensibly, question.of = "pad"
  PROVE  /\ question.tp \in Nat \ {0} /\ question.rep \in Nat \ {0} /\ question.size \in Nat \ {0}
         /\ question.rank \in 0..question.tp-1
<1>1. PICK tp \in Nat \ {0}, rep \in Nat \ {0}, size \in Nat \ {0} : \E rank \in 0..tp-1 :
        question = [of |-> "pad", tp |-> tp, rep |-> rep, size |-> size, rank |-> rank]
  BY KindOf DEF AskedSensibly, AsksPad
<1>2. PICK rank \in 0..tp-1 : question = [of |-> "pad", tp |-> tp, rep |-> rep, size |-> size, rank |-> rank]
  BY <1>1
<1> QED BY <1>2

(* tp_pad.py: repeated heads stay with the queries and the values they     *)
(* belong to, for all numbers of ranks, of heads and of repetitions.       *)
THEOREM HeadsKeepTheirsHolds == ASSUME AlgorithmsAssumption PROVE SpecAlgorithms => []HeadsKeepTheirs
<1>1. AskedSensibly => HeadsKeepTheirs
  <2> SUFFICES ASSUME AskedSensibly, question.of = "pad" PROVE HeadsKeepTheirs
    BY DEF HeadsKeepTheirs
  <2>1. Dim \in Nat \ {0} /\ MaxKvHeads \in Nat
    BY DEF AlgorithmsAssumption
  <2>2. AttentionKeepsItsHeads(question.tp, question.rep, question.size, question.rank)
    BY <2>1, PaddingAsked, AttentionKeeps
  <2>3. DeltaNetKeepsItsHeads(question.tp, question.rep, question.size, question.rank)
    BY <2>1, PaddingAsked, DeltaNetKeeps
  <2> QED BY <2>2, <2>3 DEF HeadsKeepTheirs
<1> QED BY <1>1, AlwaysSensible, PTL

(* tp_pad.py: padding divides by the ranks and by the blocks, and no rank  *)
(* takes padding for content, for all sizes.                               *)
THEOREM PaddingSplitsHolds == ASSUME AlgorithmsAssumption PROVE SpecAlgorithms => []PaddingSplits
<1>1. AskedSensibly => PaddingSplits
  <2> SUFFICES ASSUME AskedSensibly, question.of = "pad" PROVE PaddingSplits
    BY DEF PaddingSplits
  <2>1. MaxSize \in Nat /\ MaxTP \in Nat
    BY DEF AlgorithmsAssumption
  <2>2. PaddingKeepsBlocks(question.tp, question.rep, question.size, question.rank)
    BY PaddingAsked, PaddingKeeps
  <2>3. VocabSplits(question.tp, question.size)
    BY <2>1, PaddingAsked, VocabSplitsAlways
  <2> QED BY <2>2, <2>3 DEF PaddingSplits
<1> QED BY <1>1, AlwaysSensible, PTL

(* platforms/interface.py: a device has one name and one capability, for   *)
(* all numbers of devices and all mappings of them, entries that are no    *)
(* numbers included.                                                       *)
THEOREM NamesOneDeviceHolds == ASSUME AlgorithmsAssumption PROVE SpecAlgorithms => []NamesOneDevice
<1>1. AskedSensibly => NamesOneDevice
  <2> SUFFICES ASSUME AskedSensibly, question.of = "devices" PROVE NamesOneDevice
    BY DEF NamesOneDevice
  <2>1. PICK assigned \in Seq(0..Devices-1), shown \in Seq(Entries), device \in Nat :
          question = [of |-> "devices", assigned |-> assigned, shown |-> shown, device |-> device]
    BY KindOf DEF AskedSensibly, AsksDevices
  <2>2. Devices \in Nat /\ MaxMajor \in Nat /\ MaxMinor \in 0..9
    BY DEF AlgorithmsAssumption
  <2>3. WaysMeet(assigned, shown, device)
    BY <2>2, WaysMeetAlways DEF Entries
  <2>4. RanksAreVisible(assigned, shown, device)
    BY <2>2, RanksAreVisibleAlways DEF Entries
  <2>5. CapabilitiesAgree(device)
    BY <2>2, CapabilitiesAgreeAlways
  <2>6. question.assigned = assigned /\ question.shown = shown /\ question.device = device
    BY <2>1
  <2> QED BY <2>3, <2>4, <2>5, <2>6 DEF NamesOneDevice
<1> QED BY <1>1, AlwaysSensible, PTL
-----------------------------------------------------------------------------
(* The heads of a table                                                    *)

(* Number m of those next_prime tries after start                          *)
Tried(start, m) == (IF (start + 1) % 2 = 0 THEN start + 2 ELSE start + 1) + 2 * m

(* There is a prime between any number and its double, the test accepts    *)
(* every prime, and the numbers tried go further than that.                *)
PrimesAreMet == \A start \in Nat : start > 1 => \E m \in 0..start : Hash!IsPrime64(Tried(start, m))

LEMMA EvenIsNoPrime ==
  ASSUME NEW v \in Nat, v > 2, v % 2 = 0 PROVE ~Hash!IsPrime64(v)
<1>1. Hash!SmallPrimes = {2, 3, 5, 7, 11, 13, 17, 19, 23, 29, 31, 37}
  BY DEF Hash!SmallPrimes
<1>2. 2 \in Hash!SmallPrimes /\ v \notin Hash!SmallPrimes
  BY <1>1
<1>3. \E p \in Hash!SmallPrimes : v % p = 0
  BY <1>2
<1> QED BY <1>2, <1>3, Zenon DEF Hash!IsPrime64

LEMMA TwoIsPrime == Hash!IsPrime64(2)
<1>1. Hash!SmallPrimes = {2, 3, 5, 7, 11, 13, 17, 19, 23, 29, 31, 37}
  BY DEF Hash!SmallPrimes
<1>2. 2 \in Hash!SmallPrimes /\ 2 % 2 = 0 /\ 2 >= 2
  BY <1>1
<1>3. \E p \in Hash!SmallPrimes : 2 % p = 0
  BY <1>2
<1> QED BY <1>2, <1>3, Zenon DEF Hash!IsPrime64

(* next_prime passes no number that passes the test.                       *)
LEMMA NextPrimeIs ==
  ASSUME PrimesAreMet, NEW start \in Nat
  PROVE  /\ Hash!NextPrime(start) \in Nat /\ start < Hash!NextPrime(start)
         /\ Hash!IsPrime64(Hash!NextPrime(start))
         /\ \A v \in start+1 .. Hash!NextPrime(start)-1 : ~Hash!IsPrime64(v)
<1>1. CASE start <= 1
  <2>1. Hash!NextPrime(start) = 2
    BY <1>1 DEF Hash!NextPrime
  <2>2. ASSUME NEW v \in start+1 .. 1 PROVE ~Hash!IsPrime64(v)
    BY DEF Hash!IsPrime64
  <2> QED BY <1>1, <2>1, <2>2, TwoIsPrime
<1>2. CASE start > 1
  <2> DEFINE Best(m) == /\ Hash!IsPrime64(Tried(start, m))
                        /\ \A j \in 0..m-1 : ~Hash!IsPrime64(Tried(start, j))
             S == {m \in 0..start : Hash!IsPrime64(Tried(start, m))}
             n == CHOOSE m \in 0..start : Best(m)
  <2>1. S \in SUBSET Nat /\ S # {}
    BY <1>2 DEF PrimesAreMet
  <2>2. PICK x \in S : \A y \in S : x <= y
    <3> HIDE DEF S
    <3> QED BY <2>1, LeastExists
  <2>3. x \in 0..start /\ Best(x)
    <3>1. ASSUME NEW j \in 0..x-1 PROVE ~Hash!IsPrime64(Tried(start, j))
      <4>1. x \in 0..start /\ j \in 0..start /\ ~(x <= j)
        OBVIOUS
      <4> QED BY <2>2, <4>1
    <3> QED BY <3>1
  <2>4. n \in 0..start /\ Best(n)
    <3> HIDE DEF Best
    <3> QED BY <2>3
  <2>5. Hash!NextPrime(start) = Tried(start, n)
    BY <1>2 DEF Hash!NextPrime, Tried
  <2> HIDE DEF n
  <2> DEFINE first == IF (start + 1) % 2 = 0 THEN start + 2 ELSE start + 1
  <2>6. /\ \A m \in Nat : Tried(start, m) = first + 2 * m
        /\ first \in Nat /\ first % 2 = 1 /\ start < first /\ first <= start + 2
        /\ first = start + 2 => (start + 1) % 2 = 0
    BY DEF Tried
  <2> HIDE DEF first
  <2>7. ASSUME NEW v \in start+1 .. Tried(start, n)-1 PROVE ~Hash!IsPrime64(v)
    <3>1. v \in Nat /\ v > 2 /\ start < v /\ v < first + 2 * n
      BY <1>2, <2>4, <2>6
    <3>2. CASE v % 2 = 0
      BY <3>1, <3>2, EvenIsNoPrime
    <3>3. CASE v % 2 # 0
      <4> DEFINE j == (v - first) \div 2
      <4>1. v >= first
        BY <2>6, <3>1, <3>3
      <4>2. j \in 0..n-1 /\ v = first + 2 * j
        BY <2>4, <2>6, <3>1, <3>3, <4>1
      <4> HIDE DEF j
      <4>3. j \in Nat /\ Tried(start, j) = v
        BY <2>6, <4>2
      <4> QED BY <2>4, <4>2, <4>3
    <3> QED BY <3>2, <3>3
  <2>8. Tried(start, n) \in Nat /\ start < Tried(start, n)
    BY <2>4, <2>6
  <2> QED BY <2>4, <2>5, <2>7, <2>8
<1> QED BY <1>1, <1>2

(* The primes after start, one from the other                              *)
LEMMA PrimesFollow ==
  ASSUME PrimesAreMet, NEW start \in Nat, NEW c \in Nat
  PROVE  \E p \in [0..c -> Nat] :
           /\ p[0] = start /\ \A m \in 1..c : p[m] = Hash!NextPrime(p[m-1])
           /\ Hash!NthPrimeAfter(start, c) = p[c]
<1> DEFINE step == [i \in 1..c |-> [v \in Nat |-> Hash!NextPrime(v)]]
           Body(g) == [m \in 0..c |-> IF m = 0 THEN start ELSE Hash!NextPrime(g[m-1])]
           f == CHOOSE g : g = Body(g)
           S == Nat
<1>1. step \in [1..c -> [S -> S]] /\ \A i \in 1..c, v \in Nat : step[i][v] = Hash!NextPrime(v)
  BY NextPrimeIs
<1> HIDE DEF step
<1>2. PICK g \in [0..c -> S] : Recursion(g, c, start, step)
  <2> HIDE DEF S
  <2>1. start \in S
    BY DEF S
  <2> QED BY <1>1, <2>1, RecursionExists
<1>3. \A i \in 1..c : i - 1 \in 0..c
  OBVIOUS
<1>4. g[0] = start /\ \A m \in 1..c : g[m] = Hash!NextPrime(g[m-1])
  BY <1>1, <1>2, <1>3 DEF Recursion
<1>5. g = Body(g)
  <2>1. \A m \in 0..c : m # 0 => m \in 1..c
    OBVIOUS
  <2> QED BY <1>2, <1>4, <2>1
<1>6. f = Body(f)
  <2> HIDE DEF Body
  <2> QED BY <1>5
<1>7. Hash!NthPrimeAfter(start, c) = f[c]
  BY DEF Hash!NthPrimeAfter
<1> HIDE DEF f
<1>8. f[0] = start /\ \A m \in 1..c : f[m] = Hash!NextPrime(f[m-1])
  BY <1>6
<1>9. \A m \in 0..c : f[m] = g[m]
  <2> DEFINE D == {m \in 0..c : f[m] = g[m]}
  <2>1. 0 \in D
    BY <1>4, <1>8
  <2>2. ASSUME NEW m \in 1..c, m - 1 \in D PROVE m \in D
    <3>1. m \in 0..c /\ f[m-1] = g[m-1]
      BY <2>2
    <3> QED BY <1>4, <1>8, <3>1
  <2>3. \A m \in 0..c : m \in D
    <3> HIDE DEF D
    <3> QED BY <2>1, <2>2, IntervalInduction
  <2> QED BY <2>3
<1>10. f[c] = g[c]
  BY <1>9
<1> QED BY <1>4, <1>7, <1>10, g \in [0..c -> Nat]

LEMMA PrimesAscend ==
  ASSUME PrimesAreMet, NEW start \in Nat, NEW b \in Nat, NEW c \in Nat, b < c
  PROVE  /\ Hash!NthPrimeAfter(start, c) \in Nat /\ Hash!NthPrimeAfter(start, b) \in Nat
         /\ Hash!IsPrime64(Hash!NthPrimeAfter(start, c))
         /\ start < Hash!NthPrimeAfter(start, c)
         /\ Hash!NthPrimeAfter(start, b) < Hash!NthPrimeAfter(start, c)
<1>1. PICK p \in [0..c -> Nat] :
        /\ p[0] = start /\ \A m \in 1..c : p[m] = Hash!NextPrime(p[m-1])
        /\ Hash!NthPrimeAfter(start, c) = p[c]
  BY PrimesFollow
<1>2. PICK q \in [0..b -> Nat] :
        /\ q[0] = start /\ \A m \in 1..b : q[m] = Hash!NextPrime(q[m-1])
        /\ Hash!NthPrimeAfter(start, b) = q[b]
  BY PrimesFollow
<1>3. \A m \in 0..b : q[m] = p[m]
  <2> DEFINE D == {m \in 0..b : q[m] = p[m]}
  <2>1. 0 \in D
    BY <1>1, <1>2
  <2>2. ASSUME NEW m \in 1..b, m - 1 \in D PROVE m \in D
    <3>1. m \in 0..b /\ m \in 1..c /\ q[m-1] = p[m-1]
      BY <2>2
    <3> QED BY <1>1, <1>2, <3>1
  <2>3. \A m \in 0..b : m \in D
    <3> HIDE DEF D
    <3> QED BY <2>1, <2>2, IntervalInduction
  <2> QED BY <2>3
<1>4. ASSUME NEW m \in 1..c PROVE p[m] \in Nat /\ p[m-1] \in Nat /\ p[m-1] < p[m] /\ Hash!IsPrime64(p[m])
  <2>1. m \in 0..c /\ m - 1 \in 0..c /\ p[m] = Hash!NextPrime(p[m-1])
    BY <1>1
  <2>2. p[m-1] \in Nat
    BY <2>1
  <2> QED BY <2>1, <2>2, NextPrimeIs
<1>5. \A i, j \in 0..c : i <= j => p[i] <= p[j]
  <2>1. (\A m \in 0..c : p[m] \in Nat) /\ \A m \in 1..c : p[m-1] <= p[m]
    BY <1>4
  <2> QED BY <2>1, StepsAscend
<1>6. /\ b \in 0..c-1 /\ c - 1 \in 0..c /\ c \in 1..c /\ 0 \in 0..c /\ b \in 0..c /\ b \in 0..b
      /\ b <= c - 1 /\ 0 <= c - 1
  OBVIOUS
<1>7. p[b] <= p[c-1] /\ start <= p[c-1] /\ p[c-1] < p[c] /\ q[b] = p[b]
  BY <1>1, <1>3, <1>4, <1>5, <1>6
<1>8. p[b] \in Nat /\ p[c-1] \in Nat /\ p[c] \in Nat
  BY <1>6
<1> QED BY <1>1, <1>2, <1>4, <1>6, <1>7, <1>8

LEMMA HeadsAreNumbered ==
  ASSUME NEW n \in Nat, NEW l1 \in Nat, NEW l2 \in Nat, NEW h1 \in 0..n-1, NEW h2 \in 0..n-1,
         l1 * n + h1 = l2 * n + h2
  PROVE  l1 = l2 /\ h1 = h2
<1>1. ASSUME NEW a \in Nat, NEW b \in Nat, a < b PROVE a * n + n <= b * n
  <2>1. PICK d \in Nat : b = a + 1 + d
    <3>1. b - a - 1 \in Nat /\ b = a + 1 + (b - a - 1)
      BY <1>1
    <3> QED BY <3>1
  <2>2. b * n = a * n + n + d * n /\ d * n \in Nat /\ a * n \in Nat
    BY <2>1
  <2> QED BY <2>2
<1>2. l1 * n \in Nat /\ l2 * n \in Nat
  OBVIOUS
<1>3. ~(l1 < l2)
  BY <1>1, <1>2
<1>4. ~(l2 < l1)
  BY <1>1, <1>2
<1> QED BY <1>2, <1>3, <1>4

(* PLENGramEmbedding divides every table into partitions that follow one   *)
(* another, of prime sizes no smaller than the base, and no size is that   *)
(* of another head, for every number of heads and layers.                  *)
THEOREM HeadsStayApart ==
  ASSUME PrimesAreMet, MaxLayers \in Nat, NEW base \in Nat \ {0}, NEW heads \in Nat
  PROVE  HeadsApart(base, heads)
<1> DEFINE size(l, h) == Hash!NthPrimeAfter(base - 1, l * heads + h + 1)
           sizes(l) == Hash!HeadSizes(base, heads, l)
<1>1. ASSUME NEW l \in 0..MaxLayers-1, NEW h \in 0..heads-1
      PROVE  sizes(l)[h] = size(l, h) /\ l * heads + h + 1 \in Nat /\ l * heads + h + 1 > 0
  <2>1. l * heads \in Nat
    BY SMT
  <2> QED BY <2>1 DEF Hash!HeadSizes, Hash!HeadSize
<1>2. base - 1 \in Nat
  OBVIOUS
<1>3. ASSUME NEW l \in 0..MaxLayers-1, NEW h \in 0..heads-1
      PROVE  sizes(l)[h] \in Nat /\ Hash!IsPrime64(sizes(l)[h]) /\ sizes(l)[h] >= base
  <2> DEFINE c == l * heads + h + 1
             s == Hash!NthPrimeAfter(base - 1, c)
  <2>1. c \in Nat /\ 0 < c /\ sizes(l)[h] = s
    BY <1>1
  <2> HIDE DEF c, sizes
  <2>2. s \in Nat /\ Hash!IsPrime64(s) /\ base - 1 < s
    BY <1>2, <2>1, 0 \in Nat, PrimesAscend
  <2> HIDE DEF s
  <2> QED BY <2>1, <2>2
<1>4. ASSUME NEW l1 \in 0..MaxLayers-1, NEW l2 \in 0..MaxLayers-1, NEW h1 \in 0..heads-1, NEW h2 \in 0..heads-1,
             sizes(l1)[h1] = sizes(l2)[h2]
      PROVE  <<l1, h1>> = <<l2, h2>>
  <2> DEFINE c1 == l1 * heads + h1 + 1
             c2 == l2 * heads + h2 + 1
             s1 == Hash!NthPrimeAfter(base - 1, c1)
             s2 == Hash!NthPrimeAfter(base - 1, c2)
  <2>1. c1 \in Nat /\ c2 \in Nat /\ s1 = s2
    BY <1>1, <1>4
  <2>2. c1 = c2
    <3> HIDE DEF c1, c2
    <3>1. c1 < c2 => s1 \in Nat /\ s2 \in Nat /\ s1 < s2
      BY <1>2, <2>1, PrimesAscend
    <3>2. c2 < c1 => s1 \in Nat /\ s2 \in Nat /\ s2 < s1
      BY <1>2, <2>1, PrimesAscend
    <3> HIDE DEF s1, s2
    <3> QED BY <2>1, <3>1, <3>2
  <2>3. l1 * heads + h1 = l2 * heads + h2
    <3>1. l1 * heads \in Int /\ l2 * heads \in Int
      BY SMT
    <3> QED BY <2>2, <3>1
  <2>4. l1 = l2 /\ h1 = h2
    BY <2>3, HeadsAreNumbered
  <2> QED BY <2>4
<1>5. ASSUME NEW l \in 0..MaxLayers-1, NEW h \in 0..heads-1
      PROVE  Hash!HeadOffsets(sizes(l), heads)[h] + sizes(l)[h] = Hash!HeadOffsets(sizes(l), heads)[h + 1]
  <2> DEFINE s == sizes(l)
  <2>1. \A i \in 0..heads-1 : s[i] \in Nat \ {0}
    BY <1>3
  <2> HIDE DEF s
  <2>2. \A i \in 0..heads-1 : /\ Hash!HeadOffsets(s, heads)[i] \in Int
                              /\ Hash!HeadOffsets(s, heads)[i+1] = Hash!HeadOffsets(s, heads)[i] + s[i]
    BY <2>1, OffsetsAre
  <2> QED BY <2>2 DEF s
<1> HIDE DEF sizes
<1>6. \A l1, l2 \in 0..MaxLayers-1 : \A h1, h2 \in 0..heads-1 :
        /\ Hash!IsPrime64(sizes(l1)[h1]) /\ sizes(l1)[h1] >= base
        /\ <<l1, h1>> # <<l2, h2>> => sizes(l1)[h1] # sizes(l2)[h2]
        /\ Hash!HeadOffsets(sizes(l1), heads)[h1] + sizes(l1)[h1] = Hash!HeadOffsets(sizes(l1), heads)[h1 + 1]
  BY <1>3, <1>4, <1>5
<1> QED BY <1>6 DEF HeadsApart, sizes
=============================================================================
