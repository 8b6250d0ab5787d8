-------------------------- MODULE ShortConv_proofs ---------------------------
(***************************************************************************)
(* The convolution serves every request its own history: for any number    *)
(* of requests and slots, any kernel size, dilation, number of drafts,     *)
(* batch, padding, and order of the programs of a launch.                  *)
(***************************************************************************)
EXTENDS ShortConv, TokenSearch_proofs, SequenceTheorems, FiniteSetTheorems

KindNames == {"spec", "decode", "prefill"}
Chunks    == [req : Reqs, kind : KindNames, len : Nat \ {0}]

(* What the scheduler makes, seen from the dispatch                        *)
BatchOk(b) ==
  /\ b \in Seq(Chunks) /\ b # << >>
  /\ InOrder(b)
  /\ \A i \in 1..Len(b) :
       /\ b[i].req \in Live
       /\ b[i].kind = "spec" => phase[b[i].req] # "new" /\ b[i].len <= SpecQueryLen
       /\ b[i].kind # "spec" => phase[b[i].req] # "spec"
       /\ b[i].kind = "decode" => b[i].len = 1

-----------------------------------------------------------------------------
(* Rows, groups and starts                                                 *)

LEMMA ChunksAre ==
  ASSUME NEW b, BatchOk(b)
  PROVE  /\ Len(b) \in Nat \ {0}
         /\ \A i \in 1..Len(b) : /\ b[i] \in Chunks /\ b[i].req \in Reqs /\ b[i].kind \in KindNames
                                 /\ b[i].len \in Nat /\ b[i].len >= 1
<1>1. b \in Seq(Chunks) /\ b # << >>
  BY DEF BatchOk
<1>2. Len(b) \in Nat /\ Len(b) # 0
  BY <1>1, LenProperties, EmptySeq
<1>3. \A i \in 1..Len(b) : b[i] \in Chunks
  BY <1>1, ElementOfSeq
<1> QED BY <1>2, <1>3 DEF Chunks

(* The starts of a list of chunks, after which p empty requests follow     *)
StartsOk(s, b, members, p) ==
  LET n == Len(members)
  IN  /\ s \in [0..n+p -> Nat] /\ s[0] = 0
      /\ \A i \in 1..n : s[i] = s[i-1] + b[members[i]].len
      /\ \A i \in n..n+p : s[i] = s[n]
      /\ \A i, j \in 0..n+p : i <= j => s[i] <= s[j]

LEMMA StartsAre ==
  ASSUME NEW b, NEW members, Len(members) \in Nat, NEW p \in Nat,
         \A i \in 1..Len(members) : b[members[i]].len \in Nat
  PROVE  StartsOk(Starts(b, members, p), b, members, p)
<1> DEFINE n == Len(members)
           N == n + p
           size == [i \in 1..N |-> IF i <= n THEN b[members[i]].len ELSE 0]
           Direct(g) == [i \in 0..N |-> IF i = 0 THEN 0 ELSE g[i-1] + (IF i <= n THEN b[members[i]].len ELSE 0)]
           s == Starts(b, members, p)
<1>1. N \in Nat /\ n \in Nat /\ \A i \in 1..N : size[i] \in Nat
  OBVIOUS
<1>2. s = CHOOSE g : g = Direct(g)
  BY DEF Starts
<1>3. \A i \in 1..N : size[i] = IF i <= n THEN b[members[i]].len ELSE 0
  OBVIOUS
<1> HIDE DEF s, size, N, n
<1>4. \E g : g = Direct(g)
  <2>1. PICK g \in [0..N -> Nat] : Places(g, size, N)
    BY <1>1, PlacesExist
  <2>2. \A i \in 0..N : g[i] = IF i = 0 THEN 0 ELSE g[i-1] + (IF i <= n THEN b[members[i]].len ELSE 0)
    <3>1. \A i \in 0..N : i # 0 => i \in 1..N
      BY <1>1
    <3> QED BY <1>3, <2>1, <3>1 DEF Places
  <2>3. g = Direct(g)
    BY <2>1, <2>2
  <2> QED BY <2>3
<1>5. s = Direct(s)
  <2> HIDE DEF Direct
  <2> QED BY <1>2, <1>4
<1>6. s[0] = 0 /\ \A i \in 1..N : s[i] = s[i-1] + size[i]
  BY <1>1, <1>3, <1>5, SMTT(60)
<1>7. Places(s, size, N) /\ \A i, j \in 0..N : i <= j => s[i] <= s[j]
  BY <1>1, <1>6, PlacesAre
<1>8. s \in [0..N -> Nat]
  BY <1>5, <1>7 DEF Places
<1>9. \A i \in 1..n : s[i] = s[i-1] + b[members[i]].len
  <2>1. \A i \in 1..n : i \in 1..N /\ i <= n
    BY <1>1 DEF N
  <2> QED BY <1>3, <1>6, <2>1
<1>10. \A i \in n..N : s[i] = s[n]
  <2> DEFINE D == {k \in 0..p : s[n + k] = s[n]}
  <2>1. 0 \in D
    BY <1>1
  <2>2. ASSUME NEW k \in 1..p, k - 1 \in D PROVE k \in D
    <3>1. n + k \in 1..N /\ ~(n + k <= n) /\ (n + k) - 1 = n + (k - 1) /\ n + (k - 1) \in 0..N
      BY <1>1 DEF N
    <3>2. s[n + k] = s[n + (k - 1)] + 0 /\ s[n + (k - 1)] \in Nat
      BY <1>3, <1>6, <1>8, <3>1
    <3> QED BY <2>2, <3>2
  <2>3. \A k \in 0..p : k \in D
    <3> HIDE DEF D
    <3> QED BY <2>1, <2>2, IntervalInduction
  <2>4. ASSUME NEW i \in n..N PROVE s[i] = s[n]
    <3>1. i - n \in 0..p /\ n + (i - n) = i
      BY <1>1 DEF N
    <3> QED BY <2>3, <3>1
  <2> QED BY <2>4
<1> QED BY <1>6, <1>7, <1>8, <1>9, <1>10 DEF StartsOk, s, N, n

(* A function that joins the parts, as both RowsOf and RowNumbers do       *)
LEMMA JoinedAre ==
  ASSUME NEW S, NEW n \in Nat, NEW part, NEW size, Parts(part, size, n, S),
         NEW s, Places(s, size, n), NEW f, f = CHOOSE g : g = [i \in 0..n |-> IF i = 0 THEN << >> ELSE g[i-1] \o part[i]]
  PROVE  Joined(f, part, size, s, S, n)
<1> DEFINE Direct(g) == [i \in 0..n |-> IF i = 0 THEN << >> ELSE g[i-1] \o part[i]]
<1>1. \E g : g = Direct(g)
  <2>1. PICK g \in [0..n -> Seq(S)] : Joins(g, part, n)
    BY JoinExists DEF Parts
  <2>2. \A i \in 0..n : g[i] = IF i = 0 THEN << >> ELSE g[i-1] \o part[i]
    <3>1. \A i \in 0..n : i # 0 => i \in 1..n
      OBVIOUS
    <3> QED BY <2>1, <3>1 DEF Joins
  <2>3. g = Direct(g)
    BY <2>1, <2>2
  <2> QED BY <2>3
<1>2. f = Direct(f)
  <2>1. f = CHOOSE g : g = Direct(g)
    OBVIOUS
  <2> HIDE DEF Direct
  <2> QED BY <1>1, <2>1, ZenonT(60)
<1>3. Joins(f, part, n)
  <2>1. \A i \in 0..n : f[i] = IF i = 0 THEN << >> ELSE f[i-1] \o part[i]
    BY <1>2
  <2>2. 0 \in 0..n /\ \A i \in 1..n : i \in 0..n /\ i # 0
    OBVIOUS
  <2> QED BY <2>1, <2>2, ZenonT(60) DEF Joins
<1>4. n \in 0..n
  OBVIOUS
<1> QED BY <1>3, <1>4, JoinIs

(* Where chunk i begins in the batch, and with it the batch's rows.        *)
First(b) == Starts(b, [i \in 1..Len(b) |-> i], 0)

LEMMA FirstIs ==
  ASSUME NEW b, BatchOk(b)
  PROVE  /\ First(b) \in [0..Len(b) -> Nat] /\ First(b)[0] = 0
         /\ \A i \in 1..Len(b) : First(b)[i] = First(b)[i-1] + b[i].len
         /\ \A i, j \in 0..Len(b) : i <= j => First(b)[i] <= First(b)[j]
<1> DEFINE n == Len(b)
           all == [i \in 1..n |-> i]
<1>1. n \in Nat /\ \A i \in 1..n : b[i] \in Chunks /\ b[i].len \in Nat
  BY ChunksAre
<1>2. Len(all) = n /\ \A i \in 1..n : all[i] = i
  <2>1. all \in Seq(Nat) /\ Len(all) = n
    BY <1>1
  <2> QED BY <2>1
<1> HIDE DEF all, n
<1>3. \A i \in 1..Len(all) : b[all[i]].len \in Nat
  BY <1>1, <1>2
<1>4. First(b) = Starts(b, all, 0)
  BY DEF First, all, n
<1> DEFINE s == Starts(b, all, 0)
<1>5. /\ s \in [0..n+0 -> Nat] /\ s[0] = 0
      /\ \A i \in 1..n : s[i] = s[i-1] + b[all[i]].len
      /\ \A i, j \in 0..n+0 : i <= j => s[i] <= s[j]
  <2>1. 0 \in Nat
    OBVIOUS
  <2>2. Len(all) \in Nat
    BY <1>1, <1>2
  <2>3. StartsOk(s, b, all, 0)
    BY <1>3, <2>1, <2>2, StartsAre
  <2> HIDE DEF s
  <2> QED BY <1>2, <2>3 DEF StartsOk
<1>6. n + 0 = n
  BY <1>1
<1> HIDE DEF s
<1> QED BY <1>2, <1>4, <1>5, <1>6 DEF s, n

LEMMA RowsAre ==
  ASSUME NEW b, BatchOk(b)
  PROVE  /\ RowsOf(b) \in Seq(Nat \X Nat) /\ Len(RowsOf(b)) = First(b)[Len(b)]
         /\ \A i \in 1..Len(b) : \A j \in 1..b[i].len : RowsOf(b)[First(b)[i-1] + j] = <<i, j - 1>>
<1> DEFINE n == Len(b)
           Run(i) == [j \in 1..b[i].len |-> <<i, j - 1>>]
           part == [i \in 1..n |-> Run(i)]
           size == [i \in 1..n |-> b[i].len]
           S == Nat \X Nat
           s == First(b)
           Direct(g) == [i \in 0..n |-> IF i = 0 THEN << >> ELSE g[i-1] \o Run(i)]
           f == CHOOSE g : g = Direct(g)
<1>1. n \in Nat /\ \A i \in 1..n : b[i].len \in Nat
  BY ChunksAre
<1>2. Parts(part, size, n, S)
  <2>1. ASSUME NEW i \in 1..n PROVE part[i] \in Seq(S) /\ Len(part[i]) = size[i] /\ size[i] \in Nat
    <3>1. b[i].len \in Nat /\ i \in Nat
      BY <1>1
    <3>2. \A j \in 1..b[i].len : <<i, j - 1>> \in S
      BY <3>1
    <3>3. Run(i) \in [1..b[i].len -> S]
      BY <3>2
    <3>4. part[i] = Run(i) /\ size[i] = b[i].len
      OBVIOUS
    <3> HIDE DEF Run, S, part, size
    <3> QED BY <3>1, <3>3, <3>4
  <2> QED BY <2>1 DEF Parts
<1>3. Places(s, size, n)
  BY <1>1, FirstIs DEF Places
<1>4. \A g : Direct(g) = [i \in 0..n |-> IF i = 0 THEN << >> ELSE g[i-1] \o part[i]]
  <2>1. \A i \in 0..n : i # 0 => part[i] = Run(i)
    BY <1>1, SMTT(60)
  <2> HIDE DEF Run, part
  <2> QED BY <2>1
<1>5. f = CHOOSE g : g = [i \in 0..n |-> IF i = 0 THEN << >> ELSE g[i-1] \o part[i]]
  <2> HIDE DEF part, Run
  <2> QED BY <1>4
<1>6. Joined(f, part, size, s, S, n)
  <2> HIDE DEF f, part, size, s, S, n
  <2> QED BY <1>1, <1>2, <1>3, <1>5, JoinedAre
<1>7. RowsOf(b) = f[n]
  BY DEF RowsOf
<1>8. \A i \in 1..n : size[i] = b[i].len /\ \A j \in 1..b[i].len : part[i][j] = <<i, j - 1>>
  OBVIOUS
<1> HIDE DEF f, part, size, s, S, n
<1>9. f[n] \in Seq(S) /\ Len(f[n]) = s[n] /\ \A k \in 1..n : \A j \in 1..size[k] : f[n][s[k-1]+j] = part[k][j]
  BY <1>6 DEF Joined
<1>10. \A k \in 1..n : \A j \in 1..b[k].len : f[n][s[k-1]+j] = <<k, j - 1>>
  BY <1>8, <1>9
<1> QED BY <1>7, <1>9, <1>10 DEF s, S, n

(* Every row of the batch is one token of one chunk.                       *)
IsRow(b, w) ==
  \E i \in 1..Len(b) : \E j \in 1..b[i].len : w = First(b)[i-1] + j /\ RowsOf(b)[w] = <<i, j - 1>>

LEMMA RowIs ==
  ASSUME NEW b, BatchOk(b), NEW w \in 1..Len(RowsOf(b))
  PROVE  IsRow(b, w)
<1> DEFINE n == Len(b)
           s == First(b)
<1>1. n \in Nat /\ \A i \in 1..n : b[i].len \in Nat
  BY ChunksAre
<1>2. /\ s[0] = 0 /\ \A i \in 0..n : s[i] \in Nat
      /\ \A i \in 1..n : s[i] = s[i-1] + b[i].len
  BY FirstIs
<1>3. Len(RowsOf(b)) = s[n]
  BY RowsAre
<1> HIDE DEF n, s
<1>4. w - 1 \in Nat /\ w - 1 < s[n]
  <2>1. n \in 0..n
    BY <1>1
  <2> QED BY <1>2, <1>3, <2>1
<1>5. PICK i \in 1..n : s[i-1] <= w - 1 /\ w - 1 < s[i]
  BY <1>1, <1>2, <1>4, Located
<1>6. s[i-1] \in Nat /\ s[i] = s[i-1] + b[i].len /\ b[i].len \in Nat
  <2>1. i - 1 \in 0..n
    BY <1>1
  <2> QED BY <1>1, <1>2, <2>1
<1> DEFINE j == w - s[i-1]
<1>7. j \in 1..b[i].len /\ w = s[i-1] + j
  BY <1>4, <1>5, <1>6, SMTT(60)
<1>8. RowsOf(b)[s[i-1] + j] = <<i, j - 1>>
  <2> HIDE DEF j
  <2> QED BY <1>7, RowsAre DEF s, n
<1> QED BY <1>7, <1>8 DEF IsRow, s, n

(* The chunks of a kind, each once, in the order of the batch.             *)
Listed(b, kind, members) ==
  /\ members \in Seq(1..Len(b))
  /\ \A m \in 1..Len(members) : b[members[m]].kind = kind
  /\ \A k, m \in 1..Len(members) : k < m => members[k] < members[m]
  /\ \A i \in 1..Len(b) : b[i].kind = kind => \E m \in 1..Len(members) : members[m] = i

LEMMA GroupIs ==
  ASSUME NEW b, BatchOk(b), NEW kind
  PROVE  Listed(b, kind, Group(b, kind))
<1> DEFINE n == Len(b)
           T == Seq(1..n)
           none == << >>
           Next1(v, i) == IF b[i].kind = kind THEN Append(v, i) ELSE v
           step == [i \in 1..n |-> [v \in T |-> Next1(v, i)]]
           Direct(g) == [i \in 0..n |-> IF i = 0 THEN << >> ELSE IF b[i].kind = kind THEN Append(g[i-1], i) ELSE g[i-1]]
           f == CHOOSE g : g = Direct(g)
           Some(v, i) ==
             /\ v \in T /\ Len(v) \in Nat
             /\ \A m \in 1..Len(v) : b[v[m]].kind = kind /\ v[m] <= i /\ v[m] \in 1..n
             /\ \A k, m \in 1..Len(v) : k < m => v[k] < v[m]
             /\ \A h \in 1..i : b[h].kind = kind => \E m \in 1..Len(v) : v[m] = h
<1>1. n \in Nat
  BY ChunksAre
<1>2. step \in [1..n -> [T -> T]] /\ none \in T
  <2>1. ASSUME NEW i \in 1..n, NEW v \in T PROVE Next1(v, i) \in T
    BY AppendProperties
  <2> HIDE DEF Next1, T
  <2>2. \A i \in 1..n : [v \in T |-> Next1(v, i)] \in [T -> T]
    BY <2>1
  <2>3. none \in T
    BY DEF T
  <2> QED BY <2>2, <2>3
<1>3. \E g : g = Direct(g)
  <2>1. PICK g \in [0..n -> T] : Recursion(g, n, none, step)
    <3> HIDE DEF step, none, T, n
    <3> QED BY <1>1, <1>2, RecursionExists
  <2>2. g[0] = << >> /\ \A k \in 1..n : g[k] = step[k][g[k-1]]
    BY <2>1 DEF Recursion
  <2>3. \A k \in 1..n : step[k][g[k-1]] = Next1(g[k-1], k)
    <3>1. \A k \in 1..n : g[k-1] \in T
      <4>1. \A k \in 1..n : k - 1 \in 0..n
        BY <1>1
      <4> HIDE DEF T
      <4> QED BY <2>1, <4>1
    <3> HIDE DEF T, Next1
    <3> QED BY <3>1
  <2> HIDE DEF step, T
  <2>4. \A k \in 0..n : g[k] = IF k = 0 THEN << >> ELSE IF b[k].kind = kind THEN Append(g[k-1], k) ELSE g[k-1]
    <3>1. \A k \in 0..n : k # 0 => k \in 1..n
      BY <1>1
    <3> QED BY <2>2, <2>3, <3>1
  <2>5. g = Direct(g)
    BY <2>1, <2>4
  <2> QED BY <2>5
<1>4. f = Direct(f)
  <2> HIDE DEF Direct
  <2> QED BY <1>3
<1>5. f[0] = << >> /\ \A k \in 1..n : f[k] = IF b[k].kind = kind THEN Append(f[k-1], k) ELSE f[k-1]
  <2>1. \A k \in 0..n : f[k] = IF k = 0 THEN << >> ELSE IF b[k].kind = kind THEN Append(f[k-1], k) ELSE f[k-1]
    <3> HIDE DEF f
    <3> QED BY <1>4
  <2>2. 0 \in 0..n /\ \A k \in 1..n : k \in 0..n /\ k # 0
    BY <1>1
  <2> HIDE DEF f, Direct
  <2> QED BY <2>1, <2>2
<1>6. Group(b, kind) = f[n]
  BY DEF Group
<1> HIDE DEF f, Direct, step
<1> DEFINE D == {i \in 0..n : Some(f[i], i)}
<1>7. 0 \in D
  <2>1. f[0] = << >> /\ << >> \in T /\ Len(<< >>) = 0
    BY <1>5
  <2> HIDE DEF T
  <2> QED BY <1>1, <2>1
<1>8. ASSUME NEW k \in 1..n, k - 1 \in D PROVE k \in D
  <2> DEFINE v == f[k-1]
             w == f[k]
  <2>1. Some(v, k - 1) /\ k \in Nat
    BY <1>8
  <2>2. w = IF b[k].kind = kind THEN Append(v, k) ELSE v
    BY <1>5
  <2> HIDE DEF v, w, n
  <2>3. CASE b[k].kind = kind
    <3> DEFINE z == Len(v)
    <3>1. w \in T /\ Len(w) = z + 1 /\ z \in Nat /\ (\A m \in 1..z : w[m] = v[m]) /\ w[z + 1] = k
      <4>1. w = Append(v, k) /\ v \in T /\ k \in 1..n
        BY <2>1, <2>2, <2>3
      <4> QED BY <4>1, AppendProperties
    <3> HIDE DEF z
    <3>2. \A m \in 1..z : b[v[m]].kind = kind /\ v[m] <= k - 1 /\ v[m] \in 1..n
      BY <2>1 DEF z
    <3>3. \A m \in 1..z+1 : b[w[m]].kind = kind /\ w[m] <= k /\ w[m] \in 1..n
      <4> SUFFICES ASSUME NEW m \in 1..z+1 PROVE b[w[m]].kind = kind /\ w[m] <= k /\ w[m] \in 1..n
        OBVIOUS
      <4>1. CASE m = z + 1
        BY <2>1, <2>3, <3>1, <4>1
      <4>2. CASE m # z + 1
        <5>1. m \in 1..z
          BY <3>1, <4>2
        <5>2. v[m] \in Nat /\ w[m] = v[m] /\ b[v[m]].kind = kind /\ v[m] <= k - 1 /\ v[m] \in 1..n
          BY <3>1, <3>2, <5>1
        <5> QED BY <2>1, <5>2
      <4> QED BY <4>1, <4>2
    <3>4. \A h, m \in 1..z+1 : h < m => w[h] < w[m]
      <4> SUFFICES ASSUME NEW h \in 1..z+1, NEW m \in 1..z+1, h < m PROVE w[h] < w[m]
        OBVIOUS
      <4>1. h \in 1..z /\ w[h] = v[h] /\ v[h] <= k - 1 /\ v[h] \in 1..n
        BY <3>1, <3>2
      <4>2. CASE m = z + 1
        BY <2>1, <3>1, <4>1, <4>2
      <4>3. CASE m # z + 1
        <5>1. m \in 1..z
          BY <3>1, <4>3
        <5> QED BY <2>1, <3>1, <4>1, <5>1 DEF z
      <4> QED BY <4>2, <4>3
    <3>5. ASSUME NEW h \in 1..k, b[h].kind = kind PROVE \E m \in 1..z+1 : w[m] = h
      <4>1. CASE h = k
        <5>1. z + 1 \in 1..z+1
          BY <3>1
        <5> QED BY <3>1, <4>1, <5>1
      <4>2. CASE h # k
        <5>1. h \in 1..k-1
          BY <4>2
        <5>2. PICK m \in 1..z : v[m] = h
          BY <2>1, <3>5, <5>1 DEF z
        <5>3. m \in 1..z+1
          BY <3>1
        <5> QED BY <3>1, <5>2, <5>3
      <4> QED BY <4>1, <4>2
    <3>6. Len(w) \in Nat
      BY <3>1
    <3>7. Some(w, k)
      BY <3>1, <3>3, <3>4, <3>5, <3>6
    <3>8. k \in 0..n
      BY <1>1
    <3> QED BY <3>7, <3>8 DEF w
  <2>4. CASE b[k].kind # kind
    <3>1. w = v
      BY <2>2, <2>4
    <3>2. \A m \in 1..Len(v) : v[m] <= k
      <4>1. \A m \in 1..Len(v) : v[m] <= k - 1 /\ v[m] \in 1..n
        BY <2>1
      <4> QED BY <2>1, <4>1
    <3>3. \A h \in 1..k : b[h].kind = kind => h \in 1..k-1
      BY <2>4
    <3>4. Some(v, k)
      BY <2>1, <3>2, <3>3
    <3>5. k \in 0..n
      BY <1>1
    <3> QED BY <3>1, <3>4, <3>5 DEF w
  <2> QED BY <2>3, <2>4
<1>9. Some(f[n], n)
  <2>1. \A k \in 0..n : k \in D
    <3> HIDE DEF D, n
    <3> QED BY <1>1, <1>7, <1>8, IntervalInduction
  <2>2. n \in 0..n
    BY <1>1
  <2> HIDE DEF Some
  <2> QED BY <2>1, <2>2
<1> QED BY <1>6, <1>9 DEF Listed

(* The starts of a group, which its kernel launch is given                 *)
LEMMA GroupStarts ==
  ASSUME NEW b, BatchOk(b), NEW kind, NEW members, Listed(b, kind, members), NEW p \in Nat
  PROVE  /\ Len(members) \in Nat /\ \A m \in 1..Len(members) : members[m] \in 1..Len(b)
         /\ StartsOk(Starts(b, members, p), b, members, p)
<1>1. Len(members) \in Nat /\ \A m \in 1..Len(members) : members[m] \in 1..Len(b)
  <2>1. members \in Seq(1..Len(b))
    BY DEF Listed
  <2> QED BY <2>1, LenProperties, ElementOfSeq
<1>2. \A i \in 1..Len(members) : b[members[i]].len \in Nat
  BY <1>1, ChunksAre
<1> QED BY <1>1, <1>2, StartsAre

LEMMA RowNumbersAre ==
  ASSUME NEW b, BatchOk(b), NEW kind, NEW members, Listed(b, kind, members), NEW p \in Nat
  PROVE  LET n == Len(members)
             s == Starts(b, members, p)
             real == RowNumbers(b, members)
         IN  /\ Len(real) = s[n]
             /\ \A m \in 1..n : \A j \in 1..b[members[m]].len :
                  real[s[m-1] + j] = First(b)[members[m] - 1] + j
<1> DEFINE n == Len(members)
           first == First(b)
           Run(m) == [j \in 1..b[members[m]].len |-> first[members[m] - 1] + j]
           part == [m \in 1..n |-> Run(m)]
           size == [m \in 1..n |-> b[members[m]].len]
           s == Starts(b, members, p)
           Direct(g) == [m \in 0..n |-> IF m = 0 THEN << >> ELSE g[m-1] \o Run(m)]
           f == CHOOSE g : g = Direct(g)
<1>1. /\ n \in Nat /\ \A m \in 1..n : members[m] \in 1..Len(b)
      /\ s \in [0..n+p -> Nat] /\ s[0] = 0
      /\ \A i \in 1..n : s[i] = s[i-1] + b[members[i]].len
  <2>1. n \in Nat /\ (\A m \in 1..n : members[m] \in 1..Len(b)) /\ StartsOk(s, b, members, p)
    BY GroupStarts
  <2> HIDE DEF s
  <2> QED BY <2>1 DEF StartsOk
<1>2. ASSUME NEW m \in 1..n PROVE /\ members[m] \in 1..Len(b) /\ members[m] - 1 \in 0..Len(b)
                                  /\ b[members[m]].len \in Nat
  BY <1>1, ChunksAre
<1>3. \A i \in 0..Len(b) : first[i] \in Nat
  BY FirstIs
<1>4. RowNumbers(b, members) = f[n]
  BY DEF RowNumbers, First
<1> HIDE DEF first, s, n
<1>5. Parts(part, size, n, Nat)
  <2>1. ASSUME NEW m \in 1..n PROVE part[m] \in Seq(Nat) /\ Len(part[m]) = size[m] /\ size[m] \in Nat
    <3>1. b[members[m]].len \in Nat /\ first[members[m] - 1] \in Nat
      BY <1>2, <1>3
    <3>2. \A j \in 1..b[members[m]].len : first[members[m] - 1] + j \in Nat
      BY <3>1
    <3>3. Run(m) \in [1..b[members[m]].len -> Nat]
      BY <3>2
    <3>4. part[m] = Run(m) /\ size[m] = b[members[m]].len
      OBVIOUS
    <3> HIDE DEF Run, part, size
    <3> QED BY <3>1, <3>3, <3>4
  <2> QED BY <2>1 DEF Parts
<1>6. Places(s, size, n)
  <2>1. \A i \in 0..n : i \in 0..n+p
    BY <1>1
  <2> QED BY <1>1, <2>1 DEF Places
<1>7. \A g : Direct(g) = [i \in 0..n |-> IF i = 0 THEN << >> ELSE g[i-1] \o part[i]]
  <2>1. \A i \in 0..n : i # 0 => part[i] = Run(i)
    BY <1>1, SMTT(60)
  <2> HIDE DEF Run, part
  <2> QED BY <2>1
<1>8. f = CHOOSE g : g = [i \in 0..n |-> IF i = 0 THEN << >> ELSE g[i-1] \o part[i]]
  <2> HIDE DEF part, Run
  <2> QED BY <1>7
<1>9. Joined(f, part, size, s, Nat, n)
  <2> HIDE DEF f, part, size
  <2> QED BY <1>1, <1>5, <1>6, <1>8, JoinedAre
<1>10. \A m \in 1..n : size[m] = b[members[m]].len
                       /\ \A j \in 1..b[members[m]].len : part[m][j] = first[members[m] - 1] + j
  OBVIOUS
<1> HIDE DEF f, part, size
<1>11. Len(f[n]) = s[n] /\ \A k \in 1..n : \A j \in 1..size[k] : f[n][s[k-1]+j] = part[k][j]
  BY <1>9 DEF Joined
<1>12. \A k \in 1..n : \A j \in 1..b[members[k]].len : f[n][s[k-1]+j] = first[members[k] - 1] + j
  BY <1>10, <1>11
<1> QED BY <1>4, <1>11, <1>12 DEF s, n, first

(* Cut from the end of the starts of decodes and prefills together and     *)
(* rebased, the prefills' starts are those of the prefills alone.          *)
LEMMA PrefillStartsAre ==
  ASSUME NEW b, BatchOk(b)
  PROVE  PrefillStarts(b) = Starts(b, Group(b, "prefill"), 0)
<1> DEFINE ds == Group(b, "decode")
           ps == Group(b, "prefill")
           both == ds \o ps
           d == Len(ds)
           n == Len(ps)
           s == Starts(b, ps, 0)
           all == Starts(b, both, 0)
<1>1. Listed(b, "decode", ds) /\ Listed(b, "prefill", ps)
  BY GroupIs
<1>2. /\ d \in Nat /\ n \in Nat /\ 0 \in Nat
      /\ s \in [0..n+0 -> Nat] /\ s[0] = 0 /\ \A i \in 1..n : s[i] = s[i-1] + b[ps[i]].len
  <2>1. 0 \in Nat
    OBVIOUS
  <2>2. d \in Nat
    BY <1>1, <2>1, GroupStarts
  <2>3. n \in Nat /\ StartsOk(s, b, ps, 0)
    BY <1>1, <2>1, GroupStarts
  <2> HIDE DEF s, ps
  <2> QED BY <2>1, <2>2, <2>3 DEF StartsOk
<1>3. /\ Len(both) = d + n /\ \A i \in 1..d : both[i] = ds[i]
      /\ \A i \in 1..n : both[d + i] = ps[i]
  <2>1. ds \in Seq(1..Len(b)) /\ ps \in Seq(1..Len(b))
    BY <1>1 DEF Listed
  <2>2. Len(both) = d + n /\ \A i \in 1..d+n : both[i] = IF i <= d THEN ds[i] ELSE ps[i - d]
    BY <2>1, ConcatProperties
  <2>3. \A i \in 1..n : d + i \in 1..d+n /\ ~(d + i <= d) /\ (d + i) - d = i
    BY <1>2
  <2>4. \A i \in 1..d : i \in 1..d+n /\ i <= d
    BY <1>2
  <2> HIDE DEF both, ds, ps, d, n
  <2> QED BY <2>2, <2>3, <2>4
<1>4. \A i \in 1..d : ds[i] \in 1..Len(b) /\ b[ds[i]].len = 1
  <2>1. \A i \in 1..d : ds[i] \in 1..Len(b) /\ b[ds[i]].kind = "decode"
    <3>1. ds \in Seq(1..Len(b)) /\ \A i \in 1..d : b[ds[i]].kind = "decode"
      BY <1>1 DEF Listed
    <3> QED BY <3>1, ElementOfSeq
  <2> QED BY <2>1 DEF BatchOk
<1>5. \A i \in 1..n : b[ps[i]].len \in Nat
  <2>1. ps \in Seq(1..Len(b))
    BY <1>1 DEF Listed
  <2> QED BY <2>1, ElementOfSeq, ChunksAre
<1> HIDE DEF ds, ps, both, d, n, s, all
<1>6. \A i \in 1..d+n : b[both[i]].len \in Nat
  <2> SUFFICES ASSUME NEW i \in 1..d+n PROVE b[both[i]].len \in Nat
    OBVIOUS
  <2>1. CASE i <= d
    <3>1. i \in 1..d
      BY <2>1
    <3>2. both[i] = ds[i] /\ b[ds[i]].len = 1
      BY <1>3, <1>4, <3>1
    <3> QED BY <3>2
  <2>2. CASE ~(i <= d)
    <3>1. i - d \in 1..n /\ d + (i - d) = i
      BY <1>2, <2>2
    <3> QED BY <1>3, <1>5, <3>1
  <2> QED BY <2>1, <2>2
<1>7. all[0] = 0 /\ \A i \in 1..d+n : all[i] = all[i-1] + b[both[i]].len
  <2>1. Len(both) \in Nat /\ \A i \in 1..Len(both) : b[both[i]].len \in Nat
    BY <1>2, <1>3, <1>6
  <2>2. StartsOk(all, b, both, 0)
    BY <1>2, <2>1, StartsAre DEF all
  <2> QED BY <1>3, <2>2 DEF StartsOk
<1>8. \A i \in 0..d : all[i] = i
  <2> DEFINE D == {i \in 0..d : all[i] = i}
  <2>1. 0 \in D
    BY <1>2, <1>7
  <2>2. ASSUME NEW k \in 1..d, k - 1 \in D PROVE k \in D
    <3>1. k \in 1..d+n
      BY <1>2
    <3>2. all[k] = all[k-1] + 1
      BY <1>3, <1>4, <1>7, <3>1
    <3> QED BY <2>2, <3>2
  <2>3. \A k \in 0..d : k \in D
    <3> HIDE DEF D
    <3> QED BY <1>2, <2>1, <2>2, IntervalInduction
  <2> QED BY <2>3
<1>9. \A i \in 0..n : all[d + i] = d + s[i]
  <2> DEFINE D == {i \in 0..n : all[d + i] = d + s[i]}
  <2>1. 0 \in D
    BY <1>2, <1>8
  <2>2. ASSUME NEW k \in 1..n, k - 1 \in D PROVE k \in D
    <3>1. d + k \in 1..d+n /\ (d + k) - 1 = d + (k - 1) /\ k - 1 \in 0..n+0
      BY <1>2
    <3>2. all[d + k] = all[d + (k - 1)] + b[ps[k]].len
      BY <1>3, <1>7, <3>1
    <3>3. s[k] = s[k-1] + b[ps[k]].len /\ s[k-1] \in Nat /\ b[ps[k]].len \in Nat
      BY <1>2, <1>5, <3>1
    <3> QED BY <1>2, <2>2, <3>2, <3>3
  <2>3. \A k \in 0..n : k \in D
    <3> HIDE DEF D
    <3> QED BY <1>2, <2>1, <2>2, IntervalInduction
  <2> QED BY <2>3
<1>10. PrefillStarts(b) = [i \in 0..n |-> all[d + i] - d]
  BY DEF PrefillStarts, ds, ps, both, d, n, all
<1>11. \A i \in 0..n : s[i] \in Nat /\ all[d + i] - d = s[i]
  <2>1. \A i \in 0..n : i \in 0..n+0
    BY <1>2
  <2> QED BY <1>2, <1>9, <2>1
<1>12. PrefillStarts(b) = [i \in 0..n |-> s[i]]
  BY <1>10, <1>11
<1>13. s = [i \in 0..n |-> s[i]]
  BY <1>2
<1> QED BY <1>12, <1>13 DEF s, ps

-----------------------------------------------------------------------------
(* A launch                                                                *)

(* A decode launch is padded by a null request per row.                    *)
PadsOk(kind, p, q) ==
  /\ p \in Nat /\ q \in Nat
  /\ kind = "prefill" => p = 0 /\ q = 0
  /\ kind = "decode" => p = q

(* What the kernels are given for the chunks of a kind: each has its slot, *)
(* counts and rows, the padding the null slot and rows past the batch's.   *)
LaunchOk(L, b, kind, p, q) ==
  LET members == Group(b, kind)
      n == Len(members)
  IN  /\ L.mode = kind /\ n \in Nat /\ L.n = n + p
      /\ \A m \in 1..n : members[m] \in 1..Len(b)
      /\ L.starts = Starts(b, members, p) /\ StartsOk(L.starts, b, members, p)
      /\ \A m \in 0..n-1 : /\ L.slots[m] = slot[b[members[m+1]].req]
                           /\ L.acc[m] = numAcc[b[members[m+1]].req]
                           /\ L.init[m] = (phase[b[members[m+1]].req] # "new")
      /\ \A m \in n..n+p-1 : L.slots[m] = Null
      /\ DOMAIN L.rows = 0..L.starts[n]+q-1
      /\ \A m \in 1..n : \A j \in 0..b[members[m]].len-1 :
           L.rows[L.starts[m-1] + j] = First(b)[members[m] - 1] + j + 1
      /\ \A t \in L.starts[n]..L.starts[n]+q-1 : L.rows[t] > Len(RowsOf(b))

LEMMA LaunchIs ==
  ASSUME NEW kernel, NEW b, BatchOk(b), NEW kind, NEW p, NEW q, PadsOk(kind, p, q)
  PROVE  LaunchOk(Launch(kernel, b, kind, p, q), b, kind, p, q)
<1> DEFINE L == Launch(kernel, b, kind, p, q)
           members == Group(b, kind)
           n == Len(members)
           s == Starts(b, members, p)
           real == RowNumbers(b, members)
           size == Len(RowsOf(b))
           R(m) == b[members[m+1]].req
<1>1. Listed(b, kind, members)
  BY GroupIs
<1>2. p \in Nat /\ q \in Nat
  BY DEF PadsOk
<1>3. n \in Nat /\ (\A m \in 1..n : members[m] \in 1..Len(b)) /\ StartsOk(s, b, members, p)
  BY <1>1, <1>2, GroupStarts
<1>4. Len(real) = s[n] /\ \A m \in 1..n : \A j \in 1..b[members[m]].len : real[s[m-1] + j] = First(b)[members[m] - 1] + j
  BY <1>1, <1>2, RowNumbersAre
<1>5. L.starts = s
  <2>1. CASE kind = "prefill"
    <3>1. L.starts = PrefillStarts(b)
      BY <2>1 DEF Launch
    <3>2. p = 0
      BY <2>1 DEF PadsOk
    <3> QED BY <2>1, <3>1, <3>2, PrefillStartsAre
  <2>2. CASE kind # "prefill"
    BY <2>2 DEF Launch
  <2> QED BY <2>1, <2>2
<1>6. L.mode = kind /\ L.n = n + p
  BY DEF Launch
<1>7. /\ L.slots = [i \in 0..n+p-1 |-> IF i < n THEN slot[R(i)] ELSE Null]
      /\ L.acc = [i \in 0..n+p-1 |-> IF i < n THEN numAcc[R(i)] ELSE 1]
      /\ L.init = [i \in 0..n+p-1 |-> i < n /\ phase[R(i)] # "new"]
      /\ L.rows = [t \in 0..Len(real)+q-1 |-> IF t < Len(real) THEN real[t+1] ELSE size + t + 1 - Len(real)]
  BY DEF Launch
<1>8. size \in Nat
  <2>1. RowsOf(b) \in Seq(Nat \X Nat)
    BY RowsAre
  <2> QED BY <2>1, LenProperties
<1> HIDE DEF L, n, s, real, size, members
<1>9. /\ s \in [0..n+p -> Nat] /\ s[0] = 0
      /\ \A i \in 1..n : s[i] = s[i-1] + b[members[i]].len
      /\ \A i, j \in 0..n+p : i <= j => s[i] <= s[j]
  BY <1>3 DEF StartsOk, n
<1>10. \A m \in 0..n-1 : /\ L.slots[m] = slot[R(m)] /\ L.acc[m] = numAcc[R(m)]
                         /\ L.init[m] = (phase[R(m)] # "new")
  <2>1. ASSUME NEW m \in 0..n-1 PROVE m \in 0..n+p-1 /\ m < n
    BY <1>2, <1>3
  <2> HIDE DEF R
  <2> QED BY <1>7, <2>1
<1>11. \A m \in n..n+p-1 : L.slots[m] = Null
  <2>1. ASSUME NEW m \in n..n+p-1 PROVE m \in 0..n+p-1 /\ ~(m < n)
    BY <1>2, <1>3
  <2> HIDE DEF R
  <2> QED BY <1>7, <2>1
<1>12. DOMAIN L.rows = 0..s[n]+q-1
  BY <1>4, <1>7
<1>13. s[n] \in Nat
  <2>1. n \in 0..n+p
    BY <1>2, <1>3
  <2> QED BY <1>9, <2>1
<1>14. ASSUME NEW m \in 1..n, NEW j \in 0..b[members[m]].len-1
       PROVE  L.rows[s[m-1] + j] = First(b)[members[m] - 1] + j + 1
  <2> DEFINE t == s[m-1] + j
             len == b[members[m]].len
  <2>1. len \in Nat /\ j \in Nat /\ j < len
    <3>1. members[m] \in 1..Len(b)
      BY <1>3
    <3>2. len \in Nat
      BY <3>1, ChunksAre
    <3> HIDE DEF len
    <3>3. j \in 0..len-1
      BY DEF len
    <3> QED BY <3>2, <3>3
  <2>2. s[m-1] \in Nat /\ s[m] = s[m-1] + len /\ s[m] <= s[n] /\ s[m] \in Nat
    <3>1. m - 1 \in 0..n+p /\ m \in 0..n+p /\ n \in 0..n+p /\ m <= n
      BY <1>2, <1>3
    <3> QED BY <1>9, <3>1
  <2> HIDE DEF len
  <2>3. t \in 0..s[n]+q-1 /\ t < s[n] /\ t + 1 = s[m-1] + (j + 1) /\ j + 1 \in 1..len
    BY <1>2, <1>13, <2>1, <2>2
  <2>4. L.rows[t] = real[t + 1]
    BY <1>4, <1>7, <2>3
  <2>5. real[s[m-1] + (j + 1)] = First(b)[members[m] - 1] + (j + 1)
    BY <1>4, <2>3 DEF len
  <2>6. First(b)[members[m] - 1] \in Nat
    <3>1. members[m] - 1 \in 0..Len(b)
      BY <1>3, ChunksAre
    <3> QED BY <3>1, FirstIs
  <2> QED BY <2>1, <2>3, <2>4, <2>5, <2>6
<1>15. ASSUME NEW t \in s[n]..s[n]+q-1 PROVE L.rows[t] > size
  <2>1. t \in 0..s[n]+q-1 /\ ~(t < s[n])
    BY <1>2, <1>13
  <2>2. L.rows[t] = size + t + 1 - s[n]
    BY <1>4, <1>7, <2>1
  <2> QED BY <1>8, <1>13, <2>1, <2>2
<1> QED
  <2> HIDE DEF R
  <2>1. StartsOk(L.starts, b, members, p) /\ DOMAIN L.rows = 0..L.starts[n]+q-1
    BY <1>3, <1>5, <1>12
  <2>2. \A m \in 1..n : \A j \in 0..b[members[m]].len-1 :
           L.rows[L.starts[m-1] + j] = First(b)[members[m] - 1] + j + 1
    BY <1>5, <1>14
  <2>3. \A t \in L.starts[n]..L.starts[n]+q-1 : L.rows[t] > size
    BY <1>5, <1>15
  <2>4. \A m \in 0..n-1 : /\ L.slots[m] = slot[b[members[m+1]].req]
                          /\ L.acc[m] = numAcc[b[members[m+1]].req]
                          /\ L.init[m] = (phase[b[members[m+1]].req] # "new")
    BY <1>10 DEF R
  <2>5. L.starts = Starts(b, members, p)
    BY <1>5 DEF s
  <2> QED BY <1>3, <1>6, <1>11, <2>1, <2>2, <2>3, <2>4, <2>5 DEF LaunchOk, L, n, members, size

-----------------------------------------------------------------------------
(* The kernels                                                             *)

ReqsHeld ==
  /\ phase \in [Reqs -> {"free", "new", "prompt", "spec"}]
  /\ slot \in [Reqs -> Slots \cup {Null}]
  /\ \A r \in Live : slot[r] \in Slots
  /\ \A q, r \in Live : q # r => slot[q] # slot[r]
  /\ numAcc \in [Reqs -> 1..SpecQueryLen]
  /\ drawn \in [Reqs -> Nat]
  /\ tail \in [Reqs -> [0..StateLen-1 -> Nat]]
  /\ window \in [Slots \cup {Null} -> [0..StateWidth-1 -> Nat]]
  /\ \A r \in Reqs : phase[r] \in {"new", "prompt"} => numAcc[r] = 1
  /\ \A r \in Reqs : phase[r] = "new" => \A i \in 0..StateLen-1 : tail[r][i] = Zero

(* The window of a request before and after its chunk has moved it on      *)
OldWindow(r) ==
  phase[r] # "new" => \A i \in 0..StateLen-1 : window[slot[r]][numAcc[r] - 1 + i] = tail[r][i]

NewWindow(c) ==
  IF c.kind = "spec" THEN \A j \in 0..StateLen+c.len-2 : window[slot[c.req]][j] = History(c)[j+1]
                     ELSE \A j \in 0..StateLen-1 : window[slot[c.req]][j] = History(c)[c.len+j]

LEMMA SizesAre ==
  ASSUME ConvAssumption
  PROVE  /\ StateLen \in Nat \ {0} /\ SpecQueryLen \in Nat \ {0} /\ StateWidth \in Nat
         /\ StateWidth = StateLen + SpecQueryLen - 1
         /\ \A k \in 0..KernelSize-1 : Dilation * k \in Nat /\ Dilation * k <= StateLen
<1> DEFINE K == KernelSize - 1
           D == Dilation
<1>1. K \in Nat \ {0} /\ D \in Nat \ {0} /\ NumSpec \in Nat
  BY DEF ConvAssumption
<1>2. StateLen = K * D
  BY DEF StateLen
<1> HIDE DEF K, D
<1>3. K * D \in Nat \ {0}
  BY <1>1
<1>4. ASSUME NEW k \in 0..K PROVE D * k \in Nat /\ D * k <= K * D
  <2>1. k \in Nat /\ K - k \in Nat
    BY <1>1
  <2>2. D * k \in Nat /\ D * (K - k) \in Nat
    BY <1>1, <2>1
  <2>3. K * D = D * k + D * (K - k)
    BY <1>1, <2>1
  <2> QED BY <2>2, <2>3
<1>5. SpecQueryLen \in Nat \ {0}
  BY <1>1 DEF SpecQueryLen
<1>6. StateWidth = StateLen + SpecQueryLen - 1
  BY DEF StateWidth
<1>7. StateWidth \in Nat
  BY <1>2, <1>3, <1>5, <1>6
<1> QED BY <1>2, <1>3, <1>4, <1>5, <1>6, <1>7 DEF K, D

(* A chunk and the launch that serves it                                   *)
LEMMA MemberIs ==
  ASSUME ConvAssumption, ReqsHeld, BatchOk(batch), NEW kind, NEW m \in 1..Len(Group(batch, kind))
  PROVE  LET c == batch[Group(batch, kind)[m]]
         IN  /\ Group(batch, kind)[m] \in 1..Len(batch)
             /\ c.kind = kind /\ c.req \in Reqs /\ c.req \in Live /\ slot[c.req] \in Slots /\ slot[c.req] # Null
             /\ c.len \in Nat /\ c.len >= 1 /\ (kind = "decode" => c.len = 1)
             /\ kind = "spec" => phase[c.req] # "new" /\ c.len <= SpecQueryLen
             /\ kind # "spec" => phase[c.req] \in {"new", "prompt"} /\ numAcc[c.req] = 1
<1> DEFINE i == Group(batch, kind)[m]
           c == batch[i]
<1>1. i \in 1..Len(batch) /\ c.kind = kind
  <2>1. Listed(batch, kind, Group(batch, kind))
    BY GroupIs
  <2>2. Group(batch, kind) \in Seq(1..Len(batch)) /\ c.kind = kind
    BY <2>1 DEF Listed
  <2> QED BY <2>2, ElementOfSeq
<1> HIDE DEF i
<1>2. c.req \in Reqs /\ c.len \in Nat /\ c.len >= 1
  BY <1>1, ChunksAre
<1>3. /\ c.req \in Live
      /\ c.kind = "spec" => phase[c.req] # "new" /\ c.len <= SpecQueryLen
      /\ c.kind # "spec" => phase[c.req] # "spec"
      /\ c.kind = "decode" => c.len = 1
  BY <1>1 DEF BatchOk
<1> HIDE DEF c
<1>4. slot[c.req] \in Slots /\ slot[c.req] # Null
  BY <1>3 DEF ReqsHeld, ConvAssumption
<1>5. kind # "spec" => phase[c.req] \in {"new", "prompt"} /\ numAcc[c.req] = 1
  BY <1>1, <1>2, <1>3 DEF ReqsHeld, Live
<1> QED BY <1>1, <1>2, <1>3, <1>4, <1>5 DEF i, c

(* Where the launch's own row numbering has the chunk                      *)
LEMMA SpanIs ==
  ASSUME ConvAssumption, ReqsHeld, BatchOk(batch), NEW kind, NEW p, NEW q, PadsOk(kind, p, q),
         NEW L, LaunchOk(L, batch, kind, p, q), NEW m \in 1..Len(Group(batch, kind))
  PROVE  LET c == batch[Group(batch, kind)[m]]
             n == Len(Group(batch, kind))
         IN  /\ L.mode = kind /\ L.n = n + p /\ p \in Nat /\ q \in Nat /\ n \in Nat \ {0}
             /\ L.starts[m-1] \in Nat /\ L.starts[m] = L.starts[m-1] + c.len
             /\ L.starts[m] <= L.starts[n] /\ L.starts[n] = L.starts[L.n] /\ L.starts[n] \in Nat
             /\ L.slots[m-1] = slot[c.req] /\ L.acc[m-1] = numAcc[c.req]
             /\ L.init[m-1] = (phase[c.req] # "new")
             /\ \A j \in 0..c.len-1 : L.starts[m-1] + j \in DOMAIN L.rows
<1> DEFINE members == Group(batch, kind)
           n == Len(members)
           c == batch[members[m]]
           s == L.starts
<1>1. /\ L.mode = kind /\ n \in Nat /\ L.n = n + p
      /\ StartsOk(s, batch, members, p)
      /\ \A h \in 0..n-1 : /\ L.slots[h] = slot[batch[members[h+1]].req]
                           /\ L.acc[h] = numAcc[batch[members[h+1]].req]
                           /\ L.init[h] = (phase[batch[members[h+1]].req] # "new")
      /\ DOMAIN L.rows = 0..s[n]+q-1
  BY DEF LaunchOk
<1>2. p \in Nat /\ q \in Nat
  BY DEF PadsOk
<1>3. c.len \in Nat
  BY MemberIs
<1> HIDE DEF members, n, s
<1>4. /\ s \in [0..n+p -> Nat]
      /\ \A i \in 1..n : s[i] = s[i-1] + batch[members[i]].len
      /\ \A i \in n..n+p : s[i] = s[n]
      /\ \A i, j \in 0..n+p : i <= j => s[i] <= s[j]
  BY <1>1 DEF StartsOk, n
<1>5. m \in 1..n
  BY DEF n, members
<1>6. n \in Nat \ {0} /\ m - 1 \in 0..n+p /\ m \in 0..n+p /\ n \in 0..n+p /\ m <= n /\ n + p \in n..n+p
  BY <1>1, <1>2, <1>5
<1>7. s[m-1] \in Nat /\ s[m] = s[m-1] + c.len /\ s[m] <= s[n] /\ s[n] \in Nat /\ s[n] = s[n+p]
  BY <1>4, <1>5, <1>6
<1>8. m - 1 \in 0..n-1 /\ (m - 1) + 1 = m
  BY <1>5, <1>6
<1>9. L.slots[m-1] = slot[c.req] /\ L.acc[m-1] = numAcc[c.req] /\ L.init[m-1] = (phase[c.req] # "new")
  BY <1>1, <1>8
<1> HIDE DEF c
<1>10. \A j \in 0..c.len-1 : s[m-1] + j \in DOMAIN L.rows
  BY <1>1, <1>2, <1>3, <1>7, SMTT(60)
<1> QED BY <1>1, <1>2, <1>6, <1>7, <1>9, <1>10 DEF s, n, members, c

LEMMA DecodeStarts ==
  ASSUME BatchOk(batch), NEW p \in Nat, NEW s, StartsOk(s, batch, Group(batch, "decode"), p)
  PROVE  \A i \in 0..Len(Group(batch, "decode")) : s[i] = i
<1> DEFINE members == Group(batch, "decode")
           n == Len(members)
           D == {i \in 0..n : s[i] = i}
<1>1. n \in Nat /\ \A i \in 1..n : batch[members[i]].len = 1
  <2>1. Listed(batch, "decode", members)
    BY GroupIs
  <2>2. members \in Seq(1..Len(batch)) /\ \A i \in 1..n : batch[members[i]].kind = "decode"
    BY <2>1 DEF Listed
  <2>3. n \in Nat /\ \A i \in 1..n : members[i] \in 1..Len(batch)
    BY <2>2, LenProperties, ElementOfSeq
  <2> HIDE DEF members
  <2> QED BY <2>2, <2>3 DEF BatchOk
<1>2. s[0] = 0 /\ \A i \in 1..n : s[i] = s[i-1] + batch[members[i]].len
  BY DEF StartsOk
<1> HIDE DEF members, n
<1>3. 0 \in D
  BY <1>1, <1>2
<1>4. ASSUME NEW k \in 1..n, k - 1 \in D PROVE k \in D
  BY <1>1, <1>2, <1>4
<1>5. \A k \in 0..n : k \in D
  <2> HIDE DEF D
  <2> QED BY <1>1, <1>3, <1>4, IntervalInduction
<1> QED BY <1>5 DEF n, members

(* A program finds the request of its row, and its row gets an output.     *)
LEMMA RequestIs ==
  ASSUME ConvAssumption, ReqsHeld, BatchOk(batch), NEW kind, NEW p, NEW q, PadsOk(kind, p, q),
         NEW L, LaunchOk(L, batch, kind, p, q), NEW m \in 1..Len(Group(batch, kind)),
         NEW j \in 0..batch[Group(batch, kind)[m]].len-1
  PROVE  /\ RequestOf(L, L.starts[m-1] + j) = m - 1 /\ Start(L, m - 1) = L.starts[m-1]
         /\ OutOk(L, L.starts[m-1] + j)
<1> DEFINE n == Len(Group(batch, kind))
           c == batch[Group(batch, kind)[m]]
           s == L.starts
           t == s[m-1] + j
<1>1. /\ L.mode = kind /\ L.n = n + p /\ p \in Nat /\ n \in Nat \ {0}
      /\ s[m-1] \in Nat /\ s[m] = s[m-1] + c.len /\ s[m] <= s[n] /\ s[n] = s[L.n] /\ s[n] \in Nat
      /\ L.slots[m-1] = slot[c.req]
  BY SpanIs
<1>2. c.len \in Nat /\ slot[c.req] # Null /\ (kind = "decode" => c.len = 1)
  BY MemberIs
<1>3. StartsOk(s, batch, Group(batch, kind), p)
  BY DEF LaunchOk
<1>4. /\ s \in [0..n+p -> Nat] /\ s[0] = 0
      /\ \A i, k \in 0..n+p : i <= k => s[i] <= s[k]
  BY <1>3 DEF StartsOk
<1>5. m \in 1..n /\ j \in 0..c.len-1
  OBVIOUS
<1> HIDE DEF n, c, s, t
<1>6. t \in Nat /\ s[m-1] <= t /\ t < s[m] /\ t < s[L.n]
  BY <1>1, <1>2, <1>5, SMTT(60) DEF t
<1>7. RequestOf(L, t) = m - 1 /\ Start(L, m - 1) = s[m-1]
  <2>1. CASE kind = "decode"
    <3>1. s[m-1] = m - 1
      <4>1. \A i \in 0..n : s[i] = i
        BY <1>1, <1>3, <2>1, DecodeStarts DEF n
      <4>2. m - 1 \in 0..n
        BY <1>1, <1>5
      <4> QED BY <4>1, <4>2
    <3>2. t = m - 1
      BY <1>1, <1>2, <1>5, <2>1, <3>1 DEF t
    <3> QED BY <1>1, <2>1, <3>1, <3>2 DEF RequestOf, Start, s
  <2>2. CASE kind # "decode"
    <3> DEFINE N == L.n
               i == FindRequest(s, N, BitLength(N), t)
    <3>1. N \in Nat \ {0} /\ N = n + p
      BY <1>1
    <3>2. RequestOf(L, t) = i
      <4>1. (IF N > 1 THEN N ELSE 1) = N
        BY <3>1
      <4>2. RequestOf(L, t) = FindRequest(s, N, BitLength(IF N > 1 THEN N ELSE 1), t)
        BY <1>1, <2>2 DEF RequestOf, s
      <4> QED BY <4>1, <4>2
    <3> HIDE DEF N
    <3>3. Layout(s, N) /\ \A k \in 0..N : s[k] \in Nat
      BY <1>4, <3>1 DEF Layout
    <3>4. FindsTheRequest(s, N, t)
      BY <1>6, <3>1, <3>3, FindsTheRequestHolds
    <3>5. i \in 0..N-1 /\ s[i] <= t /\ t < s[i+1]
      BY <1>6, <3>4 DEF FindsTheRequest, N
    <3> HIDE DEF i
    <3>6. i = m - 1
      <4>1. CASE i < m - 1
        <5>1. i + 1 \in 0..n+p /\ m - 1 \in 0..n+p /\ i + 1 <= m - 1
          BY <1>1, <1>5, <3>1, <3>5, <4>1
        <5>2. s[i+1] <= s[m-1] /\ s[i+1] \in Nat
          BY <1>4, <5>1
        <5> QED BY <1>1, <1>6, <3>5, <5>2
      <4>2. CASE i > m - 1
        <5>1. i \in 0..n+p /\ m \in 0..n+p /\ m <= i
          BY <1>1, <1>5, <3>1, <3>5, <4>2
        <5>2. s[m] <= s[i] /\ s[i] \in Nat /\ s[m] \in Nat
          BY <1>4, <5>1
        <5> QED BY <1>6, <3>5, <5>2
      <4> QED BY <1>5, <3>1, <3>5, <4>1, <4>2
    <3>7. Start(L, m - 1) = s[m-1]
      BY <1>1, <2>2 DEF Start, s
    <3> QED BY <3>2, <3>6, <3>7
  <2> QED BY <2>1, <2>2
<1>8. OutOk(L, t)
  BY <1>1, <1>2, <1>6, <1>7 DEF OutOk, s
<1> QED BY <1>7, <1>8 DEF t, s

(* A row of padding gets none, and no window is moved on for it.           *)
LEMMA PaddingIs ==
  ASSUME ConvAssumption, ReqsHeld, BatchOk(batch), NEW kind, NEW p, NEW q, PadsOk(kind, p, q),
         NEW L, LaunchOk(L, batch, kind, p, q), Group(batch, kind) # << >>,
         NEW t \in L.starts[Len(Group(batch, kind))]..L.starts[Len(Group(batch, kind))]+q-1
  PROVE  ~OutOk(L, t) /\ ~UpdatesWindow(L, RequestOf(L, t))
<1> DEFINE n == Len(Group(batch, kind))
           s == L.starts
<1>1. 1 \in 1..n
  <2>1. Listed(batch, kind, Group(batch, kind))
    BY GroupIs
  <2>2. Group(batch, kind) \in Seq(1..Len(batch))
    BY <2>1 DEF Listed
  <2>3. n \in Nat /\ n # 0
    BY <2>2, LenProperties, EmptySeq
  <2> QED BY <2>3
<1>2. L.mode = kind /\ L.n = n + p /\ p \in Nat /\ q \in Nat /\ n \in Nat \ {0} /\ s[n] = s[L.n] /\ s[n] \in Nat
  BY <1>1, SpanIs
<1>3. (\A h \in n..n+p-1 : L.slots[h] = Null) /\ StartsOk(s, batch, Group(batch, kind), p)
  BY DEF LaunchOk
<1>4. t \in s[n]..s[n]+q-1
  OBVIOUS
<1> HIDE DEF n, s
<1>5. CASE kind = "decode"
  <2>1. s[n] = n
    <3>1. \A i \in 0..n : s[i] = i
      BY <1>2, <1>3, <1>5, DecodeStarts DEF n
    <3> QED BY <1>2, <3>1
  <2>2. p = q
    BY <1>5 DEF PadsOk
  <2>3. L.slots[t] = Null
    BY <1>2, <1>3, <1>4, <2>1, <2>2
  <2>4. RequestOf(L, t) = t
    BY <1>2, <1>5 DEF RequestOf
  <2> QED BY <1>2, <1>5, <2>3, <2>4 DEF OutOk, UpdatesWindow
<1>6. CASE kind # "decode"
  <2>1. ~(t < s[L.n])
    BY <1>2, <1>4
  <2> QED BY <1>2, <1>6, <2>1 DEF OutOk, UpdatesWindow, s
<1> QED BY <1>5, <1>6

(* The inputs of a chunk                                                   *)
LEMMA InputIs ==
  ASSUME ConvAssumption, ReqsHeld, BatchOk(batch), NEW kind, NEW p, NEW q, PadsOk(kind, p, q),
         NEW L, LaunchOk(L, batch, kind, p, q), NEW m \in 1..Len(Group(batch, kind)),
         NEW j \in 0..batch[Group(batch, kind)[m]].len-1
  PROVE  X(L, L.starts[m-1] + j) = Input(batch[Group(batch, kind)[m]], j)
<1> DEFINE i == Group(batch, kind)[m]
           c == batch[i]
           t == L.starts[m-1] + j
           f == First(batch)
           n == Len(batch)
           rows == RowsOf(batch)
<1>1. t \in DOMAIN L.rows
  BY SpanIs
<1>2. L.rows[t] = f[i-1] + j + 1
  BY DEF LaunchOk
<1>3. i \in 1..n /\ c.len \in Nat /\ n \in Nat
  BY MemberIs, ChunksAre
<1>4. j \in 0..c.len-1
  OBVIOUS
<1> HIDE DEF i
<1>5. /\ f \in [0..n -> Nat] /\ f[i] = f[i-1] + c.len
      /\ \A h, k \in 0..n : h <= k => f[h] <= f[k]
  BY <1>3, FirstIs
<1>6. Len(rows) = f[n] /\ \A h \in 1..c.len : rows[f[i-1] + h] = <<i, h - 1>>
  BY <1>3, RowsAre
<1>7. X(L, t) = IF t \in DOMAIN L.rows /\ L.rows[t] <= Len(rows)
                THEN Input(batch[rows[L.rows[t]][1]], rows[L.rows[t]][2]) ELSE -1
  BY DEF X
<1> HIDE DEF c, t, f, n, rows
<1>8. i - 1 \in 0..n /\ i \in 0..n /\ n \in 0..n /\ i <= n
  BY <1>3
<1>9. f[i-1] \in Nat /\ f[i] \in Nat /\ f[n] \in Nat /\ f[i] <= f[n]
  BY <1>5, <1>8
<1>10. f[i-1] + j + 1 <= f[n] /\ j + 1 \in 1..c.len /\ (j + 1) - 1 = j /\ f[i-1] + j + 1 = f[i-1] + (j + 1)
  <2> DEFINE len == c.len
             z == f[i-1]
  <2>1. j \in Nat /\ j < len /\ len \in Nat
    <3>1. len \in Nat /\ j \in 0..len-1
      BY <1>3, <1>4
    <3> HIDE DEF len
    <3> QED BY <3>1
  <2>2. z + len = f[i] /\ z \in Nat
    BY <1>5, <1>9
  <2> HIDE DEF len, z
  <2>3. z + j + 1 <= f[n] /\ j + 1 \in 1..len /\ (j + 1) - 1 = j /\ z + j + 1 = z + (j + 1)
    BY <1>9, <2>1, <2>2
  <2> QED BY <2>3 DEF len, z
<1>11. rows[L.rows[t]] = <<i, j>> /\ L.rows[t] <= Len(rows)
  BY <1>2, <1>6, <1>10
<1>12. X(L, t) = Input(batch[i], j)
  BY <1>1, <1>7, <1>11
<1> QED BY <1>12 DEF i, t

(* What a program finds of the request's past                              *)
LEMMA PastIs ==
  ASSUME ConvAssumption, ReqsHeld, BatchOk(batch), NEW kind, NEW p, NEW q, PadsOk(kind, p, q),
         NEW L, LaunchOk(L, batch, kind, p, q), NEW m \in 1..Len(Group(batch, kind)),
         OldWindow(batch[Group(batch, kind)[m]].req), NEW h \in 0..StateLen-1
  PROVE  LET r == batch[Group(batch, kind)[m]].req
         IN  /\ SlotOffset(L, m - 1) \in Nat /\ (kind # "spec" => SlotOffset(L, m - 1) = 0)
             /\ h + SlotOffset(L, m - 1) \in 0..StateWidth-1
             /\ (IF HasState(L, m - 1) THEN window[slot[r]][h + SlotOffset(L, m - 1)] ELSE Zero) = tail[r][h]
<1> DEFINE r == batch[Group(batch, kind)[m]].req
           a == numAcc[r]
           off == SlotOffset(L, m - 1)
<1>1. L.mode = kind /\ L.slots[m-1] = slot[r] /\ L.acc[m-1] = a /\ L.init[m-1] = (phase[r] # "new")
  BY SpanIs
<1>2. /\ r \in Reqs /\ slot[r] # Null
      /\ kind = "spec" => phase[r] # "new"
      /\ kind # "spec" => phase[r] \in {"new", "prompt"} /\ a = 1
  BY MemberIs
<1>3. OldWindow(r)
  OBVIOUS
<1>4. StateLen \in Nat /\ SpecQueryLen \in Nat /\ StateWidth = StateLen + SpecQueryLen - 1
  BY SizesAre
<1> HIDE DEF r, a
<1>5. a \in 1..SpecQueryLen
  BY <1>2 DEF ReqsHeld, a
<1>6. off = a - 1
  <2>1. off = LET b == IF a - 1 > 0 THEN a - 1 ELSE 0
              IN  IF kind # "spec" THEN 0 ELSE IF b < SpecQueryLen - 1 THEN b ELSE SpecQueryLen - 1
    BY <1>1 DEF SlotOffset
  <2> HIDE DEF off
  <2> QED BY <1>2, <1>4, <1>5, <2>1
<1>7. HasState(L, m - 1) = (phase[r] # "new")
  BY <1>1, <1>2 DEF HasState
<1> HIDE DEF off
<1>8. CASE phase[r] # "new"
  <2>1. window[slot[r]][a - 1 + h] = tail[r][h]
    BY <1>3, <1>8 DEF OldWindow, a
  <2>2. a - 1 + h = h + off
    BY <1>4, <1>5, <1>6
  <2>3. h + off \in 0..StateWidth-1 /\ off \in Nat /\ (kind # "spec" => off = 0)
    BY <1>2, <1>4, <1>5, <1>6
  <2> QED BY <1>7, <1>8, <2>1, <2>2, <2>3 DEF off, r
<1>9. CASE phase[r] = "new"
  <2>1. tail[r][h] = Zero
    BY <1>2, <1>9 DEF ReqsHeld
  <2>2. h + off \in 0..StateWidth-1 /\ off \in Nat /\ (kind # "spec" => off = 0)
    BY <1>2, <1>4, <1>5, <1>6
  <2> QED BY <1>7, <1>9, <2>1, <2>2 DEF off, r
<1> QED BY <1>8, <1>9

LEMMA HistoryIs ==
  ASSUME ConvAssumption, NEW c, c.len \in Nat
  PROVE  /\ \A x \in 0..StateLen-1 : History(c)[x] = tail[c.req][x]
         /\ \A j \in 0..c.len-1 : History(c)[StateLen + j] = Input(c, j)
<1>1. StateLen \in Nat \ {0}
  BY SizesAre
<1> DEFINE H == [i \in 0..StateLen + c.len - 1 |-> IF i < StateLen THEN tail[c.req][i] ELSE Input(c, i - StateLen)]
           len == c.len
<1>2. History(c) = H
  BY DEF History
<1>3. ASSUME NEW x \in 0..StateLen-1 PROVE H[x] = tail[c.req][x]
  <2>1. len \in Nat
    OBVIOUS
  <2> HIDE DEF len
  <2>2. x \in 0..StateLen + len - 1 /\ x < StateLen
    BY <1>1, <2>1
  <2> QED BY <2>2 DEF len
<1>4. ASSUME NEW j \in 0..c.len-1 PROVE H[StateLen + j] = Input(c, j)
  <2>1. len \in Nat /\ j \in 0..len-1
    OBVIOUS
  <2> HIDE DEF len
  <2>2. StateLen + j \in 0..StateLen + len - 1 /\ ~(StateLen + j < StateLen) /\ (StateLen + j) - StateLen = j
    BY <1>1, <2>1
  <2> QED BY <2>2 DEF len
<1> HIDE DEF H
<1> QED BY <1>2, <1>3, <1>4

(* The output of a token: its taps read the request's history.             *)
LEMMA TapIs ==
  ASSUME ConvAssumption, ReqsHeld, BatchOk(batch), NEW kind, NEW p, NEW q, PadsOk(kind, p, q),
         NEW L, LaunchOk(L, batch, kind, p, q), NEW m \in 1..Len(Group(batch, kind)),
         OldWindow(batch[Group(batch, kind)[m]].req),
         NEW j \in 0..batch[Group(batch, kind)[m]].len-1, NEW k \in 0..KernelSize-1
  PROVE  Tap(L, L.starts[m-1] + j, k) = History(batch[Group(batch, kind)[m]])[j + Dilation * k]
<1> DEFINE c == batch[Group(batch, kind)[m]]
           r == c.req
           t == L.starts[m-1] + j
           z == L.starts[m-1]
           h == j + Dilation * k
           len == c.len
<1>1. RequestOf(L, t) = m - 1 /\ Start(L, m - 1) = z
  BY RequestIs
<1>2. L.slots[m-1] = slot[r] /\ z \in Nat
  BY SpanIs
<1>3. len \in Nat
  BY MemberIs
<1>4. Dilation * k \in Nat /\ Dilation * k <= StateLen /\ StateLen \in Nat
  BY SizesAre
<1>5. j \in 0..len-1
  OBVIOUS
<1>6. h \in Nat /\ h - StateLen <= j /\ t = z + j /\ t - z = j
  <2> DEFINE d == Dilation * k
  <2> HIDE DEF len, d, z
  <2> QED BY <1>2, <1>3, <1>4, <1>5, SMTT(60) DEF d, z
<1>7. Tap(L, t, k) = IF h < StateLen
                     THEN IF HasState(L, m - 1) THEN window[slot[r]][h + SlotOffset(L, m - 1)] ELSE Zero
                     ELSE X(L, z + h - StateLen)
  <2>1. t - Start(L, m - 1) + Dilation * k = h
    BY <1>1, <1>6
  <2> HIDE DEF h, t, z, r
  <2> QED BY <1>1, <1>2, <2>1 DEF Tap
<1>8. CASE h < StateLen
  <2>1. h \in 0..StateLen-1
    <3> HIDE DEF h
    <3> QED BY <1>4, <1>6, <1>8
  <2> HIDE DEF h, t
  <2>2. (IF HasState(L, m - 1) THEN window[slot[r]][h + SlotOffset(L, m - 1)] ELSE Zero) = tail[r][h]
    BY <2>1, PastIs
  <2>3. History(c)[h] = tail[r][h]
    BY <1>3, <2>1, HistoryIs
  <2> QED BY <1>7, <1>8, <2>2, <2>3 DEF h, t
<1>9. CASE ~(h < StateLen)
  <2> DEFINE i == h - StateLen
  <2>1. i \in 0..len-1 /\ h = StateLen + i /\ z + h - StateLen = z + i
    <3> HIDE DEF h, len, z
    <3> QED BY <1>2, <1>3, <1>4, <1>5, <1>6, <1>9, SMTT(60) DEF z
  <2> HIDE DEF h, t, i
  <2>2. X(L, z + i) = Input(c, i)
    BY <2>1, InputIs
  <2>3. History(c)[StateLen + i] = Input(c, i)
    BY <1>3, <2>1, HistoryIs
  <2> QED BY <1>7, <1>9, <2>1, <2>2, <2>3 DEF h, t
<1> QED BY <1>8, <1>9

(* Values written in place, in order                                       *)
Stored(f, k, v) == [f EXCEPT ![k] = v]

Mixed(U, old, new, i) == [x \in U |-> IF x < i THEN new[x] ELSE old[x]]

LEMMA MixedStep ==
  ASSUME NEW U, U \subseteq Int, NEW old, NEW new, NEW k \in U, NEW i, i = k + 1
  PROVE  Stored(Mixed(U, old, new, k), k, new[k]) = Mixed(U, old, new, i)
<1> DEFINE A == Mixed(U, old, new, k)
           B == Mixed(U, old, new, i)
<1>1. A = [x \in U |-> IF x < k THEN new[x] ELSE old[x]] /\ B = [x \in U |-> IF x < i THEN new[x] ELSE old[x]]
  BY DEF Mixed
<1>2. ASSUME NEW x \in U PROVE (IF x = k THEN new[k] ELSE A[x]) = B[x]
  <2>1. x \in Int /\ k \in Int /\ A[x] = (IF x < k THEN new[x] ELSE old[x]) /\ B[x] = (IF x < i THEN new[x] ELSE old[x])
    BY <1>1
  <2>2. CASE x = k
    <3>1. x < i
      BY <2>1, <2>2
    <3> QED BY <2>1, <2>2, <3>1
  <2>3. CASE x # k
    <3>1. x < k <=> x < i
      BY <2>1, <2>3
    <3> QED BY <2>1, <2>3, <3>1
  <2> QED BY <2>2, <2>3
<1>3. [A EXCEPT ![k] = new[k]] = [x \in U |-> IF x = k THEN new[k] ELSE A[x]]
  BY <1>1
<1>4. B = [x \in U |-> B[x]]
  BY <1>1
<1> HIDE DEF A, B
<1>5. [x \in U |-> IF x = k THEN new[k] ELSE A[x]] = [x \in U |-> B[x]]
  BY <1>2
<1> QED BY <1>3, <1>4, <1>5 DEF A, B, Stored

(* A loop every step of which turns what is mixed so far into what is mixed *)
(* then ends with all of it.                                               *)
LEMMA LoopIs ==
  ASSUME NEW n \in Nat, NEW U, NEW old, NEW new, old = Mixed(U, old, new, 0), NEW w,
         w[0] = old, \A i \in 1..n : w[i-1] = Mixed(U, old, new, i - 1) => w[i] = Mixed(U, old, new, i)
  PROVE  w[n] = Mixed(U, old, new, n)
<1> DEFINE D == {i \in 0..n : w[i] = Mixed(U, old, new, i)}
<1>1. 0 \in D
  OBVIOUS
<1>2. ASSUME NEW k \in 1..n, k - 1 \in D PROVE k \in D
  BY <1>2
<1>3. \A k \in 0..n : k \in D
  <2> HIDE DEF D
  <2> QED BY <1>1, <1>2, IntervalInduction
<1>4. n \in 0..n
  OBVIOUS
<1> QED BY <1>3, <1>4

LEMMA HistoryType ==
  ASSUME ConvAssumption, ReqsHeld, NEW c, c.len \in Nat, c.req \in Reqs
  PROVE  \A x \in 0..StateLen + c.len - 1 : History(c)[x] \in Nat
<1>1. StateLen \in Nat \ {0} /\ c.req \in Nat /\ drawn[c.req] \in Nat /\ tail[c.req] \in [0..StateLen-1 -> Nat]
  BY SizesAre DEF ReqsHeld, ConvAssumption
<1>2. ASSUME NEW x \in 0..StateLen + c.len - 1 PROVE History(c)[x] \in Nat
  <2> DEFINE len == c.len
  <2>1. len \in Nat /\ x \in 0..StateLen + len - 1
    OBVIOUS
  <2>2. CASE x < StateLen
    <3>1. x \in 0..StateLen-1
      BY <1>1, <2>1, <2>2
    <3> QED BY <1>1, <3>1, HistoryIs
  <2>3. CASE ~(x < StateLen)
    <3> DEFINE j == x - StateLen
    <3>1. j \in 0..len-1 /\ x = StateLen + j
      <4> HIDE DEF len
      <4> QED BY <1>1, <2>1, <2>3
    <3> HIDE DEF j
    <3>2. History(c)[x] = Input(c, j)
      BY <3>1, HistoryIs
    <3>3. Input(c, j) = 100 * c.req + drawn[c.req] + j + 1
      BY DEF Input
    <3>4. j \in Nat
      BY <2>1, <3>1
    <3> QED BY <1>1, <3>2, <3>3, <3>4, SMTT(60)
  <2> QED BY <2>2, <2>3
<1> QED BY <1>2

(* The decode kernel drops the window's first input and appends the token. *)
LEMMA DecodeWindowIs ==
  ASSUME ConvAssumption, ReqsHeld, BatchOk(batch), NEW p, NEW q, PadsOk("decode", p, q),
         NEW L, LaunchOk(L, batch, "decode", p, q), NEW m \in 1..Len(Group(batch, "decode")),
         OldWindow(batch[Group(batch, "decode")[m]].req)
  PROVE  LET c == batch[Group(batch, "decode")[m]]
             W == DecodeWindow(L, m - 1)
         IN  W \in [0..StateWidth-1 -> Nat] /\ \A x \in 0..StateLen-1 : W[x] = History(c)[c.len + x]
<1> DEFINE c == batch[Group(batch, "decode")[m]]
           r == c.req
           U == 0..StateWidth-1
           old == window[slot[r]]
           new == [x \in 0..StateLen-1 |-> History(c)[1 + x]]
           Step(v, i) == [v EXCEPT ![i-1] =
                            IF i < StateLen THEN (IF HasState(L, m - 1) THEN v[i] ELSE Zero) ELSE X(L, m - 1)]
           Direct(g) == [i \in 0..StateLen |-> IF i = 0 THEN window[L.slots[m-1]] ELSE Step(g[i-1], i)]
           w == CHOOSE g : g = Direct(g)
           M(i) == Mixed(U, old, new, i)
<1>1. /\ StateLen \in Nat \ {0} /\ StateWidth \in Nat /\ StateLen <= StateWidth
  <2>1. StateLen \in Nat \ {0} /\ SpecQueryLen \in Nat \ {0} /\ StateWidth = StateLen + SpecQueryLen - 1
    BY SizesAre
  <2> QED BY <2>1
<1>2. /\ L.slots[m-1] = slot[r] /\ L.starts[m-1] = m - 1
  <2>1. L.slots[m-1] = slot[r] /\ p \in Nat
    BY SpanIs
  <2>2. \A i \in 0..Len(Group(batch, "decode")) : L.starts[i] = i
    BY <2>1, DecodeStarts DEF LaunchOk
  <2>3. m - 1 \in 0..Len(Group(batch, "decode"))
    OBVIOUS
  <2> QED BY <2>1, <2>2, <2>3
<1>3. r \in Reqs /\ slot[r] \in Slots /\ c.len = 1
  BY MemberIs
<1>4. old \in [U -> Nat]
  BY <1>3 DEF ReqsHeld
<1>5. \A x \in 0..StateLen-1 : /\ History(c)[x] = tail[r][x]
                               /\ (IF HasState(L, m - 1) THEN old[x] ELSE Zero) = tail[r][x]
  <2>1. ASSUME NEW x \in 0..StateLen-1
        PROVE  (IF HasState(L, m - 1) THEN old[x] ELSE Zero) = tail[r][x]
    <3>1. SlotOffset(L, m - 1) = 0 /\ (IF HasState(L, m - 1) THEN old[x + SlotOffset(L, m - 1)] ELSE Zero) = tail[r][x]
      <4>1. "decode" # "spec"
        OBVIOUS
      <4> QED BY <4>1, PastIs
    <3>2. x + 0 = x
      BY <1>1
    <3> QED BY <3>1, <3>2
  <2>2. \A x \in 0..StateLen-1 : History(c)[x] = tail[r][x]
    BY <1>3, HistoryIs
  <2> QED BY <2>1, <2>2
<1>6. X(L, m - 1) = History(c)[StateLen]
  <2>1. 0 \in 0..c.len-1 /\ L.starts[m-1] + 0 = m - 1 /\ StateLen + 0 = StateLen
    BY <1>1, <1>2, <1>3
  <2>2. X(L, L.starts[m-1] + 0) = Input(c, 0)
    BY <2>1, InputIs
  <2>3. History(c)[StateLen + 0] = Input(c, 0)
    <3>1. c.len \in Nat
      BY <1>3
    <3> QED BY <2>1, <3>1, HistoryIs
  <2> QED BY <2>1, <2>2, <2>3
<1>7. DecodeWindow(L, m - 1) = w[StateLen]
  BY DEF DecodeWindow
<1> DEFINE past == HasState(L, m - 1)
           last == X(L, m - 1)
           H == History(c)
<1>8. \A x \in 0..StateLen-1 : new[x] = H[1 + x]
  OBVIOUS
<1> HIDE DEF U, old, new, past, last, H
<1>9. U = 0..StateWidth-1
  BY DEF U
<1>10. ASSUME NEW i \in 1..StateLen PROVE Step(M(i - 1), i) = M(i)
  <2>1. i - 1 \in U /\ (i < StateLen => i \in U) /\ i \in Int /\ U \subseteq Int /\ i - 1 \in 0..StateLen-1 /\ 1 + (i - 1) = i
    BY <1>1, <1>9
  <2>2. (IF i < StateLen THEN (IF past THEN M(i - 1)[i] ELSE Zero) ELSE last) = new[i-1]
    <3>1. CASE i < StateLen
      <4>1. i \in U /\ ~(i < i - 1) /\ i \in 0..StateLen-1
        BY <1>1, <2>1, <3>1
      <4>2. M(i - 1)[i] = old[i]
        BY <4>1 DEF Mixed
      <4>3. (IF past THEN old[i] ELSE Zero) = H[i]
        BY <1>5, <4>1 DEF H, past
      <4> QED BY <1>8, <2>1, <3>1, <4>2, <4>3
    <3>2. CASE ~(i < StateLen)
      <4>1. i = StateLen
        BY <1>1, <3>2
      <4> QED BY <1>6, <1>8, <2>1, <3>2, <4>1 DEF last, H
    <3> QED BY <3>1, <3>2
  <2>3. [M(i - 1) EXCEPT ![i-1] = new[i-1]] = M(i)
    <3> DEFINE k == i - 1
    <3>1. k \in U /\ U \subseteq Int /\ i = k + 1
      BY <2>1
    <3> HIDE DEF k
    <3>2. Stored(Mixed(U, old, new, k), k, new[k]) = Mixed(U, old, new, i)
      BY <3>1, MixedStep
    <3> QED BY <3>2 DEF k, Stored
  <2>4. Step(M(i - 1), i) = [M(i - 1) EXCEPT ![i-1] = IF i < StateLen THEN (IF past THEN M(i - 1)[i] ELSE Zero) ELSE last]
    BY DEF past, last
  <2> QED BY <2>2, <2>3, <2>4
<1>11. old = M(0)
  <2>1. \A x \in U : ~(x < 0)
    BY <1>9
  <2> QED BY <1>4, <2>1 DEF Mixed
<1> HIDE DEF M, Step
<1>12. \E g : g = Direct(g)
  <2> DEFINE g == [i \in 0..StateLen |-> M(i)]
  <2>1. \A i \in 0..StateLen : g[i] = IF i = 0 THEN window[L.slots[m-1]] ELSE Step(g[i-1], i)
    <3> SUFFICES ASSUME NEW i \in 0..StateLen
                 PROVE  g[i] = IF i = 0 THEN window[L.slots[m-1]] ELSE Step(g[i-1], i)
      OBVIOUS
    <3>1. CASE i = 0
      <4>1. g[0] = M(0)
        BY <1>1
      <4> QED BY <1>2, <1>11, <3>1, <4>1 DEF old
    <3>2. CASE i # 0
      <4>1. i \in 1..StateLen /\ i - 1 \in 0..StateLen
        BY <1>1, <3>2
      <4>2. g[i] = M(i) /\ g[i-1] = M(i - 1)
        BY <4>1
      <4> QED BY <1>10, <3>2, <4>1, <4>2
    <3> QED BY <3>1, <3>2
  <2>2. g = [i \in 0..StateLen |-> g[i]]
    OBVIOUS
  <2> HIDE DEF g
  <2>3. g = Direct(g)
    BY <2>1, <2>2
  <2> QED BY <2>3
<1>13. w = Direct(w)
  <2> HIDE DEF Direct
  <2> QED BY <1>12
<1> HIDE DEF w
<1>14. w[0] = old /\ \A i \in 1..StateLen : w[i] = Step(w[i-1], i)
  <2>1. \A i \in 0..StateLen : w[i] = IF i = 0 THEN window[L.slots[m-1]] ELSE Step(w[i-1], i)
    BY <1>13
  <2>2. 0 \in 0..StateLen /\ \A i \in 1..StateLen : i \in 0..StateLen /\ i # 0
    BY <1>1
  <2> HIDE DEF Direct
  <2> QED BY <1>2, <2>1, <2>2 DEF old
<1>15. w[StateLen] = M(StateLen)
  <2>1. \A i \in 1..StateLen : w[i-1] = M(i - 1) => w[i] = M(i)
    BY <1>10, <1>14
  <2>2. \A i \in 1..StateLen : w[i-1] = Mixed(U, old, new, i - 1) => w[i] = Mixed(U, old, new, i)
    BY <2>1 DEF M
  <2>3. old = Mixed(U, old, new, 0) /\ w[0] = old /\ StateLen \in Nat
    BY <1>1, <1>11, <1>14 DEF M
  <2>4. w[StateLen] = Mixed(U, old, new, StateLen)
    <3> HIDE DEF Direct
    <3> QED BY <2>2, <2>3, LoopIs
  <2> QED BY <2>4 DEF M
<1>16. \A x \in 0..StateLen-1 : new[x] \in Nat
  <2>1. \A x \in 0..StateLen-1 : 1 + x \in 0..StateLen + c.len - 1
    BY <1>1, <1>3
  <2>2. \A x \in 0..StateLen + c.len - 1 : H[x] \in Nat
    BY <1>3, HistoryType DEF H
  <2> QED BY <1>8, <2>1, <2>2
<1>17. M(StateLen) \in [U -> Nat] /\ \A x \in 0..StateLen-1 : M(StateLen)[x] = new[x]
  <2>1. \A x \in U : x < StateLen => x \in 0..StateLen-1
    BY <1>1, <1>9
  <2>2. \A x \in 0..StateLen-1 : x \in U /\ x < StateLen
    BY <1>1, <1>9
  <2> QED BY <1>4, <1>16, <2>1, <2>2 DEF M, Mixed
<1>18. \A x \in 0..StateLen-1 : M(StateLen)[x] = H[c.len + x]
  BY <1>3, <1>8, <1>17
<1> QED BY <1>7, <1>9, <1>15, <1>17, <1>18 DEF H

LEMMA MixedSkip ==
  ASSUME NEW U, U \subseteq Int, NEW old, NEW new, NEW k \in U, NEW i, i = k + 1, new[k] = old[k]
  PROVE  Mixed(U, old, new, k) = Mixed(U, old, new, i)
<1>1. ASSUME NEW x \in U PROVE (IF x < k THEN new[x] ELSE old[x]) = (IF x < i THEN new[x] ELSE old[x])
  <2>1. x \in Int /\ k \in Int
    OBVIOUS
  <2>2. CASE x = k
    BY <2>1, <2>2
  <2>3. CASE x # k
    <3>1. x < k <=> x < i
      BY <2>1, <2>3
    <3> QED BY <3>1
  <2> QED BY <2>2, <2>3
<1> QED BY <1>1 DEF Mixed

(* The write-back reads each input before it is overwritten: a spec chunk  *)
(* leaves the history behind each of its tokens, a prefill its last part.  *)
LEMMA WrittenWindowIs ==
  ASSUME ConvAssumption, ReqsHeld, BatchOk(batch), NEW kind \in {"spec", "prefill"}, NEW p, NEW q, PadsOk(kind, p, q),
         NEW L, LaunchOk(L, batch, kind, p, q), NEW m \in 1..Len(Group(batch, kind)),
         OldWindow(batch[Group(batch, kind)[m]].req)
  PROVE  LET c == batch[Group(batch, kind)[m]]
             W == WrittenWindow(L, m - 1)
         IN  /\ W \in [0..StateWidth-1 -> Nat]
             /\ kind = "spec" => \A x \in 0..StateLen+c.len-2 : W[x] = History(c)[x+1]
             /\ kind = "prefill" => \A x \in 0..StateLen-1 : W[x] = History(c)[c.len+x]
<1> DEFINE c == batch[Group(batch, kind)[m]]
           r == c.req
           len == c.len
           z == L.starts[m-1]
           off == SlotOffset(L, m - 1)
           qlen == L.starts[m - 1 + 1] - z
           shift == IF kind = "spec" THEN 1 ELSE len
           width == IF kind = "spec" THEN StateWidth ELSE StateLen
           past == HasState(L, m - 1)
           U == 0..StateWidth-1
           old == window[slot[r]]
           H == History(c)
           new == [x \in 0..width-1 |-> IF Writes(L, len, x) THEN H[shift + x] ELSE old[x]]
           Value(v, x) ==
             IF shift + x < StateLen THEN IF past THEN v[off + shift + x] ELSE Zero
                                     ELSE X(L, z + shift + x - StateLen)
           Step(v, i) == IF Writes(L, len, i - 1) THEN [v EXCEPT ![i-1] = Value(v, i - 1)] ELSE v
           Direct(g) == [i \in 0..width |-> IF i = 0 THEN window[L.slots[m-1]] ELSE Step(g[i-1], i)]
           w == CHOOSE g : g = Direct(g)
           M(i) == Mixed(U, old, new, i)
<1>1. /\ StateLen \in Nat \ {0} /\ SpecQueryLen \in Nat \ {0}
      /\ StateWidth = StateLen + SpecQueryLen - 1 /\ StateWidth \in Nat
  BY SizesAre
<1>2. /\ L.mode = kind /\ L.slots[m-1] = slot[r] /\ z \in Nat /\ L.starts[m] = z + len
  BY SpanIs
<1>3. /\ r \in Reqs /\ slot[r] \in Slots /\ len \in Nat /\ len >= 1
      /\ kind = "spec" => len <= SpecQueryLen
  BY MemberIs
<1>4. qlen = len
  <2>1. m - 1 + 1 = m
    OBVIOUS
  <2> HIDE DEF len
  <2> QED BY <1>2, <1>3, <2>1
<1>5. old \in [U -> Nat]
  BY <1>3 DEF ReqsHeld
<1>6. \A h \in 0..StateLen-1 : /\ h + off \in U /\ off \in Nat
                               /\ (IF past THEN old[h + off] ELSE Zero) = H[h]
  <2>1. \A h \in 0..StateLen-1 : H[h] = tail[r][h]
    BY <1>3, HistoryIs
  <2>2. ASSUME NEW h \in 0..StateLen-1
        PROVE  h + off \in U /\ off \in Nat /\ (IF past THEN old[h + off] ELSE Zero) = tail[r][h]
    BY PastIs
  <2> HIDE DEF H, past, off, U, old, r
  <2> QED BY <2>1, <2>2
<1>7. ASSUME NEW j \in 0..len-1 PROVE X(L, z + j) = H[StateLen + j]
  <2>1. X(L, z + j) = Input(c, j)
    BY InputIs
  <2>2. H[StateLen + j] = Input(c, j)
    BY <1>3, HistoryIs
  <2> QED BY <2>1, <2>2
<1>8. WrittenWindow(L, m - 1) = w[width]
  <2> DEFINE QL == L.starts[m - 1 + 1] - L.starts[m-1]
             SH == IF L.mode = "spec" THEN 1 ELSE QL
             WI == IF L.mode = "spec" THEN StateWidth ELSE StateLen
             VA(v, i) == IF SH + i < StateLen
                         THEN IF HasState(L, m - 1) THEN v[SlotOffset(L, m - 1) + SH + i] ELSE Zero
                         ELSE X(L, L.starts[m-1] + SH + i - StateLen)
             Full(g) == [i \in 0..WI |-> IF i = 0 THEN window[L.slots[m-1]]
                                        ELSE IF Writes(L, QL, i - 1) THEN [g[i-1] EXCEPT ![i-1] = VA(g[i-1], i - 1)] ELSE g[i-1]]
  <2>1. WrittenWindow(L, m - 1) = (CHOOSE g : g = Full(g))[WI]
    BY DEF WrittenWindow
  <2>2. QL = len /\ SH = shift /\ WI = width
    BY <1>2, <1>4
  <2> HIDE DEF QL, SH, WI, len, shift, width
  <2>3. \A g : Full(g) = Direct(g)
    BY <2>2
  <2> HIDE DEF Full, Direct
  <2>4. (CHOOSE g : g = Full(g)) = w
    BY <2>3
  <2> HIDE DEF w
  <2> QED BY <2>1, <2>2, <2>4
<1>9. \A x : Writes(L, len, x) = (kind = "spec" => x < StateLen + len - 1)
  BY <1>2, SMTT(60) DEF Writes
<1>10. \A x \in 0..width-1 : new[x] = IF Writes(L, len, x) THEN H[shift + x] ELSE old[x]
  OBVIOUS
<1>11. width \in Nat /\ width <= StateWidth /\ width >= StateLen /\ shift \in Nat /\ shift >= 1
       /\ U = 0..StateWidth-1
  <2> HIDE DEF len
  <2> QED BY <1>1, <1>3
<1>12. /\ kind = "spec" => shift = 1 /\ width = StateWidth
       /\ kind = "prefill" => shift = len /\ width = StateLen
  OBVIOUS
<1>13. kind \in {"spec", "prefill"}
  OBVIOUS
<1> HIDE DEF c, r, len, z, off, qlen, shift, width, past, U, old, H, new
<1>14. ASSUME NEW i \in 1..width PROVE Step(M(i - 1), i) = M(i)
  <2> DEFINE k == i - 1
  <2>1. k \in U /\ U \subseteq Int /\ i = k + 1 /\ k \in 0..width-1 /\ k \in Nat /\ k < width
    BY <1>1, <1>11
  <2>2. Step(M(i - 1), i) = IF Writes(L, len, k) THEN [M(k) EXCEPT ![k] = Value(M(k), k)] ELSE M(k)
    BY DEF k
  <2> HIDE DEF k, Step
  <2>3. CASE Writes(L, len, k)
    <3>1. Value(M(k), k) = H[shift + k]
      <4> DEFINE h == shift + k
      <4>1. CASE h < StateLen
        <5>1. h \in 0..StateLen-1
          BY <1>1, <1>11, <2>1, <4>1
        <5>2. h + off \in U /\ off \in Nat /\ (IF past THEN old[h + off] ELSE Zero) = H[h]
          <6> HIDE DEF h
          <6> QED BY <1>6, <5>1
        <5>3. off + shift + k = h + off /\ ~(h + off < k)
          BY <1>11, <2>1, <5>2
        <5> HIDE DEF h
        <5>4. M(k)[h + off] = old[h + off]
          BY <5>2, <5>3 DEF Mixed
        <5>5. Value(M(k), k) = IF past THEN M(k)[h + off] ELSE Zero
          BY <4>1, <5>3 DEF h
        <5> HIDE DEF Value, M
        <5> QED BY <5>2, <5>4, <5>5 DEF h
      <4>2. CASE ~(h < StateLen)
        <5> DEFINE j == h - StateLen
        <5>1. j \in 0..len-1
          <6>1. h \in Nat
            BY <1>11, <2>1
          <6>2. kind = "spec" => h = 1 + k /\ k < StateLen + len - 1
            BY <1>9, <1>12, <2>3
          <6>3. kind = "prefill" => h = len + k /\ k < StateLen
            BY <1>12, <2>1
          <6> HIDE DEF h
          <6> QED BY <1>1, <1>3, <1>13, <2>1, <4>2, <6>1, <6>2, <6>3
        <5>2. z + shift + k - StateLen = z + j /\ StateLen + j = h
          BY <1>1, <1>2, <1>11, <2>1
        <5>3. Value(M(k), k) = X(L, z + j)
          BY <4>2, <5>2
        <5> HIDE DEF j, Value, M
        <5> QED BY <1>7, <5>1, <5>2, <5>3
      <4> HIDE DEF Value, M
      <4> QED BY <4>1, <4>2
    <3>2. new[k] = H[shift + k]
      BY <1>10, <2>1, <2>3
    <3>3. Stored(Mixed(U, old, new, k), k, new[k]) = Mixed(U, old, new, i)
      BY <2>1, MixedStep
    <3> HIDE DEF Value
    <3> QED BY <2>2, <2>3, <3>1, <3>2, <3>3 DEF Stored
  <2>4. CASE ~Writes(L, len, k)
    <3>1. new[k] = old[k]
      BY <1>10, <2>1, <2>4
    <3>2. Mixed(U, old, new, k) = Mixed(U, old, new, i)
      BY <2>1, <3>1, MixedSkip
    <3> QED BY <2>2, <2>4, <3>2
  <2> QED BY <2>3, <2>4
<1>15. old = M(0)
  <2>1. \A x \in U : ~(x < 0)
    BY <1>11
  <2> QED BY <1>5, <2>1 DEF Mixed
<1>16. window[L.slots[m-1]] = old
  BY <1>2 DEF old
<1> HIDE DEF M, Step
<1>17. \E g : g = Direct(g)
  <2> DEFINE g == [i \in 0..width |-> M(i)]
  <2>1. \A i \in 0..width : g[i] = IF i = 0 THEN window[L.slots[m-1]] ELSE Step(g[i-1], i)
    <3> SUFFICES ASSUME NEW i \in 0..width
                 PROVE  g[i] = IF i = 0 THEN window[L.slots[m-1]] ELSE Step(g[i-1], i)
      OBVIOUS
    <3>1. CASE i = 0
      <4>1. g[0] = M(0)
        BY <1>11
      <4> QED BY <1>15, <1>16, <3>1, <4>1
    <3>2. CASE i # 0
      <4>1. i \in 1..width /\ i - 1 \in 0..width
        BY <1>11, <3>2
      <4>2. g[i] = M(i) /\ g[i-1] = M(i - 1)
        BY <4>1
      <4> QED BY <1>14, <3>2, <4>1, <4>2
    <3> QED BY <3>1, <3>2
  <2>2. g = [i \in 0..width |-> g[i]]
    OBVIOUS
  <2> HIDE DEF g
  <2>3. g = Direct(g)
    BY <2>1, <2>2
  <2> QED BY <2>3
<1>18. w = Direct(w)
  <2> HIDE DEF Direct
  <2> QED BY <1>17
<1> HIDE DEF w
<1>19. w[0] = old /\ \A i \in 1..width : w[i] = Step(w[i-1], i)
  <2>1. \A i \in 0..width : w[i] = IF i = 0 THEN window[L.slots[m-1]] ELSE Step(w[i-1], i)
    BY <1>18
  <2>2. 0 \in 0..width /\ \A i \in 1..width : i \in 0..width /\ i # 0
    BY <1>11
  <2> HIDE DEF Direct
  <2> QED BY <1>16, <2>1, <2>2
<1>20. w[width] = M(width)
  <2>1. \A i \in 1..width : w[i-1] = M(i - 1) => w[i] = M(i)
    BY <1>14, <1>19
  <2>2. \A i \in 1..width : w[i-1] = Mixed(U, old, new, i - 1) => w[i] = Mixed(U, old, new, i)
    BY <2>1 DEF M
  <2>3. old = Mixed(U, old, new, 0) /\ w[0] = old /\ width \in Nat
    BY <1>11, <1>15, <1>19 DEF M
  <2>4. w[width] = Mixed(U, old, new, width)
    <3> HIDE DEF Direct
    <3> QED BY <2>2, <2>3, LoopIs
  <2> QED BY <2>4 DEF M
<1> DEFINE W == M(width)
<1>21. W = [x \in U |-> IF x < width THEN new[x] ELSE old[x]]
  BY DEF M, Mixed
<1> HIDE DEF W, Direct
<1>22. \A x \in 0..width-1 : new[x] \in Nat
  <2> SUFFICES ASSUME NEW x \in 0..width-1 PROVE new[x] \in Nat
    OBVIOUS
  <2>1. CASE Writes(L, len, x)
    <3>1. kind = "spec" => x < StateLen + len - 1
      BY <1>9, <2>1
    <3>2. shift + x \in 0..StateLen + len - 1
      BY <1>1, <1>3, <1>11, <1>12, <1>13, <3>1
    <3>3. \A y \in 0..StateLen + len - 1 : H[y] \in Nat
      BY <1>3, HistoryType DEF H, len, r
    <3> QED BY <1>10, <2>1, <3>2, <3>3
  <2>2. CASE ~Writes(L, len, x)
    <3>1. x \in U
      BY <1>1, <1>11
    <3> QED BY <1>5, <1>10, <2>2, <3>1
  <2> QED BY <2>1, <2>2
<1>23. W \in [U -> Nat]
  <2>1. \A x \in U : x < width => x \in 0..width-1
    BY <1>11
  <2> QED BY <1>5, <1>21, <1>22, <2>1
<1>24. ASSUME kind = "spec", NEW x \in 0..StateLen+len-2 PROVE W[x] = H[x+1]
  <2>1. x \in U /\ x < width /\ x \in 0..width-1 /\ x < StateLen + len - 1 /\ 1 + x = x + 1
    BY <1>1, <1>3, <1>11, <1>12, <1>24
  <2>2. Writes(L, len, x)
    BY <1>9, <2>1
  <2> QED BY <1>10, <1>12, <1>21, <1>24, <2>1, <2>2
<1>25. ASSUME kind = "prefill", NEW x \in 0..StateLen-1 PROVE W[x] = H[len+x]
  <2>1. x \in U /\ x < width /\ x \in 0..width-1
    BY <1>1, <1>11, <1>12, <1>25
  <2>2. Writes(L, len, x)
    BY <1>9, <1>25
  <2> QED BY <1>10, <1>12, <1>21, <1>25, <2>1, <2>2
<1> QED BY <1>8, <1>11, <1>20, <1>23, <1>24, <1>25 DEF H, len, W, c

-----------------------------------------------------------------------------
(* The step                                                                *)

Pending(ls, kernel, kind) == \E i \in 1..Len(ls) : ls[i].kernel = kernel /\ ls[i].mode = kind

(* Program t of the launch of a kernel for a kind has run, if there is any *)
HasRun(ls, done, kernel, kind, t) ==
  \/ ~Pending(ls, kernel, kind)
  \/ ls # << >> /\ ls[1].kernel = kernel /\ ls[1].mode = kind /\ t \in done

Pad(kind, p) == IF kind = "prefill" THEN 0 ELSE p

LaunchesOf(b, p, q) ==
  {Launch(kernel, b, kind, Pad(kind, p), Pad(kind, q)) : kernel \in {"conv", "write"}, kind \in KindNames}

(* The launches still to run: each once, a convolution before the write-   *)
(* back of its window.                                                     *)
Queued(ls) ==
  /\ \A i \in 1..Len(ls) : ls[i].kernel = "write" => ls[i].mode # "decode"
  /\ \A i, k \in 1..Len(ls) : ls[i].kernel = ls[k].kernel /\ ls[i].mode = ls[k].mode => i = k
  /\ \A i \in 1..Len(ls) : ls[i].kernel = "conv" /\ ls[i].mode # "decode" =>
       \E k \in 1..Len(ls) : i < k /\ ls[k].kernel = "write" /\ ls[k].mode = ls[i].mode

LaunchesHeld(p, q) ==
  /\ \A kind \in KindNames : Group(batch, kind) # << >> => PadsOk(kind, Pad(kind, p), Pad(kind, q))
  /\ launches \in Seq(LaunchesOf(batch, p, q)) /\ Queued(launches)
  /\ \A i \in 1..Len(launches) : Group(batch, launches[i].mode) # << >>

(* The kernel that moves the window of a chunk                             *)
Mover(kind) == IF kind = "decode" THEN "conv" ELSE "write"

ChunkHeld(kind, m) ==
  LET c == batch[Group(batch, kind)[m]]
  IN  IF HasRun(launches, ran, Mover(kind), kind, m - 1) THEN NewWindow(c) ELSE OldWindow(c.req)

Output(c, j) == [k \in 0..KernelSize-1 |-> History(c)[j + Dilation * k]]

RowHeld(p, kind, m, j) ==
  LET i == Group(batch, kind)[m]
      t == Starts(batch, Group(batch, kind), Pad(kind, p))[m-1] + j
  IN  added[First(batch)[i-1] + j + 1] =
        IF HasRun(launches, ran, "conv", kind, t) THEN <<Output(batch[i], j)>> ELSE << >>

StepHeld(p, q) ==
  /\ LaunchesHeld(p, q)
  /\ \A kind \in KindNames : \A m \in 1..Len(Group(batch, kind)) :
       /\ ChunkHeld(kind, m)
       /\ \A j \in 0..batch[Group(batch, kind)[m]].len-1 : RowHeld(p, kind, m, j)
  /\ DOMAIN added = 1..Len(RowsOf(batch))+q
  /\ \A w \in DOMAIN added : w > Len(RowsOf(batch)) => added[w] = << >>
  /\ \A r \in Live \ InBatch : OldWindow(r)

IInv ==
  /\ ReqsHeld
  /\ launches = << >> => ran = {}
  /\ batch = << >> => launches = << >> /\ \A r \in Live : OldWindow(r)
  /\ batch # << >> => BatchOk(batch) /\ \E p, q \in 0..MaxPad : StepHeld(p, q)

(* When a program ends, it has run too, and nothing else changes.          *)
Finished(S, P, a, ls, done, ls2, done2) ==
  /\ ls2 \in Seq(S) /\ Queued(ls2) /\ (ls2 = << >> => done2 = {})
  /\ \A i \in 1..Len(ls2) : \E k \in 1..Len(ls) : ls2[i] = ls[k]
  /\ \A kernel, kind, t : (kernel = ls[1].kernel /\ kind = ls[1].mode => t \in P) =>
       (HasRun(ls2, done2, kernel, kind, t) <=>
          HasRun(ls, done, kernel, kind, t) \/ (kernel = ls[1].kernel /\ kind = ls[1].mode /\ t = a))

LEMMA FinishIs ==
  ASSUME NEW S, NEW P, NEW a, NEW ls \in Seq(S), ls # << >>, Queued(ls), NEW done, NEW ls2, NEW done2,
         IF done \cup {a} = P THEN ls2 = Tail(ls) /\ done2 = {} ELSE ls2 = ls /\ done2 = done \cup {a}
  PROVE  Finished(S, P, a, ls, done, ls2, done2)
<1>1. Len(ls) \in Nat \ {0}
  OBVIOUS
<1>2. CASE done \cup {a} # P
  <2>1. ls2 = ls /\ done2 = done \cup {a}
    BY <1>2
  <2>2. ASSUME NEW kernel, NEW kind, NEW t
        PROVE  HasRun(ls2, done2, kernel, kind, t) <=>
                 HasRun(ls, done, kernel, kind, t) \/ (kernel = ls[1].kernel /\ kind = ls[1].mode /\ t = a)
    <3>1. t \in done2 <=> t \in done \/ t = a
      BY <2>1
    <3> QED BY <2>1, <3>1, Zenon DEF HasRun
  <2>3. \A i \in 1..Len(ls2) : \E k \in 1..Len(ls) : ls2[i] = ls[k]
    BY <2>1
  <2>4. ls2 \in Seq(S) /\ Queued(ls2) /\ (ls2 = << >> => done2 = {})
    BY <2>1
  <2>5. \A kernel, kind, t : (kernel = ls[1].kernel /\ kind = ls[1].mode => t \in P) =>
          (HasRun(ls2, done2, kernel, kind, t) <=>
             HasRun(ls, done, kernel, kind, t) \/ (kernel = ls[1].kernel /\ kind = ls[1].mode /\ t = a))
    BY <2>2
  <2> QED BY <2>3, <2>4, <2>5, Zenon DEF Finished
<1>3. CASE done \cup {a} = P
  <2>1. ls2 = Tail(ls) /\ done2 = {}
    BY <1>3
  <2>2. ls2 \in Seq(S) /\ Len(ls2) \in Nat /\ Len(ls) = Len(ls2) + 1 /\ \A i \in 1..Len(ls2) : ls2[i] = ls[i+1]
    BY <1>1, <2>1
  <2> DEFINE n == Len(ls2)
  <2>3. n \in Nat /\ Len(ls) = n + 1 /\ \A i \in 1..n : ls2[i] = ls[i+1] /\ i + 1 \in 1..Len(ls) /\ i + 1 # 1
    BY <2>2
  <2>4. \A k \in 1..Len(ls) : k # 1 => \E i \in 1..n : k = i + 1
    <3> SUFFICES ASSUME NEW k \in 1..Len(ls), k # 1 PROVE \E i \in 1..n : k = i + 1
      OBVIOUS
    <3>1. k - 1 \in 1..n /\ k = (k - 1) + 1
      BY <2>2
    <3> QED BY <3>1
  <2>5. 1 \in 1..Len(ls)
    BY <1>1
  <2> HIDE DEF n
  <2>6. Queued(ls2)
    <3>1. \A i \in 1..n : ls2[i].kernel = "write" => ls2[i].mode # "decode"
      BY <2>3 DEF Queued
    <3>2. \A i, k \in 1..n : ls2[i].kernel = ls2[k].kernel /\ ls2[i].mode = ls2[k].mode => i = k
      <4> SUFFICES ASSUME NEW i \in 1..n, NEW k \in 1..n, ls2[i].kernel = ls2[k].kernel, ls2[i].mode = ls2[k].mode
                   PROVE  i = k
        OBVIOUS
      <4>1. ls[i+1].kernel = ls[k+1].kernel /\ ls[i+1].mode = ls[k+1].mode /\ i + 1 \in 1..Len(ls) /\ k + 1 \in 1..Len(ls)
        BY <2>3
      <4>2. i + 1 = k + 1
        BY <4>1 DEF Queued
      <4> QED BY <4>2
    <3>3. ASSUME NEW i \in 1..n, ls2[i].kernel = "conv", ls2[i].mode # "decode"
          PROVE  \E k \in 1..n : i < k /\ ls2[k].kernel = "write" /\ ls2[k].mode = ls2[i].mode
      <4>1. ls2[i] = ls[i+1] /\ i + 1 \in 1..Len(ls)
        BY <2>3
      <4>2. PICK k \in 1..Len(ls) : i + 1 < k /\ ls[k].kernel = "write" /\ ls[k].mode = ls[i+1].mode
        BY <3>3, <4>1 DEF Queued
      <4>3. k # 1
        BY <4>2
      <4>4. PICK x \in 1..n : k = x + 1
        BY <2>4, <4>3
      <4>5. ls2[x] = ls[k] /\ i < x
        BY <2>3, <4>2, <4>4
      <4> QED BY <4>1, <4>2, <4>5
    <3> QED BY <3>1, <3>2, <3>3 DEF Queued, n
  <2>7. \A kernel, kind : Pending(ls2, kernel, kind) <=>
                            Pending(ls, kernel, kind) /\ ~(kernel = ls[1].kernel /\ kind = ls[1].mode)
    <3> SUFFICES ASSUME NEW kernel, NEW kind
                 PROVE  Pending(ls2, kernel, kind) <=>
                          Pending(ls, kernel, kind) /\ ~(kernel = ls[1].kernel /\ kind = ls[1].mode)
      OBVIOUS
    <3>1. ASSUME Pending(ls2, kernel, kind)
          PROVE  Pending(ls, kernel, kind) /\ ~(kernel = ls[1].kernel /\ kind = ls[1].mode)
      <4>1. PICK i \in 1..n : ls2[i].kernel = kernel /\ ls2[i].mode = kind
        BY <3>1 DEF Pending, n
      <4>2. ls[i+1].kernel = kernel /\ ls[i+1].mode = kind /\ i + 1 \in 1..Len(ls) /\ i + 1 # 1
        BY <2>3, <4>1
      <4> HIDE DEF n
      <4> QED BY <2>5, <4>2 DEF Pending, Queued
    <3>2. ASSUME Pending(ls, kernel, kind), ~(kernel = ls[1].kernel /\ kind = ls[1].mode)
          PROVE  Pending(ls2, kernel, kind)
      <4>1. PICK k \in 1..Len(ls) : ls[k].kernel = kernel /\ ls[k].mode = kind
        BY <3>2 DEF Pending
      <4>2. k # 1
        BY <3>2, <4>1
      <4>3. PICK i \in 1..n : k = i + 1
        BY <2>4, <4>2
      <4> QED BY <2>3, <4>1, <4>3 DEF Pending, n
    <3> QED BY <3>1, <3>2
  <2>8. ASSUME NEW kernel, NEW kind, NEW t, kernel = ls[1].kernel /\ kind = ls[1].mode => t \in P
        PROVE  HasRun(ls2, done2, kernel, kind, t) <=>
                 HasRun(ls, done, kernel, kind, t) \/ (kernel = ls[1].kernel /\ kind = ls[1].mode /\ t = a)
    <3>1. HasRun(ls2, done2, kernel, kind, t) <=> ~Pending(ls2, kernel, kind)
      BY <2>1 DEF HasRun
    <3>2. t \in P <=> t \in done \/ t = a
      BY <1>3
    <3> QED BY <2>7, <2>8, <3>1, <3>2, Zenon DEF HasRun
  <2>9. \A i \in 1..Len(ls2) : \E k \in 1..Len(ls) : ls2[i] = ls[k]
    BY <2>3 DEF n
  <2> QED BY <2>1, <2>2, <2>6, <2>8, <2>9, Zenon DEF Finished
<1> QED BY <1>2, <1>3

(* The same, of given values of the variables                              *)
HistoryOf(tl, dr, c) ==
  [i \in 0..StateLen + c.len - 1 |->
     IF i < StateLen THEN tl[c.req][i] ELSE 100 * c.req + dr[c.req] + (i - StateLen) + 1]

OldOf(ph, sl, na, tl, w, r) ==
  ph[r] # "new" => \A i \in 0..StateLen-1 : w[sl[r]][na[r] - 1 + i] = tl[r][i]

NewOf(sl, dr, tl, w, c) ==
  IF c.kind = "spec" THEN \A j \in 0..StateLen+c.len-2 : w[sl[c.req]][j] = HistoryOf(tl, dr, c)[j+1]
                     ELSE \A j \in 0..StateLen-1 : w[sl[c.req]][j] = HistoryOf(tl, dr, c)[c.len+j]

OutputOf(tl, dr, c, j) == [k \in 0..KernelSize-1 |-> HistoryOf(tl, dr, c)[j + Dilation * k]]

LaunchesWith(ph, sl, na, b, p, q) ==
  LET LaunchWith(kernel, kind, padReqs, padRows) ==
        LET members == Group(b, kind)
            n    == Len(members)
            size == Len(RowsOf(b))
            real == RowNumbers(b, members)
            Req(i) == b[members[i+1]].req
        IN  [kernel |-> kernel,
             mode   |-> kind,
             n      |-> n + padReqs,
             slots  |-> [i \in 0..n+padReqs-1 |-> IF i < n THEN sl[Req(i)] ELSE Null],
             acc    |-> [i \in 0..n+padReqs-1 |-> IF i < n THEN na[Req(i)] ELSE 1],
             init   |-> [i \in 0..n+padReqs-1 |-> i < n /\ ph[Req(i)] # "new"],
             starts |-> IF kind = "prefill" THEN PrefillStarts(b) ELSE Starts(b, members, padReqs),
             rows   |-> [t \in 0..Len(real)+padRows-1 |->
                           IF t < Len(real) THEN real[t+1] ELSE size + t + 1 - Len(real)]]
  IN  {LaunchWith(kernel, kind, Pad(kind, p), Pad(kind, q)) : kernel \in {"conv", "write"}, kind \in KindNames}

ChunkOfState(ph, sl, na, dr, tl, w, b, ls, done, kind, m) ==
  LET c == b[Group(b, kind)[m]]
  IN  IF HasRun(ls, done, Mover(kind), kind, m - 1) THEN NewOf(sl, dr, tl, w, c) ELSE OldOf(ph, sl, na, tl, w, c.req)

RowOfState(dr, tl, b, ls, done, out, p, kind, m, j) ==
  LET i == Group(b, kind)[m]
      t == Starts(b, Group(b, kind), Pad(kind, p))[m-1] + j
  IN  out[First(b)[i-1] + j + 1] =
        IF HasRun(ls, done, "conv", kind, t) THEN <<OutputOf(tl, dr, b[i], j)>> ELSE << >>

LEMMA Views ==
  /\ \A c : History(c) = HistoryOf(tail, drawn, c)
  /\ \A r : OldWindow(r) <=> OldOf(phase, slot, numAcc, tail, window, r)
  /\ \A c : NewWindow(c) <=> NewOf(slot, drawn, tail, window, c)
  /\ \A c, j : Output(c, j) = OutputOf(tail, drawn, c, j)
  /\ \A b, p, q : LaunchesOf(b, p, q) = LaunchesWith(phase, slot, numAcc, b, p, q)
  /\ \A kind, m : ChunkHeld(kind, m) <=>
       ChunkOfState(phase, slot, numAcc, drawn, tail, window, batch, launches, ran, kind, m)
  /\ \A p, kind, m, j : RowHeld(p, kind, m, j) <=>
       RowOfState(drawn, tail, batch, launches, ran, added, p, kind, m, j)
<1>1. \A r : OldWindow(r) <=> OldOf(phase, slot, numAcc, tail, window, r)
  BY DEF OldWindow, OldOf
<1>2. \A c : History(c) = HistoryOf(tail, drawn, c)
  BY DEF History, HistoryOf, Input
<1>3. \A c : NewWindow(c) <=> NewOf(slot, drawn, tail, window, c)
  BY <1>2 DEF NewWindow, NewOf
<1>4. \A c, j : Output(c, j) = OutputOf(tail, drawn, c, j)
  BY <1>2 DEF Output, OutputOf
<1>5. \A b, p, q : LaunchesOf(b, p, q) = LaunchesWith(phase, slot, numAcc, b, p, q)
  BY DEF LaunchesOf, LaunchesWith, Launch
<1>6. \A kind, m : ChunkHeld(kind, m) <=>
        ChunkOfState(phase, slot, numAcc, drawn, tail, window, batch, launches, ran, kind, m)
  BY <1>1, <1>3 DEF ChunkHeld, ChunkOfState
<1>7. \A p, kind, m, j : RowHeld(p, kind, m, j) <=>
        RowOfState(drawn, tail, batch, launches, ran, added, p, kind, m, j)
  BY <1>4 DEF RowHeld, RowOfState
<1> QED BY <1>1, <1>2, <1>3, <1>4, <1>5, <1>6, <1>7

LEMMA NextViews ==
  /\ \A r : OldWindow(r)' <=> OldOf(phase', slot', numAcc', tail', window', r)
  /\ \A p, q : LaunchesOf(batch, p, q)' = LaunchesWith(phase', slot', numAcc', batch', p, q)
  /\ \A kind, m : ChunkHeld(kind, m)' <=>
       ChunkOfState(phase', slot', numAcc', drawn', tail', window', batch', launches', ran', kind, m)
  /\ \A p, kind, m, j : RowHeld(p, kind, m, j)' <=>
       RowOfState(drawn', tail', batch', launches', ran', added', p, kind, m, j)
<1>1. \A r : OldWindow(r)' <=> OldOf(phase', slot', numAcc', tail', window', r)
  BY DEF OldWindow, OldOf
<1>5. \A p, q : LaunchesOf(batch, p, q)' = LaunchesWith(phase', slot', numAcc', batch', p, q)
  BY DEF LaunchesOf, LaunchesWith, Launch
<1>6. \A kind, m : ChunkHeld(kind, m)' <=>
        ChunkOfState(phase', slot', numAcc', drawn', tail', window', batch', launches', ran', kind, m)
  BY DEF ChunkHeld, ChunkOfState, OldWindow, OldOf, NewWindow, NewOf, History, HistoryOf, Input
<1>7. \A p, kind, m, j : RowHeld(p, kind, m, j)' <=>
        RowOfState(drawn', tail', batch', launches', ran', added', p, kind, m, j)
  BY DEF RowHeld, RowOfState, Output, OutputOf, History, HistoryOf, Input
<1> QED BY <1>1, <1>5, <1>6, <1>7

-----------------------------------------------------------------------------
(* The programs                                                            *)

(* What the kernel of the first launch works from                          *)
HeadOk(L, kind, p, q) ==
  /\ kind \in KindNames /\ L.mode = kind /\ L.kernel \in {"conv", "write"}
  /\ L.kernel = "write" => kind # "decode"
  /\ Group(batch, kind) # << >> /\ Len(Group(batch, kind)) \in Nat \ {0}
  /\ PadsOk(kind, Pad(kind, p), Pad(kind, q))
  /\ LaunchOk(L, batch, kind, Pad(kind, p), Pad(kind, q))

LEMMA HeadIs ==
  ASSUME BatchOk(batch), NEW p, NEW q, LaunchesHeld(p, q), launches # << >>
  PROVE  HeadOk(launches[1], launches[1].mode, p, q)
<1> DEFINE L == launches[1]
<1>1. L \in LaunchesOf(batch, p, q) /\ 1 \in 1..Len(launches)
  BY DEF LaunchesHeld
<1>2. PICK kernel \in {"conv", "write"}, kind \in KindNames :
        L = Launch(kernel, batch, kind, Pad(kind, p), Pad(kind, q))
  BY <1>1 DEF LaunchesOf
<1>3. L.kernel = kernel /\ L.mode = kind
  BY <1>2 DEF Launch
<1>4. Group(batch, kind) # << >> /\ PadsOk(kind, Pad(kind, p), Pad(kind, q))
  BY <1>1, <1>3 DEF LaunchesHeld
<1>5. LaunchOk(L, batch, kind, Pad(kind, p), Pad(kind, q))
  BY <1>2, <1>4, LaunchIs
<1>6. Len(Group(batch, kind)) \in Nat \ {0}
  <2>1. Group(batch, kind) \in Seq(1..Len(batch))
    BY GroupIs DEF Listed
  <2> QED BY <1>4, <2>1
<1>7. L.kernel = "write" => kind # "decode"
  BY <1>1, <1>3 DEF LaunchesHeld, Queued
<1> QED BY <1>3, <1>4, <1>5, <1>6, <1>7 DEF HeadOk

LEMMA ProgramsAre ==
  ASSUME ConvAssumption, ReqsHeld, BatchOk(batch), NEW p, NEW q, NEW L, NEW kind, HeadOk(L, kind, p, q),
         NEW m \in 1..Len(Group(batch, kind))
  PROVE  /\ L.kernel = Mover(kind) => m - 1 \in Programs(L)
         /\ L.kernel = "conv" => \A j \in 0..batch[Group(batch, kind)[m]].len-1 :
              Starts(batch, Group(batch, kind), Pad(kind, p))[m-1] + j \in Programs(L)
<1> DEFINE members == Group(batch, kind)
           n == Len(members)
           c == batch[members[m]]
           s == Starts(batch, members, Pad(kind, p))
<1>1. /\ PadsOk(kind, Pad(kind, p), Pad(kind, q)) /\ LaunchOk(L, batch, kind, Pad(kind, p), Pad(kind, q))
      /\ L.kernel \in {"conv", "write"} /\ n \in Nat \ {0} /\ kind \in KindNames
  BY DEF HeadOk
<1>2. L.starts = s /\ StartsOk(s, batch, members, Pad(kind, p))
  BY <1>1 DEF LaunchOk
<1>3. \A j \in 0..c.len-1 : L.starts[m-1] + j \in DOMAIN L.rows
  BY <1>1, SpanIs
<1>4. L.n = n + Pad(kind, p) /\ Pad(kind, p) \in Nat
  BY <1>1 DEF LaunchOk, PadsOk
<1>5. c.len \in Nat /\ c.len >= 1
  BY <1>1, MemberIs
<1>6. ASSUME L.kernel = "conv" PROVE Programs(L) = DOMAIN L.rows
  BY <1>6 DEF Programs
<1>7. ASSUME L.kernel = Mover(kind) PROVE m - 1 \in Programs(L)
  <2>1. CASE kind = "decode"
    <3>1. \A i \in 0..n : s[i] = i
      BY <1>1, <1>2, <1>4, <2>1, DecodeStarts
    <3>2. m - 1 \in 0..n /\ 0 \in 0..c.len-1 /\ (m - 1) + 0 = m - 1
      BY <1>1, <1>5
    <3>3. L.starts[m-1] = m - 1
      BY <1>2, <3>1, <3>2
    <3>4. m - 1 \in DOMAIN L.rows
      <4> HIDE DEF c, members
      <4> QED BY <1>3, <3>2, <3>3
    <3> QED BY <1>6, <1>7, <2>1, <3>4 DEF Mover
  <2>2. CASE kind # "decode"
    <3>1. Programs(L) = 0..L.n-1
      BY <1>7, <2>2 DEF Programs, Mover
    <3> QED BY <1>1, <1>4, <3>1
  <2> QED BY <2>1, <2>2
<1> QED BY <1>2, <1>3, <1>6, <1>7

(* What a program of the first launch leaves: the window and the rows it   *)
(* writes, and no others.                                                  *)
WindowsMoved(a) ==
  /\ \A kind \in KindNames : \A m \in 1..Len(Group(batch, kind)) :
       LET c == batch[Group(batch, kind)[m]]
       IN  IF launches[1].kernel = Mover(kind) /\ launches[1].mode = kind /\ m - 1 = a
           THEN NewOf(slot, drawn, tail, window', c)
           ELSE window'[slot[c.req]] = window[slot[c.req]]
  /\ \A r \in Live \ InBatch : window'[slot[r]] = window[slot[r]]

RowsAdded(p, a) ==
  /\ DOMAIN added' = DOMAIN added
  /\ \A w \in DOMAIN added : w > Len(RowsOf(batch)) => added'[w] = added[w]
  /\ \A kind \in KindNames : \A m \in 1..Len(Group(batch, kind)) :
       LET i == Group(batch, kind)[m]
           s == Starts(batch, Group(batch, kind), Pad(kind, p))
       IN  \A j \in 0..batch[i].len-1 :
             added'[First(batch)[i-1] + j + 1] =
               IF launches[1].kernel = "conv" /\ launches[1].mode = kind /\ s[m-1] + j = a
               THEN <<Output(batch[i], j)>> ELSE added[First(batch)[i-1] + j + 1]

LEMMA SameWindow ==
  ASSUME NEW ph, NEW sl, NEW na, NEW dr, NEW tl, NEW w1, NEW w2
  PROVE  /\ \A r : w1[sl[r]] = w2[sl[r]] => (OldOf(ph, sl, na, tl, w1, r) <=> OldOf(ph, sl, na, tl, w2, r))
         /\ \A c : w1[sl[c.req]] = w2[sl[c.req]] => (NewOf(sl, dr, tl, w1, c) <=> NewOf(sl, dr, tl, w2, c))
<1>1. ASSUME NEW r, w1[sl[r]] = w2[sl[r]] PROVE OldOf(ph, sl, na, tl, w1, r) <=> OldOf(ph, sl, na, tl, w2, r)
  BY <1>1 DEF OldOf
<1>2. ASSUME NEW c, w1[sl[c.req]] = w2[sl[c.req]] PROVE NewOf(sl, dr, tl, w1, c) <=> NewOf(sl, dr, tl, w2, c)
  BY <1>2 DEF NewOf
<1> QED BY <1>1, <1>2

LEMMA ProgramKeeps ==
  ASSUME ConvAssumption, ReqsHeld, BatchOk(batch), NEW p, NEW q, StepHeld(p, q), launches # << >>,
         NEW a, Finish(a), UNCHANGED <<reqVars, batch>>, WindowsMoved(a), RowsAdded(p, a)
  PROVE  StepHeld(p, q)' /\ (launches' = << >> => ran' = {})
<1> DEFINE L == launches[1]
           P == Programs(L)
           S == LaunchesOf(batch, p, q)
           Run(kernel, kind, t)  == HasRun(launches, ran, kernel, kind, t)
           Run2(kernel, kind, t) == HasRun(launches', ran', kernel, kind, t)
           Now(kernel, kind, t)  == kernel = L.kernel /\ kind = L.mode /\ t = a
           Members(kind) == Group(batch, kind)
           St(kind) == Starts(batch, Group(batch, kind), Pad(kind, p))
<1>1. HeadOk(L, L.mode, p, q) /\ launches \in Seq(S) /\ Queued(launches)
  BY HeadIs DEF StepHeld, LaunchesHeld
<1>2. /\ phase' = phase /\ slot' = slot /\ numAcc' = numAcc /\ drawn' = drawn /\ tail' = tail /\ batch' = batch
  BY DEF reqVars
<1>3. IF ran \cup {a} = P THEN launches' = Tail(launches) /\ ran' = {} ELSE launches' = launches /\ ran' = ran \cup {a}
  BY DEF Finish
<1>4. /\ launches' \in Seq(S) /\ Queued(launches') /\ (launches' = << >> => ran' = {})
      /\ \A i \in 1..Len(launches') : \E k \in 1..Len(launches) : launches'[i] = launches[k]
      /\ \A kernel, kind, t : (kernel = L.kernel /\ kind = L.mode => t \in P) =>
           (Run2(kernel, kind, t) <=> Run(kernel, kind, t) \/ Now(kernel, kind, t))
  <2> HIDE DEF S, P
  <2>1. Finished(S, P, a, launches, ran, launches', ran')
    BY <1>1, <1>3, FinishIs
  <2> QED BY <2>1, Zenon DEF Finished
<1>5. LaunchesHeld(p, q)'
  <2>1. S = LaunchesOf(batch, p, q)'
    BY <1>2, Views, NextViews
  <2>2. \A kind \in KindNames : Group(batch', kind) # << >> => PadsOk(kind, Pad(kind, p), Pad(kind, q))
    BY <1>2 DEF StepHeld, LaunchesHeld
  <2>3. \A i \in 1..Len(launches') : Group(batch', launches'[i].mode) # << >>
    BY <1>2, <1>4 DEF StepHeld, LaunchesHeld
  <2>4. launches' \in Seq(LaunchesOf(batch, p, q)') /\ Queued(launches')
    BY <1>4, <2>1
  <2> QED BY <2>2, <2>3, <2>4 DEF LaunchesHeld
<1> HIDE DEF P
<1>6. ASSUME NEW kind \in KindNames, NEW m \in 1..Len(Group(batch, kind))
      PROVE  ChunkOfState(phase, slot, numAcc, drawn, tail, window', batch, launches', ran', kind, m)
  <2> DEFINE c == batch[Members(kind)[m]]
             K == Mover(kind)
  <2>1. K = L.kernel /\ kind = L.mode => m - 1 \in P
    BY <1>1, ProgramsAre DEF P
  <2>2. Run2(K, kind, m - 1) <=> Run(K, kind, m - 1) \/ Now(K, kind, m - 1)
    <3> HIDE DEF Run, Run2, Now, K
    <3> QED BY <1>4, <2>1
  <2>3. IF Run(K, kind, m - 1) THEN NewOf(slot, drawn, tail, window, c)
                               ELSE OldOf(phase, slot, numAcc, tail, window, c.req)
    <3>1. ChunkHeld(kind, m)
      BY DEF StepHeld
    <3>2. ChunkOfState(phase, slot, numAcc, drawn, tail, window, batch, launches, ran, kind, m)
      BY <3>1, Views
    <3> QED BY <3>2 DEF ChunkOfState
  <2>4. IF Now(K, kind, m - 1) THEN NewOf(slot, drawn, tail, window', c) ELSE window'[slot[c.req]] = window[slot[c.req]]
    <3>1. IF L.kernel = K /\ L.mode = kind /\ m - 1 = a
          THEN NewOf(slot, drawn, tail, window', c) ELSE window'[slot[c.req]] = window[slot[c.req]]
      BY DEF WindowsMoved
    <3> QED BY <3>1
  <2> HIDE DEF Run, Run2, Now, c, K
  <2>5. IF Run2(K, kind, m - 1) THEN NewOf(slot, drawn, tail, window', c)
                                ELSE OldOf(phase, slot, numAcc, tail, window', c.req)
    <3>1. CASE Now(K, kind, m - 1)
      BY <2>2, <2>4, <3>1
    <3>2. CASE ~Now(K, kind, m - 1)
      <4>1. /\ NewOf(slot, drawn, tail, window', c) <=> NewOf(slot, drawn, tail, window, c)
            /\ OldOf(phase, slot, numAcc, tail, window', c.req) <=> OldOf(phase, slot, numAcc, tail, window, c.req)
        BY <2>4, <3>2, SameWindow
      <4> QED BY <2>2, <2>3, <3>2, <4>1
    <3> QED BY <3>1, <3>2
  <2> QED BY <2>5 DEF ChunkOfState, Run2, K, c
<1>7. ASSUME NEW kind \in KindNames, NEW m \in 1..Len(Group(batch, kind)),
             NEW j \in 0..batch[Group(batch, kind)[m]].len-1
      PROVE  RowOfState(drawn, tail, batch, launches', ran', added', p, kind, m, j)
  <2> DEFINE i == Members(kind)[m]
             t == St(kind)[m-1] + j
             w == First(batch)[i-1] + j + 1
             o == OutputOf(tail, drawn, batch[i], j)
  <2>1. "conv" = L.kernel /\ kind = L.mode => t \in P
    BY <1>1, ProgramsAre DEF P
  <2>2. Run2("conv", kind, t) <=> Run("conv", kind, t) \/ Now("conv", kind, t)
    <3> HIDE DEF Run, Run2, Now, t
    <3> QED BY <1>4, <2>1
  <2>3. added[w] = IF Run("conv", kind, t) THEN <<o>> ELSE << >>
    <3>1. RowHeld(p, kind, m, j)
      BY DEF StepHeld
    <3>2. RowOfState(drawn, tail, batch, launches, ran, added, p, kind, m, j)
      BY <3>1, Views
    <3> QED BY <3>2 DEF RowOfState
  <2>4. added'[w] = IF Now("conv", kind, t) THEN <<o>> ELSE added[w]
    <3>1. added'[w] = IF L.kernel = "conv" /\ L.mode = kind /\ t = a THEN <<Output(batch[i], j)>> ELSE added[w]
      BY DEF RowsAdded
    <3>2. Output(batch[i], j) = o
      BY Views
    <3> HIDE DEF t, o, w, i
    <3> QED BY <3>1, <3>2
  <2>5. added'[w] = IF Run2("conv", kind, t) THEN <<o>> ELSE << >>
    <3> HIDE DEF Run, Run2, Now, t, o, w, i
    <3> QED BY <2>2, <2>3, <2>4
  <2> QED BY <2>5 DEF RowOfState
<1>8. ASSUME NEW r \in Live \ InBatch PROVE OldOf(phase, slot, numAcc, tail, window', r)
  <2>1. OldOf(phase, slot, numAcc, tail, window, r) /\ window'[slot[r]] = window[slot[r]]
    BY Views DEF StepHeld, WindowsMoved
  <2> QED BY <2>1, SameWindow
<1>9. /\ DOMAIN added' = 1..Len(RowsOf(batch))+q
      /\ \A w \in DOMAIN added' : w > Len(RowsOf(batch)) => added'[w] = << >>
  BY DEF StepHeld, RowsAdded
<1>10. \A kind \in KindNames : \A m \in 1..Len(Group(batch', kind)) :
         /\ ChunkHeld(kind, m)'
         /\ \A j \in 0..batch'[Group(batch', kind)[m]].len-1 : RowHeld(p, kind, m, j)'
  BY <1>2, <1>6, <1>7, NextViews
<1>11. \A r : OldWindow(r)' <=> OldOf(phase', slot', numAcc', tail', window', r)
  BY NextViews
<1>12. \A r \in (Live \ InBatch)' : OldWindow(r)'
  <2>1. (Live \ InBatch)' = Live \ InBatch
    BY <1>2 DEF Live, InBatch
  <2> QED BY <1>2, <1>8, <1>11, <2>1
<1> QED BY <1>2, <1>4, <1>5, <1>9, <1>10, <1>12 DEF StepHeld

(* A program that is still to run has not run, and the window of its       *)
(* launch's chunks has not moved while their convolutions run.             *)
LEMMA Unrun ==
  ASSUME Queued(launches), launches # << >>, Len(launches) \in Nat,
         NEW kernel, kernel = launches[1].kernel, NEW kind, kind = launches[1].mode, NEW a, a \notin ran
  PROVE  /\ ~HasRun(launches, ran, kernel, kind, a)
         /\ kernel = "conv" /\ kind # "decode" => \A t : ~HasRun(launches, ran, "write", kind, t)
<1>1. 1 \in 1..Len(launches)
  OBVIOUS
<1>2. Pending(launches, kernel, kind)
  BY <1>1 DEF Pending
<1>3. ASSUME kernel = "conv", kind # "decode" PROVE Pending(launches, "write", kind)
  <2>1. PICK k \in 1..Len(launches) : launches[k].kernel = "write" /\ launches[k].mode = kind
    BY <1>1, <1>3 DEF Queued
  <2> QED BY <2>1 DEF Pending
<1>4. "conv" # "write"
  OBVIOUS
<1> QED BY <1>2, <1>3, <1>4 DEF HasRun

(* No two chunks of a batch write one window.                              *)
LEMMA SlotsDiffer ==
  ASSUME ConvAssumption, ReqsHeld, BatchOk(batch),
         NEW kind, NEW m \in 1..Len(Group(batch, kind))
  PROVE  LET r == batch[Group(batch, kind)[m]].req
         IN  /\ \A k2 : \A m2 \in 1..Len(Group(batch, k2)) :
                  slot[batch[Group(batch, k2)[m2]].req] = slot[r] => k2 = kind /\ m2 = m
             /\ \A r2 \in Live \ InBatch : slot[r2] # slot[r]
             /\ r \in InBatch
<1> DEFINE i == Group(batch, kind)[m]
           r == batch[i].req
<1>1. /\ i \in 1..Len(batch) /\ batch[i].kind = kind /\ r \in Live
  BY MemberIs
<1>2. \A q1, q2 \in Live : slot[q1] = slot[q2] => q1 = q2
  BY DEF ReqsHeld
<1>3. \A j1, j2 \in 1..Len(batch) : batch[j1].req = batch[j2].req => j1 = j2
  <2>1. DOMAIN batch = 1..Len(batch) /\ InOrder(batch)
    BY DEF BatchOk
  <2> QED BY <2>1 DEF InOrder
<1>4. ASSUME NEW k2, NEW m2 \in 1..Len(Group(batch, k2)), slot[batch[Group(batch, k2)[m2]].req] = slot[r]
      PROVE  k2 = kind /\ m2 = m
  <2> DEFINE i2 == Group(batch, k2)[m2]
  <2>1. i2 \in 1..Len(batch) /\ batch[i2].kind = k2 /\ batch[i2].req \in Live
    BY MemberIs
  <2>2. i2 = i
    BY <1>1, <1>2, <1>3, <1>4, <2>1
  <2>3. k2 = kind
    BY <1>1, <2>1, <2>2
  <2>4. Listed(batch, kind, Group(batch, kind))
    BY GroupIs
  <2>5. m2 \in 1..Len(Group(batch, kind)) /\ Group(batch, kind)[m2] = Group(batch, kind)[m]
    BY <2>2, <2>3
  <2>6. m2 = m
    <3>1. \A k, x \in 1..Len(Group(batch, kind)) : k < x => Group(batch, kind)[k] < Group(batch, kind)[x]
      BY <2>4 DEF Listed
    <3>2. ~(m2 < m) /\ ~(m < m2)
      BY <1>1, <2>5, <3>1
    <3> QED BY <2>5, <3>2
  <2> QED BY <2>3, <2>6
<1>5. r \in InBatch
  BY <1>1 DEF InBatch
<1>6. \A r2 \in Live \ InBatch : slot[r2] # slot[r]
  BY <1>1, <1>2, <1>5
<1> QED BY <1>4, <1>5, <1>6

WindowsType == window' \in [Slots \cup {Null} -> [0..StateWidth-1 -> Nat]]

(* The window of a chunk c moves on to W.                                  *)
MovesTo(c, W) ==
  /\ W \in [0..StateWidth-1 -> Nat]
  /\ window' = [window EXCEPT ![slot[c.req]] = W]
  /\ IF c.kind = "spec" THEN \A x \in 0..StateLen+c.len-2 : W[x] = History(c)[x+1]
                        ELSE \A x \in 0..StateLen-1 : W[x] = History(c)[c.len+x]

(* The window of one chunk moves on, or none does.                         *)
LEMMA MoveIs ==
  ASSUME ConvAssumption, ReqsHeld, BatchOk(batch),
         NEW kind \in KindNames, NEW m \in 1..Len(Group(batch, kind)),
         launches[1].kernel = Mover(kind), launches[1].mode = kind,
         NEW W, MovesTo(batch[Group(batch, kind)[m]], W)
  PROVE  WindowsMoved(m - 1) /\ WindowsType
<1> DEFINE c == batch[Group(batch, kind)[m]]
           u == slot[c.req]
<1>1. /\ c.kind = kind /\ u \in Slots /\ m \in Nat
  BY MemberIs
<1>2. window \in [Slots \cup {Null} -> [0..StateWidth-1 -> Nat]]
  BY DEF ReqsHeld
<1>3. WindowsType
  BY <1>1, <1>2 DEF WindowsType, MovesTo
<1>4. window'[u] = W /\ \A v : v # u => window'[v] = window[v]
  BY <1>1, <1>2 DEF MovesTo
<1>5. NewOf(slot, drawn, tail, window', c)
  <2>1. History(c) = HistoryOf(tail, drawn, c)
    BY Views
  <2>2. IF c.kind = "spec" THEN \A x \in 0..StateLen+c.len-2 : W[x] = History(c)[x+1]
                           ELSE \A x \in 0..StateLen-1 : W[x] = History(c)[c.len+x]
    BY DEF MovesTo
  <2> HIDE DEF c
  <2>3. window'[slot[c.req]] = W
    BY <1>4
  <2> QED BY <2>1, <2>2, <2>3 DEF NewOf
<1>6. ASSUME NEW k2 \in KindNames, NEW m2 \in 1..Len(Group(batch, k2))
      PROVE  LET c2 == batch[Group(batch, k2)[m2]]
             IN  IF launches[1].kernel = Mover(k2) /\ launches[1].mode = k2 /\ m2 - 1 = m - 1
                 THEN NewOf(slot, drawn, tail, window', c2)
                 ELSE window'[slot[c2.req]] = window[slot[c2.req]]
  <2> DEFINE c2 == batch[Group(batch, k2)[m2]]
  <2>1. CASE k2 = kind /\ m2 = m
    <3>1. c2 = c /\ launches[1].kernel = Mover(k2) /\ launches[1].mode = k2 /\ m2 - 1 = m - 1
      BY <2>1
    <3> HIDE DEF c2, c
    <3> QED BY <1>5, <3>1 DEF c2
  <2>2. CASE ~(k2 = kind /\ m2 = m)
    <3>1. slot[c2.req] # u
      BY <2>2, SlotsDiffer
    <3>2. ~(launches[1].mode = k2 /\ m2 - 1 = m - 1)
      BY <1>1, <2>2
    <3> HIDE DEF c2, u
    <3>3. window'[slot[c2.req]] = window[slot[c2.req]]
      BY <1>4, <3>1
    <3> QED BY <3>2, <3>3 DEF c2
  <2> QED BY <2>1, <2>2
<1>7. ASSUME NEW r \in Live \ InBatch PROVE window'[slot[r]] = window[slot[r]]
  <2>1. slot[r] # u
    BY SlotsDiffer
  <2> HIDE DEF u
  <2> QED BY <1>4, <2>1
<1> QED BY <1>3, <1>6, <1>7 DEF WindowsMoved

LEMMA StillIs ==
  ASSUME ReqsHeld, window' = window, NEW a,
         \A kind \in KindNames : \A m \in 1..Len(Group(batch, kind)) :
           ~(launches[1].kernel = Mover(kind) /\ launches[1].mode = kind /\ m - 1 = a)
  PROVE  WindowsMoved(a) /\ WindowsType
<1>1. WindowsType
  BY DEF WindowsType, ReqsHeld
<1>2. ASSUME NEW k2 \in KindNames, NEW m2 \in 1..Len(Group(batch, k2))
      PROVE  LET c2 == batch[Group(batch, k2)[m2]]
             IN  IF launches[1].kernel = Mover(k2) /\ launches[1].mode = k2 /\ m2 - 1 = a
                 THEN NewOf(slot, drawn, tail, window', c2)
                 ELSE window'[slot[c2.req]] = window[slot[c2.req]]
  <2> DEFINE c2 == batch[Group(batch, k2)[m2]]
             w == window[slot[c2.req]]
  <2>1. window'[slot[c2.req]] = w
    OBVIOUS
  <2>2. ~(launches[1].kernel = Mover(k2) /\ launches[1].mode = k2 /\ m2 - 1 = a)
    OBVIOUS
  <2> HIDE DEF w
  <2> QED BY <2>1, <2>2 DEF w
<1> QED BY <1>1, <1>2 DEF WindowsMoved

LEMMA WriteKeeps ==
  ASSUME ConvAssumption, ReqsHeld, BatchOk(batch), NEW p \in Nat, NEW q \in Nat, StepHeld(p, q),
         NEW r, WriteProgram(r)
  PROVE  StepHeld(p, q)' /\ (launches' = << >> => ran' = {}) /\ WindowsType
<1> DEFINE L == launches[1]
           kind == L.mode
           n == Len(Group(batch, kind))
           P == Pad(kind, p)
           Q == Pad(kind, q)
           empty == L.mode = "prefill" /\ L.starts[r+1] = L.starts[r]
<1>1. /\ launches # << >> /\ L.kernel = "write" /\ r \in Programs(L) /\ r \notin ran /\ Finish(r)
      /\ UNCHANGED <<reqVars, batch>> /\ added' = added
      /\ window' = IF L.slots[r] = Null \/ empty THEN window
                   ELSE [window EXCEPT ![L.slots[r]] = WrittenWindow(L, r)]
  BY DEF WriteProgram
<1>2. HeadOk(L, kind, p, q) /\ Queued(launches) /\ Len(launches) \in Nat
  BY <1>1, HeadIs DEF StepHeld, LaunchesHeld
<1>3. /\ kind \in {"spec", "prefill"} /\ n \in Nat \ {0} /\ PadsOk(kind, P, Q) /\ LaunchOk(L, batch, kind, P, Q)
      /\ kind \in KindNames /\ Mover(kind) = "write" /\ P \in Nat
  BY <1>1, <1>2, SMTT(60) DEF HeadOk, KindNames, Mover, PadsOk
<1>4. L.n = n + P /\ \A m \in n..n+P-1 : L.slots[m] = Null
  BY <1>3 DEF LaunchOk
<1>5. r \in 0..n+P-1
  <2>1. r \in 0..L.n-1
    BY <1>1 DEF Programs
  <2>2. L.n = n + P /\ n \in Nat /\ P \in Nat
    BY <1>3, <1>4
  <2> HIDE DEF n, P, L
  <2> QED BY <2>1, <2>2
<1>6. WindowsMoved(r) /\ WindowsType
  <2>1. CASE r < n
    <3> DEFINE m == r + 1
               c == batch[Group(batch, kind)[m]]
               W == WrittenWindow(L, r)
    <3>1. m \in 1..n /\ r = m - 1 /\ r + 1 = m
      BY <1>3, <1>5, <2>1
    <3> HIDE DEF m
    <3>2. ~HasRun(launches, ran, "write", kind, r)
      BY <1>1, <1>2, Unrun
    <3>3. OldWindow(c.req)
      <4>1. ChunkHeld(kind, m)
        BY <1>3, <3>1 DEF StepHeld
      <4> QED BY <1>3, <3>1, <3>2, <4>1 DEF ChunkHeld
    <3>4. /\ L.starts[m-1] \in Nat /\ L.starts[m] = L.starts[m-1] + c.len /\ L.slots[m-1] = slot[c.req]
      BY <1>3, <3>1, SpanIs
    <3>5. c.len \in Nat /\ c.len >= 1 /\ slot[c.req] # Null
      BY <3>1, MemberIs
    <3>6. ~(L.slots[r] = Null \/ empty)
      <4>1. L.starts[m] # L.starts[m-1]
        <5> HIDE DEF c, L
        <5> QED BY <3>4, <3>5
      <4>2. L.slots[r] # Null
        BY <3>1, <3>4, <3>5, SMTT(60)
      <4> QED BY <3>1, <4>1, <4>2
    <3>7. window' = [window EXCEPT ![slot[c.req]] = W]
      BY <1>1, <3>1, <3>4, <3>6, ZenonT(60)
    <3>8. MovesTo(c, WrittenWindow(L, m - 1))
      <4>1. W = WrittenWindow(L, m - 1) /\ c.kind = kind
        BY <3>1, MemberIs
      <4> HIDE DEF W, kind, L
      <4>2. /\ WrittenWindow(L, m - 1) \in [0..StateWidth-1 -> Nat]
            /\ kind = "spec" => \A x \in 0..StateLen+c.len-2 : WrittenWindow(L, m - 1)[x] = History(c)[x+1]
            /\ kind = "prefill" => \A x \in 0..StateLen-1 : WrittenWindow(L, m - 1)[x] = History(c)[c.len+x]
        BY <1>3, <3>1, <3>3, WrittenWindowIs
      <4> QED BY <1>3, <3>7, <4>1, <4>2 DEF MovesTo
    <3>9. WindowsMoved(m - 1) /\ WindowsType
      <4> HIDE DEF W
      <4> QED BY <1>1, <1>3, <3>1, <3>8, MoveIs
    <3> QED BY <3>1, <3>9
  <2>2. CASE ~(r < n)
    <3>1. r \in n..n+P-1
      BY <1>3, <1>5, <2>2
    <3>2. window' = window
      BY <1>1, <1>4, <3>1
    <3>3. \A k2 \in KindNames : \A m \in 1..Len(Group(batch, k2)) :
            ~(L.kernel = Mover(k2) /\ L.mode = k2 /\ m - 1 = r)
      BY <1>3, <3>1
    <3> QED BY <3>2, <3>3, StillIs
  <2> QED BY <2>1, <2>2
<1>7. RowsAdded(p, r)
  BY <1>1 DEF RowsAdded
<1> QED BY <1>1, <1>6, <1>7, ProgramKeeps

(* Stretches that follow each other do not overlap.                        *)
Ascends(s, n) == (\A i \in 0..n : s[i] \in Nat) /\ \A i, j \in 0..n : i <= j => s[i] <= s[j]
Within(s, m, w) == s[m-1] <= w /\ w < s[m]

LEMMA LocatedOnce ==
  ASSUME NEW n \in Nat, NEW s, Ascends(s, n), NEW w \in Nat,
         NEW m1 \in 1..n, Within(s, m1, w), NEW m2 \in 1..n, Within(s, m2, w)
  PROVE  m1 = m2
<1>1. ASSUME NEW x \in 1..n, NEW y \in 1..n, x < y, w < s[x], s[y-1] <= w PROVE FALSE
  <2>1. x \in 0..n /\ y - 1 \in 0..n /\ x <= y - 1
    BY <1>1
  <2>2. s[x] <= s[y-1] /\ s[x] \in Nat /\ s[y-1] \in Nat
    BY <2>1 DEF Ascends
  <2> QED BY <1>1, <2>2
<1>2. ~(m1 < m2) /\ ~(m2 < m1)
  BY <1>1 DEF Within
<1> QED BY <1>2

(* A row of the batch is the row of one token.                             *)
LEMMA RowsDiffer ==
  ASSUME BatchOk(batch), NEW i1 \in 1..Len(batch), NEW j1 \in 0..batch[i1].len-1,
         NEW i2 \in 1..Len(batch), NEW j2 \in 0..batch[i2].len-1,
         First(batch)[i1-1] + j1 + 1 = First(batch)[i2-1] + j2 + 1
  PROVE  i1 = i2 /\ j1 = j2
<1>1. \A i \in 1..Len(batch) : batch[i].len \in Nat /\ First(batch)[i-1] \in Nat
  <2>1. Len(batch) \in Nat /\ First(batch) \in [0..Len(batch) -> Nat] /\ \A i \in 1..Len(batch) : batch[i].len \in Nat
    BY ChunksAre, FirstIs
  <2>2. \A i \in 1..Len(batch) : i - 1 \in 0..Len(batch)
    BY <2>1
  <2> QED BY <2>1, <2>2
<1>2. ASSUME NEW i \in 1..Len(batch), NEW j \in 0..batch[i].len-1
      PROVE  RowsOf(batch)[First(batch)[i-1] + j + 1] = <<i, j>>
  <2> DEFINE y == j + 1
             f == First(batch)[i-1]
             len == batch[i].len
  <2>1. y \in 1..len /\ y - 1 = j /\ f + y = f + j + 1
    <3>1. len \in Nat /\ f \in Nat /\ j \in 0..len-1
      BY <1>1
    <3> HIDE DEF len, f
    <3> QED BY <3>1
  <2> HIDE DEF y
  <2>2. RowsOf(batch)[f + y] = <<i, y - 1>>
    BY <2>1, RowsAre
  <2> QED BY <2>1, <2>2
<1>3. <<i1, j1>> = <<i2, j2>>
  <2>1. RowsOf(batch)[First(batch)[i1-1] + j1 + 1] = <<i1, j1>>
    BY <1>2
  <2>2. RowsOf(batch)[First(batch)[i2-1] + j2 + 1] = <<i2, j2>>
    BY <1>2
  <2> QED BY <2>1, <2>2
<1> QED BY <1>3

LEMMA RowWithin ==
  ASSUME NEW b, BatchOk(b), NEW i \in 1..Len(b), NEW j \in 0..b[i].len-1
  PROVE  First(b)[i-1] + j + 1 \in 1..Len(RowsOf(b))
<1> DEFINE n == Len(b)
           f == First(b)
           len == b[i].len
<1>1. /\ n \in Nat /\ len \in Nat /\ f \in [0..n -> Nat] /\ f[i] = f[i-1] + len
      /\ \A x, y \in 0..n : x <= y => f[x] <= f[y]
  BY ChunksAre, FirstIs
<1>2. i - 1 \in 0..n /\ i \in 0..n /\ n \in 0..n /\ i <= n
  BY <1>1
<1>3. f[i-1] \in Nat /\ f[n] \in Nat /\ f[i] <= f[n]
  BY <1>1, <1>2
<1>4. Len(RowsOf(b)) = f[n]
  BY RowsAre
<1> HIDE DEF f, len, n
<1>5. f[i-1] + j + 1 \in 1..f[n]
  <2>1. j \in 0..len-1
    BY DEF len
  <2> QED BY <1>1, <1>3, <2>1, SMTT(60)
<1> QED BY <1>4, <1>5 DEF f

(* Token j of a chunk gets its output, the rest of the rows stay.          *)
AddsTo(w, o) == added' = [added EXCEPT ![w] = Append(@, o)]

LEMMA AddIs ==
  ASSUME ConvAssumption, ReqsHeld, BatchOk(batch), NEW p \in Nat, NEW q \in Nat, StepHeld(p, q),
         NEW kind \in KindNames, NEW m \in 1..Len(Group(batch, kind)),
         NEW j \in 0..batch[Group(batch, kind)[m]].len-1, NEW a,
         a = Starts(batch, Group(batch, kind), Pad(kind, p))[m-1] + j,
         launches[1].kernel = "conv", launches[1].mode = kind,
         ~HasRun(launches, ran, "conv", kind, a),
         AddsTo(First(batch)[Group(batch, kind)[m] - 1] + j + 1, Output(batch[Group(batch, kind)[m]], j))
  PROVE  RowsAdded(p, a)
<1> DEFINE members == Group(batch, kind)
           n == Len(members)
           i == members[m]
           w == First(batch)[i-1] + j + 1
           o == Output(batch[i], j)
           s == Starts(batch, members, Pad(kind, p))
<1>1. \A k2 : \A m2 \in 1..Len(Group(batch, k2)) : Group(batch, k2)[m2] \in 1..Len(batch) /\ batch[Group(batch, k2)[m2]].kind = k2
  BY MemberIs
<1>2. w \in 1..Len(RowsOf(batch)) /\ Len(RowsOf(batch)) \in Nat
  BY <1>1, RowWithin, RowsAre
<1>3. w \in DOMAIN added /\ DOMAIN added = 1..Len(RowsOf(batch))+q
  <2>1. DOMAIN added = 1..Len(RowsOf(batch))+q
    BY DEF StepHeld
  <2> HIDE DEF w
  <2> QED BY <1>2, <2>1
<1>4. added[w] = << >>
  <2>1. RowHeld(p, kind, m, j)
    BY DEF StepHeld
  <2> QED BY <2>1 DEF RowHeld
<1>5. DOMAIN added' = DOMAIN added /\ added'[w] = <<o>> /\ \A v \in DOMAIN added : v # w => added'[v] = added[v]
  <2>1. added' = [added EXCEPT ![w] = Append(added[w], o)]
    BY DEF AddsTo
  <2> HIDE DEF w, o
  <2> QED BY <1>3, <1>4, <2>1
<1> HIDE DEF w, o
<1>6. \A v \in DOMAIN added : v > Len(RowsOf(batch)) => added'[v] = added[v]
  BY <1>2, <1>3, <1>5
<1>7. /\ n \in Nat /\ StartsOk(s, batch, members, Pad(kind, p)) /\ Pad(kind, p) \in Nat
      /\ \A x \in 1..n : batch[members[x]].len \in Nat
  <2>1. Pad(kind, p) \in Nat
    BY DEF Pad
  <2>2. Listed(batch, kind, members)
    BY GroupIs
  <2>3. n \in Nat
    BY <2>2 DEF Listed
  <2> QED BY <1>1, <2>1, <2>2, <2>3, GroupStarts, ChunksAre, ZenonT(60)
<1>8. ASSUME NEW m2 \in 1..n, NEW j2 \in 0..batch[members[m2]].len-1, s[m2-1] + j2 = a
      PROVE  m2 = m /\ j2 = j
  <2> DEFINE l1 == batch[members[m]].len
             l2 == batch[members[m2]].len
  <2>1. /\ \A x \in 0..n : s[x] \in Nat
        /\ \A x, y \in 0..n : x <= y => s[x] <= s[y]
        /\ s[m] = s[m-1] + l1 /\ s[m2] = s[m2-1] + l2 /\ l1 \in Nat /\ l2 \in Nat
    <3>1. \A x \in 0..n : x \in 0..n+Pad(kind, p)
      BY <1>7
    <3> HIDE DEF s, members
    <3> QED BY <1>7, <3>1 DEF StartsOk, members, n
  <2>2. s[m-1] \in Nat /\ s[m2-1] \in Nat /\ s[m-1] + j = a
    <3>1. m - 1 \in 0..n /\ m2 - 1 \in 0..n
      <4>1. m \in 1..n /\ n \in Nat
        BY <1>7
      <4> HIDE DEF n
      <4> QED BY <4>1
    <3> QED BY <2>1, <3>1
  <2>3. j \in 0..l1-1 /\ j2 \in 0..l2-1
    OBVIOUS
  <2> HIDE DEF l1, l2, s
  <2>4. a \in Nat /\ s[m-1] <= a /\ a < s[m] /\ s[m2-1] <= a /\ a < s[m2]
    <3> DEFINE u1 == s[m-1]
               u2 == s[m2-1]
               v1 == s[m]
               v2 == s[m2]
    <3>1. /\ u1 \in Nat /\ u2 \in Nat /\ l1 \in Nat /\ l2 \in Nat /\ v1 = u1 + l1 /\ v2 = u2 + l2
          /\ u1 + j = a /\ u2 + j2 = a
      BY <1>8, <2>1, <2>2
    <3> HIDE DEF u1, u2, v1, v2
    <3>2. a \in Nat /\ u1 <= a /\ a < v1 /\ u2 <= a /\ a < v2
      BY <2>3, <3>1, SMTT(60)
    <3> QED BY <3>2 DEF u1, u2, v1, v2
  <2>5. m2 = m
    <3>1. n \in Nat /\ m \in 1..n
      BY <1>7
    <3>2. Ascends(s, n) /\ Within(s, m, a) /\ Within(s, m2, a) /\ a \in Nat
      BY <2>1, <2>4 DEF Ascends, Within
    <3> HIDE DEF n
    <3> QED BY <3>1, <3>2, LocatedOnce
  <2> QED BY <1>8, <2>2, <2>3, <2>5
<1>9. ASSUME NEW k2 \in KindNames, NEW m2 \in 1..Len(Group(batch, k2)),
             NEW j2 \in 0..batch[Group(batch, k2)[m2]].len-1
      PROVE  LET i2 == Group(batch, k2)[m2]
                 v  == First(batch)[i2-1] + j2 + 1
             IN  added'[v] =
                   IF launches[1].kernel = "conv" /\ launches[1].mode = k2
                      /\ Starts(batch, Group(batch, k2), Pad(k2, p))[m2-1] + j2 = a
                   THEN <<Output(batch[i2], j2)>> ELSE added[v]
  <2> DEFINE i2 == Group(batch, k2)[m2]
             v == First(batch)[i2-1] + j2 + 1
             t == Starts(batch, Group(batch, k2), Pad(k2, p))[m2-1] + j2
  <2>1. CASE kind = k2 /\ t = a
    <3>1. m2 = m /\ j2 = j
      BY <1>8, <2>1
    <3>2. v = w /\ Output(batch[i2], j2) = o
      BY <2>1, <3>1 DEF w, o
    <3> HIDE DEF v, i2, t
    <3> QED BY <1>5, <2>1, <3>2 DEF v, i2, t
  <2>2. CASE ~(kind = k2 /\ t = a)
    <3>1. v # w
      <4>1. ASSUME v = w PROVE FALSE
        <5>1. i2 = i /\ j2 = j
          <6>1. First(batch)[i-1] + j + 1 = First(batch)[i2-1] + j2 + 1
            BY <4>1 DEF w
          <6>2. i \in 1..Len(batch) /\ i2 \in 1..Len(batch) /\ j \in 0..batch[i].len-1 /\ j2 \in 0..batch[i2].len-1
            BY <1>1
          <6> HIDE DEF i, i2
          <6> QED BY <6>1, <6>2, RowsDiffer
        <5>2. kind = k2
          BY <1>1, <5>1
        <5>3. Listed(batch, kind, members)
          BY GroupIs
        <5>4. m2 = m
          <6>1. m2 \in 1..n /\ members[m2] = members[m] /\ members[m] \in Nat
            BY <1>1, <5>1, <5>2
          <6>2. \A x, y \in 1..n : x < y => members[x] < members[y]
            BY <5>3 DEF Listed
          <6>3. m \in 1..n
            OBVIOUS
          <6>4. ~(m2 < m) /\ ~(m < m2)
            <7> HIDE DEF members, n
            <7> QED BY <6>1, <6>2, <6>3
          <6> QED BY <6>1, <6>4
        <5>5. t = a
          BY <5>1, <5>2, <5>4
        <5> QED BY <2>2, <5>2, <5>5
      <4> QED BY <4>1
    <3>2. v \in DOMAIN added
      <4>1. v \in 1..Len(RowsOf(batch))
        BY <1>1, RowWithin
      <4> HIDE DEF v
      <4> QED BY <1>2, <1>3, <4>1
    <3>3. added'[v] = added[v]
      BY <1>5, <3>1, <3>2
    <3>4. ~(launches[1].mode = k2 /\ t = a)
      BY <2>2
    <3> HIDE DEF v, t
    <3> QED BY <3>3, <3>4 DEF v, t
  <2> QED BY <2>1, <2>2
<1> QED BY <1>5, <1>6, <1>9 DEF RowsAdded

LEMMA ConvKeeps ==
  ASSUME ConvAssumption, ReqsHeld, BatchOk(batch), NEW p \in Nat, NEW q \in Nat, StepHeld(p, q),
         NEW t, ConvProgram(t)
  PROVE  StepHeld(p, q)' /\ (launches' = << >> => ran' = {}) /\ WindowsType
<1> DEFINE L == launches[1]
           kind == L.mode
           members == Group(batch, kind)
           n == Len(members)
           P == Pad(kind, p)
           Q == Pad(kind, q)
           s == Starts(batch, members, P)
           r == RequestOf(L, t)
           row == [k \in 0..KernelSize-1 |-> Tap(L, t, k)]
<1>1. /\ launches # << >> /\ L.kernel = "conv" /\ t \in Programs(L) /\ t \notin ran /\ Finish(t)
      /\ UNCHANGED <<reqVars, batch>>
      /\ added' = IF OutOk(L, t) THEN [added EXCEPT ![L.rows[t]] = Append(@, row)] ELSE added
      /\ window' = IF UpdatesWindow(L, r) THEN [window EXCEPT ![L.slots[r]] = DecodeWindow(L, r)] ELSE window
  BY DEF ConvProgram
<1>2. HeadOk(L, kind, p, q) /\ Queued(launches) /\ Len(launches) \in Nat
  BY <1>1, HeadIs DEF StepHeld, LaunchesHeld
<1>3. /\ kind \in KindNames /\ n \in Nat \ {0} /\ members # << >> /\ PadsOk(kind, P, Q) /\ LaunchOk(L, batch, kind, P, Q)
      /\ P \in Nat /\ Q \in Nat
  BY <1>1, <1>2, SMTT(60) DEF HeadOk, PadsOk
<1>4. /\ L.starts = s /\ StartsOk(s, batch, members, P) /\ DOMAIN L.rows = 0..s[n]+Q-1
      /\ \A m \in 1..n : \A j \in 0..batch[members[m]].len-1 : L.rows[s[m-1] + j] = First(batch)[members[m] - 1] + j + 1
  BY <1>3 DEF LaunchOk
<1>5. /\ Ascends(s, n) /\ s[0] = 0
      /\ \A m \in 1..n : s[m] = s[m-1] + batch[members[m]].len
  <2>1. \A x \in 0..n : x \in 0..n+P
    BY <1>3
  <2>2. \A x \in 0..n+P : s[x] \in Nat
    BY <1>4 DEF StartsOk
  <2>3. \A x, y \in 0..n+P : x <= y => s[x] <= s[y]
    BY <1>4 DEF StartsOk
  <2>4. Ascends(s, n)
    <3> HIDE DEF s, n, P
    <3> QED BY <2>1, <2>2, <2>3 DEF Ascends
  <2> QED BY <1>4, <2>4 DEF StartsOk
<1>6. s[n] \in Nat /\ t \in Nat /\ t < s[n] + Q
  <2>1. n \in 0..n
    BY <1>3
  <2>2. s[n] \in Nat
    BY <1>5, <2>1 DEF Ascends
  <2>3. t \in 0..s[n]+Q-1
    BY <1>1, <1>4 DEF Programs
  <2> HIDE DEF s, n, Q
  <2> QED BY <1>3, <2>2, <2>3, SMTT(60)
<1>7. /\ ~HasRun(launches, ran, "conv", kind, t)
      /\ kind # "decode" => \A x : ~HasRun(launches, ran, "write", kind, x)
  BY <1>1, <1>2, Unrun
<1>8. ASSUME kind # "decode", window' = window PROVE WindowsMoved(t) /\ WindowsType
  <2>1. \A k2 \in KindNames : \A m \in 1..Len(Group(batch, k2)) :
          ~(L.kernel = Mover(k2) /\ L.mode = k2 /\ m - 1 = t)
    BY <1>1, <1>8 DEF Mover
  <2> QED BY <1>8, <2>1, StillIs
<1>9. WindowsMoved(t) /\ WindowsType /\ RowsAdded(p, t)
  <2>1. CASE t < s[n]
    <3>1. PICK m \in 1..n : s[m-1] <= t /\ t < s[m]
      <4>1. \A i \in 0..n : s[i] \in Nat
        BY <1>5 DEF Ascends
      <4> HIDE DEF s, n
      <4> QED BY <1>3, <1>5, <1>6, <2>1, <4>1, Located
    <3> DEFINE i == members[m]
               c == batch[i]
               j == t - s[m-1]
    <3>2. /\ i \in 1..Len(batch) /\ c.kind = kind /\ slot[c.req] # Null
          /\ c.len \in Nat /\ c.len >= 1 /\ (kind = "decode" => c.len = 1)
      BY MemberIs
    <3>3. m - 1 \in 0..n /\ m \in Nat /\ s[m-1] \in Nat
      <4>1. m \in 1..n /\ n \in Nat
        BY <1>3
      <4> HIDE DEF n, s
      <4> QED BY <1>5, <4>1 DEF Ascends
    <3>4. j \in 0..c.len-1 /\ t = s[m-1] + j
      <4>1. s[m] = s[m-1] + c.len
        BY <1>5
      <4> HIDE DEF s, c
      <4> QED BY <1>6, <3>1, <3>2, <3>3, <4>1, SMTT(60)
    <3> HIDE DEF j
    <3>5. /\ RequestOf(L, L.starts[m-1] + j) = m - 1 /\ OutOk(L, L.starts[m-1] + j)
      BY <1>3, <3>4, RequestIs
    <3>6. r = m - 1 /\ OutOk(L, t)
      BY <1>4, <3>4, <3>5
    <3>7. kind = "decode" => t = m - 1
      <4> SUFFICES ASSUME kind = "decode" PROVE t = m - 1
        OBVIOUS
      <4>1. s[m-1] = m - 1
        <5>1. \A x \in 0..n : s[x] = x
          BY <1>3, <1>4, DecodeStarts
        <5> HIDE DEF s, n
        <5> QED BY <3>3, <5>1
      <4>2. j = 0
        BY <3>2, <3>4
      <4> HIDE DEF s
      <4> QED BY <3>3, <3>4, <4>1, <4>2
    <3>8. OldWindow(c.req)
      <4>1. ~HasRun(launches, ran, Mover(kind), kind, m - 1)
        BY <1>7, <3>7 DEF Mover
      <4>2. ChunkHeld(kind, m)
        BY <1>3 DEF StepHeld
      <4> QED BY <4>1, <4>2 DEF ChunkHeld
    <3>9. row = Output(c, j)
      <4>1. ASSUME NEW k \in 0..KernelSize-1 PROVE Tap(L, t, k) = History(c)[j + Dilation * k]
        <5>1. Tap(L, L.starts[m-1] + j, k) = History(c)[j + Dilation * k]
          BY <1>3, <3>4, <3>8, TapIs
        <5> QED BY <1>4, <3>4, <5>1
      <4> QED BY <4>1 DEF Output
    <3>10. L.rows[t] = First(batch)[i-1] + j + 1
      BY <1>4, <3>4, SMTT(60)
    <3>11. AddsTo(First(batch)[i-1] + j + 1, Output(c, j))
      <4> HIDE DEF row
      <4>1. added' = [added EXCEPT ![L.rows[t]] = Append(@, row)]
        BY <1>1, <3>6, SMTT(60)
      <4> QED BY <3>9, <3>10, <4>1 DEF AddsTo
    <3>12. RowsAdded(p, t)
      <4> HIDE DEF row
      <4> QED BY <1>1, <1>3, <1>7, <3>4, <3>11, AddIs, ZenonT(60)
    <3>13. CASE kind = "decode"
      <4>1. L.slots[m-1] = slot[c.req]
        BY <1>3, SpanIs
      <4>2. window' = [window EXCEPT ![slot[c.req]] = DecodeWindow(L, m - 1)]
        BY <1>1, <3>2, <3>6, <3>13, <4>1 DEF UpdatesWindow
      <4>3. /\ DecodeWindow(L, m - 1) \in [0..StateWidth-1 -> Nat]
            /\ \A x \in 0..StateLen-1 : DecodeWindow(L, m - 1)[x] = History(c)[c.len + x]
        <5>1. PadsOk("decode", P, Q) /\ LaunchOk(L, batch, "decode", P, Q) /\ m \in 1..Len(Group(batch, "decode"))
              /\ OldWindow(batch[Group(batch, "decode")[m]].req) /\ c = batch[Group(batch, "decode")[m]]
          BY <1>3, <3>8, <3>13
        <5> HIDE DEF L, c, P, Q
        <5> QED BY <5>1, DecodeWindowIs
      <4>4. MovesTo(c, DecodeWindow(L, m - 1))
        BY <3>2, <3>13, <4>2, <4>3 DEF MovesTo
      <4>5. WindowsMoved(m - 1) /\ WindowsType
        <5>1. L.kernel = Mover(kind)
          BY <1>1, <3>13 DEF Mover
        <5> QED BY <1>3, <4>4, <5>1, MoveIs
      <4> QED BY <3>7, <3>12, <3>13, <4>5
    <3>14. CASE kind # "decode"
      <4>1. window' = window
        BY <1>1, <3>14 DEF UpdatesWindow
      <4> QED BY <1>8, <3>12, <3>14, <4>1
    <3> QED BY <3>13, <3>14
  <2>2. CASE ~(t < s[n])
    <3>1. t \in L.starts[n]..L.starts[n]+Q-1
      <4>1. t \in s[n]..s[n]+Q-1
        <5> HIDE DEF s, n, Q
        <5> QED BY <1>3, <1>6, <2>2
      <4> QED BY <1>4, <4>1
    <3>2. ~OutOk(L, t) /\ ~UpdatesWindow(L, r)
      BY <1>3, <3>1, PaddingIs
    <3>3. window' = window /\ added' = added
      BY <1>1, <3>2
    <3>4. ASSUME NEW m \in 1..n, NEW j \in 0..batch[members[m]].len-1 PROVE s[m-1] + j # t
      <4>1. m - 1 \in 0..n /\ m \in 0..n /\ n \in 0..n /\ m <= n
        <5>1. m \in 1..n /\ n \in Nat
          BY <1>3
        <5> HIDE DEF n
        <5> QED BY <5>1
      <4>2. s[m-1] \in Nat /\ s[m] \in Nat /\ s[m] <= s[n]
        BY <1>5, <4>1 DEF Ascends
      <4> DEFINE l == batch[members[m]].len
      <4>3. s[m] = s[m-1] + l /\ j \in 0..l-1
        BY <1>5
      <4>4. l \in Nat
        BY MemberIs
      <4> HIDE DEF s, l, n
      <4> QED BY <1>6, <2>2, <4>2, <4>3, <4>4
    <3>5. RowsAdded(p, t)
      <4>1. ASSUME NEW k2 \in KindNames, NEW m2 \in 1..Len(Group(batch, k2)),
                   NEW j2 \in 0..batch[Group(batch, k2)[m2]].len-1
            PROVE  ~(L.mode = k2 /\ Starts(batch, Group(batch, k2), Pad(k2, p))[m2-1] + j2 = t)
        BY <3>4
      <4> QED BY <3>3, <4>1 DEF RowsAdded
    <3>6. WindowsMoved(t) /\ WindowsType
      <4>1. CASE kind # "decode"
        BY <1>8, <3>3, <4>1
      <4>2. CASE kind = "decode"
        <5>1. \A x \in 0..n : s[x] = x
          BY <1>3, <1>4, <4>2, DecodeStarts
        <5>2. t >= n
          <6> HIDE DEF s, n
          <6> QED BY <1>3, <1>6, <2>2, <5>1
        <5>3. \A m \in 1..n : m - 1 # t
          <6>1. n \in Nat /\ t \in Nat
            BY <1>3, <1>6
          <6> HIDE DEF n
          <6> QED BY <5>2, <6>1
        <5>4. \A k2 \in KindNames : \A m \in 1..Len(Group(batch, k2)) :
                ~(L.kernel = Mover(k2) /\ L.mode = k2 /\ m - 1 = t)
          BY <5>3
        <5> QED BY <3>3, <5>4, StillIs
      <4> QED BY <4>1, <4>2
    <3> QED BY <3>5, <3>6
  <2> QED BY <2>1, <2>2
<1> QED BY <1>1, <1>9, ProgramKeeps

-----------------------------------------------------------------------------
(* The scheduler and the sampler                                           *)

LEMMA MoversRun ==
  ASSUME NEW p, NEW q, StepHeld(p, q), launches = << >>
  PROVE  \A kind \in KindNames : \A m \in 1..Len(Group(batch, kind)) :
           LET i == Group(batch, kind)[m]
               w == First(batch)[i-1]
           IN  /\ NewWindow(batch[i])
               /\ \A j \in 0..batch[i].len-1 : added[w + j + 1] = <<Output(batch[i], j)>>
<1>1. \A kernel, kind, t : HasRun(launches, ran, kernel, kind, t)
  <2>1. Len(launches) = 0
    OBVIOUS
  <2> QED BY <2>1 DEF HasRun, Pending
<1>2. ASSUME NEW kind \in KindNames, NEW m \in 1..Len(Group(batch, kind)) PROVE NewWindow(batch[Group(batch, kind)[m]])
  <2>1. ChunkHeld(kind, m)
    BY DEF StepHeld
  <2> QED BY <1>1, <2>1 DEF ChunkHeld
<1>3. ASSUME NEW kind \in KindNames, NEW m \in 1..Len(Group(batch, kind)), NEW j \in 0..batch[Group(batch, kind)[m]].len-1
      PROVE  added[First(batch)[Group(batch, kind)[m] - 1] + j + 1] = <<Output(batch[Group(batch, kind)[m]], j)>>
  <2>1. RowHeld(p, kind, m, j)
    BY DEF StepHeld
  <2> QED BY <1>1, <2>1 DEF RowHeld
<1> QED BY <1>2, <1>3

LEMMA ChunkServed ==
  ASSUME BatchOk(batch), NEW p, NEW q, StepHeld(p, q), launches = << >>, NEW i \in 1..Len(batch)
  PROVE  NewWindow(batch[i]) /\ \A j \in 0..batch[i].len-1 : added[First(batch)[i-1] + j + 1] = <<Output(batch[i], j)>>
<1>1. batch[i].kind \in KindNames
  BY ChunksAre
<1>2. Listed(batch, batch[i].kind, Group(batch, batch[i].kind))
  BY GroupIs
<1>3. PICK m \in 1..Len(Group(batch, batch[i].kind)) : Group(batch, batch[i].kind)[m] = i
  BY <1>2 DEF Listed
<1> QED BY <1>1, <1>3, MoversRun

LEMMA AcceptKeeps ==
  ASSUME ConvAssumption, IInv, NEW acc, Accept(acc)
  PROVE  IInv'
<1> DEFINE I(r) == ChunkOf(r)
           C(r) == batch[I(r)]
           H(r) == History(C(r))
<1>1. /\ batch # << >> /\ launches = << >> /\ launches' = << >> /\ batch' = << >> /\ ran' = ran /\ ran = {}
      /\ slot' = slot /\ window' = window
  BY DEF Accept, Served, IInv
<1>2. ReqsHeld /\ BatchOk(batch) /\ \E p, q \in 0..MaxPad : StepHeld(p, q)
  BY <1>1 DEF IInv
<1>3. /\ StateLen \in Nat \ {0} /\ SpecQueryLen \in Nat \ {0}
  BY SizesAre
<1>4. ASSUME NEW r \in InBatch
      PROVE  /\ I(r) \in 1..Len(batch) /\ C(r).req = r /\ r \in Live /\ r \in Reqs
             /\ C(r).len \in Nat /\ C(r).len >= 1 /\ (C(r).kind = "spec" => C(r).len <= SpecQueryLen)
             /\ NewWindow(C(r)) /\ acc[I(r)] \in 1..C(r).len /\ (C(r).kind # "spec" => acc[I(r)] = C(r).len)
             /\ \A x \in 0..StateLen + C(r).len - 1 : H(r)[x] \in Nat
  <2>1. \E i \in 1..Len(batch) : batch[i].req = r
    BY DEF InBatch
  <2>2. I(r) \in 1..Len(batch) /\ C(r).req = r
    BY <2>1 DEF ChunkOf
  <2>3. C(r).len \in Nat /\ C(r).len >= 1
    BY <1>2, <2>2, ChunksAre
  <2>4. r \in Live /\ (C(r).kind = "spec" => C(r).len <= SpecQueryLen)
    BY <1>2, <2>2 DEF BatchOk
  <2>5. r \in Reqs
    BY <2>4 DEF Live
  <2>6. NewWindow(C(r))
    BY <1>1, <1>2, <2>2, ChunkServed
  <2>7. DOMAIN batch = 1..Len(batch)
    BY <1>2 DEF BatchOk
  <2>8. IF C(r).kind = "spec" THEN acc[I(r)] \in 1..C(r).len ELSE acc[I(r)] = C(r).len
    BY <2>2, <2>7 DEF Accept
  <2>9. \A x \in 0..StateLen + C(r).len - 1 : H(r)[x] \in Nat
    BY <1>2, <2>2, <2>3, <2>5, HistoryType
  <2>10. acc[I(r)] \in 1..C(r).len
    <3> HIDE DEF C, I
    <3> QED BY <2>3, <2>8
  <2> HIDE DEF C, I, H
  <2> QED BY <2>2, <2>3, <2>4, <2>5, <2>6, <2>8, <2>9, <2>10
<1>5. /\ phase' = [r \in Reqs |-> IF r \notin InBatch THEN phase[r] ELSE IF C(r).kind = "spec" THEN "spec" ELSE "prompt"]
      /\ numAcc' = [r \in Reqs |-> IF r \notin InBatch THEN numAcc[r] ELSE IF C(r).kind = "spec" THEN acc[I(r)] ELSE 1]
      /\ drawn' = [r \in Reqs |-> drawn[r] + (IF r \in InBatch THEN C(r).len ELSE 0)]
      /\ tail' = [r \in Reqs |-> IF r \notin InBatch THEN tail[r] ELSE [i \in 0..StateLen-1 |-> H(r)[acc[I(r)] + i]]]
  BY DEF Accept
<1> HIDE DEF I, C, H
<1>6. ASSUME NEW r \in InBatch, NEW x \in 0..StateLen-1
      PROVE  acc[I(r)] + x \in 0..StateLen + C(r).len - 1 /\ acc[I(r)] - 1 + x \in 0..StateLen + C(r).len - 2
             /\ (acc[I(r)] - 1 + x) + 1 = acc[I(r)] + x
  <2> DEFINE a == acc[I(r)]
             l == C(r).len
  <2>1. a \in 1..l /\ l \in Nat
    BY <1>4
  <2> HIDE DEF a, l
  <2>2. a + x \in 0..StateLen + l - 1 /\ a - 1 + x \in 0..StateLen + l - 2 /\ (a - 1 + x) + 1 = a + x
    BY <1>3, <2>1
  <2> QED BY <2>2 DEF a, l
<1>7. Live' = Live /\ \A r \in Reqs : phase'[r] = "new" => r \notin InBatch /\ phase[r] = "new"
  <2>1. \A r \in Reqs : phase'[r] # "free" <=> phase[r] # "free"
    BY <1>4, <1>5 DEF Live
  <2>2. Live' = {r \in Reqs : phase'[r] # "free"} /\ Live = {r \in Reqs : phase[r] # "free"}
    BY DEF Live
  <2> QED BY <1>5, <2>1, <2>2
<1>8. ReqsHeld'
  <2>1. phase' \in [Reqs -> {"free", "new", "prompt", "spec"}]
    BY <1>2, <1>5 DEF ReqsHeld
  <2>2. numAcc' \in [Reqs -> 1..SpecQueryLen]
    <3> SUFFICES ASSUME NEW r \in Reqs
                 PROVE  (IF r \notin InBatch THEN numAcc[r] ELSE IF C(r).kind = "spec" THEN acc[I(r)] ELSE 1) \in 1..SpecQueryLen
      BY <1>5
    <3>1. CASE r \notin InBatch
      BY <1>2, <3>1 DEF ReqsHeld
    <3>2. CASE r \in InBatch
      BY <1>3, <1>4, <3>2
    <3> QED BY <3>1, <3>2
  <2>3. drawn' \in [Reqs -> Nat]
    <3> SUFFICES ASSUME NEW r \in Reqs PROVE drawn[r] + (IF r \in InBatch THEN C(r).len ELSE 0) \in Nat
      BY <1>5
    <3>1. drawn[r] \in Nat
      BY <1>2 DEF ReqsHeld
    <3> QED BY <1>4, <3>1
  <2>4. tail' \in [Reqs -> [0..StateLen-1 -> Nat]]
    <3> SUFFICES ASSUME NEW r \in Reqs
                 PROVE  (IF r \notin InBatch THEN tail[r] ELSE [i \in 0..StateLen-1 |-> H(r)[acc[I(r)] + i]]) \in [0..StateLen-1 -> Nat]
      BY <1>5
    <3>1. CASE r \notin InBatch
      BY <1>2, <3>1 DEF ReqsHeld
    <3>2. CASE r \in InBatch
      <4>1. \A x \in 0..StateLen-1 : H(r)[acc[I(r)] + x] \in Nat
        BY <1>4, <1>6, <3>2
      <4> QED BY <3>2, <4>1
    <3> QED BY <3>1, <3>2
  <2>5. \A r \in Reqs : phase'[r] \in {"new", "prompt"} => numAcc'[r] = 1
    BY <1>2, <1>5 DEF ReqsHeld
  <2>6. \A r \in Reqs : phase'[r] = "new" => \A x \in 0..StateLen-1 : tail'[r][x] = Zero
    <3>1. \A r \in Reqs : phase'[r] = "new" => tail'[r] = tail[r] /\ phase[r] = "new"
      BY <1>5, <1>7
    <3> QED BY <1>2, <3>1 DEF ReqsHeld
  <2>7. \A r \in Live' : slot'[r] \in Slots
    BY <1>1, <1>2, <1>7 DEF ReqsHeld
  <2>8. \A v, r \in Live' : v # r => slot'[v] # slot'[r]
    BY <1>1, <1>2, <1>7 DEF ReqsHeld
  <2>9. window' \in [Slots \cup {Null} -> [0..StateWidth-1 -> Nat]]
    BY <1>1, <1>2 DEF ReqsHeld
  <2>10. slot' \in [Reqs -> Slots \cup {Null}]
    BY <1>1, <1>2 DEF ReqsHeld
  <2> QED BY <2>1, <2>2, <2>3, <2>4, <2>5, <2>6, <2>7, <2>8, <2>9, <2>10 DEF ReqsHeld
<1>9. ASSUME NEW r \in Live' PROVE OldWindow(r)'
  <2>1. r \in Live /\ r \in Reqs
    BY <1>7 DEF Live
  <2>2. CASE r \notin InBatch
    <3>1. OldWindow(r)
      BY <1>2, <2>1, <2>2 DEF StepHeld
    <3>2. phase'[r] = phase[r] /\ numAcc'[r] = numAcc[r] /\ tail'[r] = tail[r]
      BY <1>5, <2>1, <2>2
    <3>3. OldOf(phase, slot, numAcc, tail, window, r)
      BY <3>1, Views
    <3>4. OldOf(phase', slot', numAcc', tail', window', r)
      BY <1>1, <3>2, <3>3 DEF OldOf
    <3> QED BY <3>4, NextViews
  <2>3. CASE r \in InBatch
    <3> DEFINE w == window[slot[r]]
    <3>1. ASSUME NEW x \in 0..StateLen-1 PROVE w[numAcc'[r] - 1 + x] = tail'[r][x]
      <4>1. tail'[r][x] = H(r)[acc[I(r)] + x]
        BY <1>5, <2>1, <2>3
      <4>2. NewWindow(C(r)) /\ C(r).req = r
        BY <1>4, <2>3
      <4>3. CASE C(r).kind = "spec"
        <5>1. \A y \in 0..StateLen+C(r).len-2 : w[y] = H(r)[y+1]
          BY <4>2, <4>3 DEF NewWindow, H
        <5>2. numAcc'[r] = acc[I(r)]
          BY <1>5, <2>1, <2>3, <4>3
        <5> HIDE DEF w
        <5> QED BY <1>6, <2>3, <4>1, <5>1, <5>2
      <4>4. CASE C(r).kind # "spec"
        <5>1. \A y \in 0..StateLen-1 : w[y] = H(r)[C(r).len+y]
          BY <4>2, <4>4 DEF NewWindow, H
        <5>2. numAcc'[r] = 1 /\ acc[I(r)] = C(r).len
          BY <1>4, <1>5, <2>1, <2>3, <4>4
        <5>3. numAcc'[r] - 1 + x = x
          BY <5>2
        <5> HIDE DEF w
        <5> QED BY <4>1, <5>1, <5>2, <5>3
      <4> QED BY <4>3, <4>4
    <3>2. OldOf(phase', slot', numAcc', tail', window', r)
      BY <1>1, <3>1 DEF OldOf
    <3> QED BY <3>2, NextViews
  <2> QED BY <2>2, <2>3
<1> QED BY <1>1, <1>8, <1>9 DEF IInv

LEMMA InitHolds ==
  ASSUME ConvAssumption, Init
  PROVE  IInv
<1>1. StateLen \in Nat \ {0} /\ SpecQueryLen \in Nat \ {0}
  BY SizesAre
<1>2. Live = {}
  BY DEF Init, Live
<1>3. ReqsHeld
  <2>1. 1 \in 1..SpecQueryLen
    BY <1>1
  <2>2. tail \in [Reqs -> [0..StateLen-1 -> Nat]] /\ window \in [Slots \cup {Null} -> [0..StateWidth-1 -> Nat]]
    BY DEF Init, Zero
  <2>3. \A r \in Reqs : phase[r] = "free" /\ numAcc[r] = 1
    BY DEF Init
  <2>4. phase \in [Reqs -> {"free", "new", "prompt", "spec"}] /\ numAcc \in [Reqs -> 1..SpecQueryLen] /\ drawn \in [Reqs -> Nat]
    BY <2>1 DEF Init
  <2>5. slot \in [Reqs -> Slots \cup {Null}]
    BY DEF Init
  <2> QED BY <1>2, <2>2, <2>3, <2>4, <2>5 DEF ReqsHeld
<1> QED BY <1>2, <1>3 DEF Init, IInv

LEMMA AdmitKeeps ==
  ASSUME ConvAssumption, IInv, NEW r \in Reqs, NEW s \in Slots, Admit(r, s)
  PROVE  IInv'
<1>1. /\ batch = << >> /\ launches = << >> /\ batch' = << >> /\ launches' = << >> /\ ran' = ran /\ ran = {}
      /\ r \notin Live /\ \A v \in Live : slot[v] # s
      /\ phase' = [phase EXCEPT ![r] = "new"] /\ slot' = [slot EXCEPT ![r] = s]
      /\ numAcc' = [numAcc EXCEPT ![r] = 1] /\ tail' = [tail EXCEPT ![r] = [i \in 0..StateLen-1 |-> Zero]]
      /\ drawn' = drawn /\ window' = window
  BY DEF Admit, IInv
<1>2. ReqsHeld
  BY DEF IInv
<1>3. /\ phase \in [Reqs -> {"free", "new", "prompt", "spec"}] /\ numAcc \in [Reqs -> 1..SpecQueryLen]
      /\ tail \in [Reqs -> [0..StateLen-1 -> Nat]]
  BY <1>2 DEF ReqsHeld
<1>4. /\ phase'[r] = "new" /\ numAcc'[r] = 1 /\ tail'[r] = [i \in 0..StateLen-1 |-> Zero]
      /\ \A v \in Reqs : v # r => phase'[v] = phase[v] /\ numAcc'[v] = numAcc[v] /\ tail'[v] = tail[v]
  BY <1>1, <1>3
<1>5. Live \subseteq Reqs /\ Live' = Live \cup {r}
  <2>1. Live = {v \in Reqs : phase[v] # "free"} /\ Live' = {v \in Reqs : phase'[v] # "free"}
    BY DEF Live
  <2> QED BY <1>4, <2>1
<1>6. slot'[r] = s /\ (\A v \in Reqs : v # r => slot'[v] = slot[v]) /\ slot' \in [Reqs -> Slots \cup {Null}]
  BY <1>1, <1>2 DEF ReqsHeld
<1>7. /\ phase' \in [Reqs -> {"free", "new", "prompt", "spec"}] /\ numAcc' \in [Reqs -> 1..SpecQueryLen]
      /\ tail' \in [Reqs -> [0..StateLen-1 -> Nat]]
  <2>1. 1 \in 1..SpecQueryLen
    BY SizesAre
  <2>2. [i \in 0..StateLen-1 |-> Zero] \in [0..StateLen-1 -> Nat]
    BY DEF Zero
  <2> QED BY <1>1, <1>3, <2>1, <2>2
<1>8. /\ \A v \in Live' : slot'[v] \in Slots
      /\ \A u, v \in Live' : u # v => slot'[u] # slot'[v]
  <2>1. \A v \in Live : v # r /\ slot'[v] = slot[v] /\ slot[v] # s /\ slot[v] \in Slots
    BY <1>1, <1>2, <1>5, <1>6 DEF ReqsHeld
  <2>2. \A u, v \in Live : u # v => slot[u] # slot[v]
    BY <1>2 DEF ReqsHeld
  <2> QED BY <1>5, <1>6, <2>1, <2>2
<1>9. \A v \in Reqs : phase'[v] \in {"new", "prompt"} => numAcc'[v] = 1
  BY <1>2, <1>4 DEF ReqsHeld
<1>10. ASSUME NEW v \in Reqs, phase'[v] = "new", NEW i \in 0..StateLen-1 PROVE tail'[v][i] = Zero
  <2>1. CASE v = r
    BY <1>4, <2>1
  <2>2. CASE v # r
    <3>1. phase[v] = "new" /\ tail'[v] = tail[v]
      BY <1>4, <1>10, <2>2
    <3> QED BY <1>2, <3>1 DEF ReqsHeld
  <2> QED BY <2>1, <2>2
<1>11. ReqsHeld'
  <2>1. drawn' \in [Reqs -> Nat] /\ window' \in [Slots \cup {Null} -> [0..StateWidth-1 -> Nat]]
    BY <1>1, <1>2 DEF ReqsHeld
  <2> QED BY <1>6, <1>7, <1>8, <1>9, <1>10, <2>1 DEF ReqsHeld
<1>12. ASSUME NEW v \in Live' PROVE OldWindow(v)'
  <2>1. CASE v = r
    BY <1>4, <2>1 DEF OldWindow
  <2>2. CASE v # r
    <3>1. v \in Live /\ OldWindow(v)
      BY <1>1, <1>5, <2>2 DEF IInv
    <3>2. OldOf(phase, slot, numAcc, tail, window, v)
      BY <3>1, Views
    <3>3. OldOf(phase', slot', numAcc', tail', window', v)
      BY <1>1, <1>4, <1>5, <1>6, <2>2, <3>1, <3>2 DEF OldOf
    <3> QED BY <3>3, NextViews
  <2> QED BY <2>1, <2>2
<1> QED BY <1>1, <1>11, <1>12 DEF IInv

LEMMA ReleaseKeeps ==
  ASSUME ConvAssumption, IInv, NEW r, Release(r)
  PROVE  IInv'
<1>1. /\ batch = << >> /\ launches = << >> /\ batch' = << >> /\ launches' = << >> /\ ran' = ran /\ ran = {}
      /\ r \in Live /\ phase' = [phase EXCEPT ![r] = "free"]
      /\ slot' = slot /\ numAcc' = numAcc /\ tail' = tail /\ drawn' = drawn /\ window' = window
  BY DEF Release, IInv
<1>2. ReqsHeld
  BY DEF IInv
<1>3. /\ phase' \in [Reqs -> {"free", "new", "prompt", "spec"}] /\ phase'[r] = "free"
      /\ \A v \in Reqs : v # r => phase'[v] = phase[v]
  BY <1>1, <1>2 DEF ReqsHeld, Live
<1>4. Live' \subseteq Live /\ r \notin Live' /\ Live \subseteq Reqs
  <2>1. Live = {v \in Reqs : phase[v] # "free"} /\ Live' = {v \in Reqs : phase'[v] # "free"}
    BY DEF Live
  <2> QED BY <1>3, <2>1
<1>5. ReqsHeld'
  <2>1. \A v \in Live' : slot'[v] \in Slots
    BY <1>1, <1>2, <1>4 DEF ReqsHeld
  <2>2. \A u, v \in Live' : u # v => slot'[u] # slot'[v]
    BY <1>1, <1>2, <1>4 DEF ReqsHeld
  <2>3. \A v \in Reqs : phase'[v] \in {"new", "prompt"} => numAcc'[v] = 1
    BY <1>1, <1>2, <1>3 DEF ReqsHeld
  <2>4. \A v \in Reqs : phase'[v] = "new" => \A i \in 0..StateLen-1 : tail'[v][i] = Zero
    BY <1>1, <1>2, <1>3 DEF ReqsHeld
  <2> QED BY <1>1, <1>2, <1>3, <2>1, <2>2, <2>3, <2>4 DEF ReqsHeld
<1>6. ASSUME NEW v \in Live' PROVE OldWindow(v)'
  <2>1. v \in Live /\ v # r /\ OldWindow(v)
    BY <1>1, <1>4 DEF IInv
  <2>2. OldOf(phase, slot, numAcc, tail, window, v)
    BY <2>1, Views
  <2>3. OldOf(phase', slot', numAcc', tail', window', v)
    BY <1>1, <1>3, <1>4, <2>1, <2>2 DEF OldOf
  <2> QED BY <2>3, NextViews
<1> QED BY <1>1, <1>5, <1>6 DEF IInv

(* A batch is what the dispatch expects.                                   *)
LEMMA BatchIs ==
  ASSUME ConvAssumption, ReqsHeld, NEW b \in Batches
  PROVE  BatchOk(b)
<1>1. SpecQueryLen \in Nat \ {0} /\ MaxChunk \in Nat \ {0}
  BY SizesAre DEF ConvAssumption
<1>2. PICK n \in 1..Cardinality(Live) : b \in [1..n -> UNION {ChunksOf(r) : r \in Live}]
  BY DEF Batches
<1>3. n \in Nat \ {0}
  BY <1>2
<1>4. b \in Seq(UNION {ChunksOf(r) : r \in Live}) /\ Len(b) = n
  BY <1>2, <1>3
<1>5. ASSUME NEW r \in Live, NEW c \in ChunksOf(r)
      PROVE  /\ c \in Chunks /\ c.req \in Live
             /\ c.kind = "spec" => phase[c.req] # "new" /\ c.len <= SpecQueryLen
             /\ c.kind # "spec" => phase[c.req] # "spec"
             /\ c.kind = "decode" => c.len = 1
  <2> DEFINE Chunk(kind, len) == [req : {r}, kind : {kind}, len : 1..len]
  <2>1. \/ c \in Chunk("prefill", MaxChunk) /\ phase[r] # "spec"
        \/ c \in Chunk("decode", 1) /\ phase[r] # "spec"
        \/ c \in Chunk("spec", SpecQueryLen) /\ phase[r] # "new"
    BY DEF ChunksOf
  <2>2. r \in Reqs
    BY DEF Live
  <2>3. ASSUME NEW kind \in KindNames, NEW len \in Nat, c \in Chunk(kind, len)
        PROVE  c \in Chunks /\ c.req = r /\ c.kind = kind /\ c.len \in 1..len
    <3>1. 1..len \subseteq Nat \ {0}
      OBVIOUS
    <3> QED BY <2>2, <2>3, <3>1 DEF Chunks
  <2>4. CASE c \in Chunk("prefill", MaxChunk) /\ phase[r] # "spec"
    <3>1. c \in Chunks /\ c.req = r /\ c.kind = "prefill"
      BY <1>1, <2>3, <2>4 DEF KindNames
    <3> QED BY <2>4, <3>1
  <2>5. CASE c \in Chunk("decode", 1) /\ phase[r] # "spec"
    <3>1. c \in Chunks /\ c.req = r /\ c.kind = "decode" /\ c.len \in 1..1
      BY <2>3, <2>5 DEF KindNames
    <3> QED BY <2>5, <3>1
  <2>6. CASE c \in Chunk("spec", SpecQueryLen) /\ phase[r] # "new"
    <3>1. c \in Chunks /\ c.req = r /\ c.kind = "spec" /\ c.len \in 1..SpecQueryLen
      BY <1>1, <2>3, <2>6 DEF KindNames
    <3> QED BY <1>1, <2>6, <3>1
  <2> QED BY <2>1, <2>4, <2>5, <2>6
<1>6. \A i \in 1..n : \E r \in Live : b[i] \in ChunksOf(r)
  BY <1>2
<1>7. b \in Seq(Chunks) /\ b # << >>
  <2>1. \A i \in 1..n : b[i] \in Chunks
    BY <1>5, <1>6
  <2> QED BY <1>2, <1>3, <1>4, <2>1
<1>8. InOrder(b)
  BY DEF Batches
<1> QED BY <1>4, <1>5, <1>6, <1>7, <1>8 DEF BatchOk

(* A list of launches that serves the chunks of some kinds.                *)
Sends(S, b, kinds, ls) ==
  /\ ls \in Seq(S) /\ Queued(ls)
  /\ \A i \in 1..Len(ls) : ls[i].mode \in kinds /\ Group(b, ls[i].mode) # << >>
  /\ \A kind \in kinds : Group(b, kind) # << >> => Pending(ls, "conv", kind) /\ Pending(ls, Mover(kind), kind)

LEMMA SendsJoin ==
  ASSUME NEW S, NEW b, NEW k1, NEW k2, k1 \cap k2 = {}, NEW l1, Sends(S, b, k1, l1), NEW l2, Sends(S, b, k2, l2)
  PROVE  Sends(S, b, k1 \cup k2, l1 \o l2)
<1> DEFINE ls == l1 \o l2
           m == Len(l1)
           n == Len(l2)
<1>1. /\ l1 \in Seq(S) /\ l2 \in Seq(S) /\ m \in Nat /\ n \in Nat /\ ls \in Seq(S) /\ Len(ls) = m + n
      /\ \A i \in 1..m : ls[i] = l1[i]
      /\ \A i \in m+1..m+n : ls[i] = l2[i-m]
  BY DEF Sends
<1> HIDE DEF ls
<1>2. \A i \in 1..m+n : \/ i \in 1..m
                        \/ i \in m+1..m+n /\ i - m \in 1..n /\ m + (i - m) = i
  <2> HIDE DEF m, n
  <2> QED BY <1>1
<1>3. \A i \in 1..n : ls[m+i] = l2[i] /\ m + i \in m+1..m+n
  <2> SUFFICES ASSUME NEW i \in 1..n PROVE ls[m+i] = l2[i] /\ m + i \in m+1..m+n
    OBVIOUS
  <2>1. m + i \in m+1..m+n /\ (m + i) - m = i
    <3> HIDE DEF m, n
    <3> QED BY <1>1
  <2> HIDE DEF m, n
  <2> QED BY <1>1, <2>1
<1>4. \A i \in 1..m : i \in 1..m+n
  <2> HIDE DEF m, n
  <2> QED BY <1>1
<1>5. \A i \in m+1..m+n : i \in 1..m+n /\ \A x \in 1..m : x < i
  <2> HIDE DEF m, n
  <2> QED BY <1>1
<1>6. \A kernel, kind : Pending(l1, kernel, kind) \/ Pending(l2, kernel, kind) => Pending(ls, kernel, kind)
  <2> SUFFICES ASSUME NEW kernel, NEW kind, Pending(l1, kernel, kind) \/ Pending(l2, kernel, kind)
               PROVE  Pending(ls, kernel, kind)
    OBVIOUS
  <2>1. CASE Pending(l1, kernel, kind)
    <3>1. PICK i \in 1..m : l1[i].kernel = kernel /\ l1[i].mode = kind
      BY <2>1 DEF Pending
    <3>2. i \in 1..Len(ls) /\ ls[i] = l1[i]
      BY <1>1, <1>4
    <3> QED BY <3>1, <3>2 DEF Pending
  <2>2. CASE Pending(l2, kernel, kind)
    <3>1. PICK i \in 1..n : l2[i].kernel = kernel /\ l2[i].mode = kind
      BY <2>2 DEF Pending
    <3>2. m + i \in 1..Len(ls) /\ ls[m+i] = l2[i]
      BY <1>1, <1>3, <1>5
    <3> QED BY <3>1, <3>2 DEF Pending
  <2> QED BY <2>1, <2>2
<1>7. /\ \A i \in 1..m : ls[i].mode \in k1 /\ Group(b, ls[i].mode) # << >>
      /\ \A i \in m+1..m+n : ls[i].mode \in k2 /\ Group(b, ls[i].mode) # << >>
  <2>1. \A i \in 1..m : l1[i].mode \in k1 /\ Group(b, l1[i].mode) # << >>
    BY DEF Sends
  <2>2. \A i \in 1..n : l2[i].mode \in k2 /\ Group(b, l2[i].mode) # << >>
    BY DEF Sends
  <2>3. \A i \in m+1..m+n : i - m \in 1..n
    BY <1>2, <1>5, <1>1
  <2> QED BY <1>1, <2>1, <2>2, <2>3
<1>8. Queued(ls)
  <2>1. Queued(l1) /\ Queued(l2)
    BY DEF Sends
  <2>2. \A i \in 1..m+n : ls[i].kernel = "write" => ls[i].mode # "decode"
    <3>1. \A i \in 1..m : l1[i].kernel = "write" => l1[i].mode # "decode"
      BY <2>1 DEF Queued
    <3>2. \A i \in 1..n : l2[i].kernel = "write" => l2[i].mode # "decode"
      BY <2>1 DEF Queued
    <3> QED BY <1>1, <1>2, <3>1, <3>2
  <2>3. ASSUME NEW i \in 1..m+n, NEW k \in 1..m+n, ls[i].kernel = ls[k].kernel, ls[i].mode = ls[k].mode PROVE i = k
    <3>1. CASE i \in 1..m /\ k \in 1..m
      <4>1. l1[i].kernel = l1[k].kernel /\ l1[i].mode = l1[k].mode
        BY <1>1, <2>3, <3>1
      <4> QED BY <2>1, <3>1, <4>1 DEF Queued
    <3>2. CASE i \in m+1..m+n /\ k \in m+1..m+n
      <4>1. i - m \in 1..n /\ k - m \in 1..n /\ ls[i] = l2[i-m] /\ ls[k] = l2[k-m] /\ m + (i - m) = i /\ m + (k - m) = k
        <5>1. ls[i] = l2[i-m] /\ ls[k] = l2[k-m]
          BY <1>1, <3>2
        <5>2. i - m \in 1..n /\ k - m \in 1..n /\ m + (i - m) = i /\ m + (k - m) = k
          <6> HIDE DEF m, n
          <6> QED BY <1>1, <3>2
        <5> QED BY <5>1, <5>2
      <4>2. i - m = k - m
        BY <2>1, <2>3, <4>1 DEF Queued
      <4> HIDE DEF m, n
      <4> QED BY <4>1, <4>2
    <3>3. CASE ~(i \in 1..m /\ k \in 1..m) /\ ~(i \in m+1..m+n /\ k \in m+1..m+n)
      <4>1. ~(ls[i].mode = ls[k].mode)
        <5> HIDE DEF m, n
        <5> QED BY <1>2, <1>7, <3>3
      <4> QED BY <2>3, <4>1
    <3> QED BY <3>1, <3>2, <3>3
  <2>4. ASSUME NEW i \in 1..m+n, ls[i].kernel = "conv", ls[i].mode # "decode"
        PROVE  \E k \in 1..m+n : i < k /\ ls[k].kernel = "write" /\ ls[k].mode = ls[i].mode
    <3>1. CASE i \in 1..m
      <4>1. ls[i] = l1[i]
        BY <1>1, <3>1
      <4>2. PICK k \in 1..m : i < k /\ l1[k].kernel = "write" /\ l1[k].mode = l1[i].mode
        BY <2>1, <2>4, <3>1, <4>1 DEF Queued
      <4>3. ls[k] = l1[k] /\ k \in 1..m+n
        BY <1>1, <1>4
      <4> QED BY <4>1, <4>2, <4>3
    <3>2. CASE i \in m+1..m+n
      <4>1. ls[i] = l2[i-m] /\ i - m \in 1..n
        <5>1. ls[i] = l2[i-m]
          BY <1>1, <3>2
        <5>2. i - m \in 1..n
          <6> HIDE DEF m, n
          <6> QED BY <1>1, <3>2
        <5> QED BY <5>1, <5>2
      <4>2. PICK k \in 1..n : i - m < k /\ l2[k].kernel = "write" /\ l2[k].mode = l2[i-m].mode
        BY <2>1, <2>4, <3>2, <4>1 DEF Queued
      <4>3. ls[m+k] = l2[k] /\ m + k \in 1..m+n
        BY <1>3, <1>5
      <4>4. i < m + k
        <5> HIDE DEF m, n
        <5> QED BY <1>1, <4>2
      <4> QED BY <4>1, <4>2, <4>3, <4>4
    <3> QED BY <1>2, <3>1, <3>2
  <2> QED BY <1>1, <2>2, <2>3, <2>4 DEF Queued
<1>9. \A i \in 1..Len(ls) : ls[i].mode \in k1 \cup k2 /\ Group(b, ls[i].mode) # << >>
  BY <1>1, <1>2, <1>7
<1>10. \A kind \in k1 \cup k2 : Group(b, kind) # << >> => Pending(ls, "conv", kind) /\ Pending(ls, Mover(kind), kind)
  <2>1. \A kind \in k1 : Group(b, kind) # << >> => Pending(l1, "conv", kind) /\ Pending(l1, Mover(kind), kind)
    BY DEF Sends
  <2>2. \A kind \in k2 : Group(b, kind) # << >> => Pending(l2, "conv", kind) /\ Pending(l2, Mover(kind), kind)
    BY DEF Sends
  <2> QED BY <1>6, <2>1, <2>2
<1> QED BY <1>1, <1>8, <1>9, <1>10 DEF Sends, ls

LEMMA KernelsSend ==
  ASSUME NEW b, NEW kind \in KindNames, NEW P, NEW Q, NEW S,
         Launch("conv", b, kind, P, Q) \in S, Launch("write", b, kind, P, Q) \in S
  PROVE  Sends(S, b, {kind}, Kernels(b, kind, P, Q))
<1> DEFINE c == Launch("conv", b, kind, P, Q)
           w == Launch("write", b, kind, P, Q)
           ls == Kernels(b, kind, P, Q)
<1>1. c.kernel = "conv" /\ c.mode = kind /\ w.kernel = "write" /\ w.mode = kind
  BY DEF Launch
<1>2. ls = IF Group(b, kind) = << >> THEN << >> ELSE IF kind = "decode" THEN <<c>> ELSE <<c, w>>
  BY DEF Kernels
<1> HIDE DEF c, w, ls
<1>3. c \in S /\ w \in S
  BY DEF c, w
<1>4. CASE Group(b, kind) = << >>
  <2>1. ls = << >> /\ Len(ls) = 0 /\ ls \in Seq(S)
    BY <1>2, <1>4
  <2> QED BY <1>4, <2>1 DEF Sends, Queued, ls
<1>5. CASE Group(b, kind) # << >> /\ kind = "decode"
  <2>1. ls = <<c>> /\ ls \in Seq(S) /\ Len(ls) = 1 /\ ls[1] = c
    BY <1>2, <1>3, <1>5
  <2>2. \A i \in 1..Len(ls) : i = 1
    BY <2>1
  <2>3. 1 \in 1..Len(ls)
    BY <2>1
  <2>4. Queued(ls)
    BY <1>1, <1>5, <2>1, <2>2 DEF Queued
  <2>5. Pending(ls, "conv", kind) /\ Pending(ls, Mover(kind), kind)
    BY <1>1, <1>5, <2>1, <2>3 DEF Pending, Mover
  <2>6. \A i \in 1..Len(ls) : ls[i].mode \in {kind} /\ Group(b, ls[i].mode) # << >>
    BY <1>1, <1>5, <2>1, <2>2
  <2> QED BY <2>1, <2>4, <2>5, <2>6 DEF Sends, ls
<1>6. CASE Group(b, kind) # << >> /\ kind # "decode"
  <2>1. ls = <<c, w>> /\ ls \in Seq(S) /\ Len(ls) = 2 /\ ls[1] = c /\ ls[2] = w
    BY <1>2, <1>3, <1>6
  <2>2. \A i \in 1..Len(ls) : i = 1 \/ i = 2
    BY <2>1
  <2>3. 1 \in 1..Len(ls) /\ 2 \in 1..Len(ls) /\ 1 < 2
    BY <2>1
  <2>4. Queued(ls)
    <3>1. \A i \in 1..Len(ls) : ls[i].kernel = "write" => ls[i].mode # "decode"
      BY <1>1, <1>6, <2>1, <2>2
    <3>2. \A i, k \in 1..Len(ls) : ls[i].kernel = ls[k].kernel /\ ls[i].mode = ls[k].mode => i = k
      BY <1>1, <2>1, <2>2
    <3>3. \A i \in 1..Len(ls) : ls[i].kernel = "conv" /\ ls[i].mode # "decode" =>
            \E k \in 1..Len(ls) : i < k /\ ls[k].kernel = "write" /\ ls[k].mode = ls[i].mode
      BY <1>1, <2>1, <2>2, <2>3
    <3> QED BY <3>1, <3>2, <3>3 DEF Queued
  <2>5. Pending(ls, "conv", kind) /\ Pending(ls, Mover(kind), kind)
    BY <1>1, <1>6, <2>1, <2>3 DEF Pending, Mover
  <2>6. \A i \in 1..Len(ls) : ls[i].mode \in {kind} /\ Group(b, ls[i].mode) # << >>
    BY <1>1, <1>6, <2>1, <2>2
  <2> QED BY <2>1, <2>4, <2>5, <2>6 DEF Sends, ls
<1> QED BY <1>4, <1>5, <1>6, SMTT(60) DEF ls

LEMMA DispatchSends ==
  ASSUME NEW b, NEW p, NEW q
  PROVE  Sends(LaunchesOf(b, p, q), b, KindNames, Dispatch(b, p, q))
<1> DEFINE S == LaunchesOf(b, p, q)
           K(kind) == Kernels(b, kind, Pad(kind, p), Pad(kind, q))
<1>1. \A kind \in KindNames : /\ Launch("conv", b, kind, Pad(kind, p), Pad(kind, q)) \in S
                              /\ Launch("write", b, kind, Pad(kind, p), Pad(kind, q)) \in S
  BY DEF LaunchesOf
<1> HIDE DEF S
<1>2. \A kind \in KindNames : Sends(S, b, {kind}, K(kind))
  BY <1>1, KernelsSend
<1>3. Dispatch(b, p, q) = K("spec") \o K("decode") \o K("prefill")
  BY DEF Dispatch, Pad
<1> HIDE DEF K
<1>4. Sends(S, b, {"spec"} \cup {"decode"}, K("spec") \o K("decode"))
  <2>1. {"spec"} \cap {"decode"} = {} /\ "spec" \in KindNames /\ "decode" \in KindNames
    BY DEF KindNames
  <2> QED BY <1>2, <2>1, SendsJoin
<1>5. Sends(S, b, ({"spec"} \cup {"decode"}) \cup {"prefill"}, K("spec") \o K("decode") \o K("prefill"))
  <2>1. ({"spec"} \cup {"decode"}) \cap {"prefill"} = {} /\ "prefill" \in KindNames
    BY DEF KindNames
  <2>2. Sends(S, b, {"prefill"}, K("prefill"))
    BY <1>2, <2>1
  <2> QED BY <1>4, <2>1, <2>2, SendsJoin
<1>6. ({"spec"} \cup {"decode"}) \cup {"prefill"} = KindNames
  BY DEF KindNames
<1> QED BY <1>3, <1>5, <1>6 DEF S

LEMMA ScheduleKeeps ==
  ASSUME ConvAssumption, IInv, NEW b \in Batches, NEW p \in 0..MaxPad, NEW q \in 0..MaxPad, Schedule(b, p, q)
  PROVE  IInv'
<1>1. /\ batch = << >> /\ launches = << >> /\ ran = {} /\ ran' = ran /\ window' = window
      /\ phase' = phase /\ slot' = slot /\ numAcc' = numAcc /\ drawn' = drawn /\ tail' = tail
      /\ batch' = b /\ launches' = Dispatch(b, p, q)
      /\ added' = [t \in 1..Len(RowsOf(b)) + q |-> << >>]
      /\ p + q > 0 => Kinds(b) \in {{"spec"}, {"decode"}}
      /\ Kinds(b) = {"decode"} => p = q
  BY DEF Schedule, IInv, reqVars
<1>2. ReqsHeld /\ \A r \in Live : OldWindow(r)
  BY <1>1 DEF IInv
<1>3. BatchOk(b) /\ p \in Nat /\ q \in Nat
  BY <1>2, BatchIs DEF ConvAssumption
<1>4. ReqsHeld' /\ Live' = Live
  BY <1>1, <1>2 DEF ReqsHeld, Live
<1>5. BatchOk(batch)'
  BY <1>1, <1>3 DEF BatchOk, Live
<1>6. batch' # << >>
  BY <1>1, <1>3 DEF BatchOk
<1>7. \A kind : Listed(b, kind, Group(b, kind)) /\ \A m \in 1..Len(Group(b, kind)) : Group(b, kind)[m] \in 1..Len(b)
  BY <1>3, GroupIs DEF Listed
<1>8. \A kind \in KindNames : Group(b, kind) # << >> => PadsOk(kind, Pad(kind, p), Pad(kind, q))
  <2> SUFFICES ASSUME NEW kind \in KindNames, Group(b, kind) # << >>
               PROVE  PadsOk(kind, Pad(kind, p), Pad(kind, q))
    OBVIOUS
  <2>1. kind = "decode" => p = q
    <3> SUFFICES ASSUME kind = "decode" PROVE p = q
      OBVIOUS
    <3>1. 1 \in 1..Len(Group(b, kind))
      <4>1. Group(b, kind) \in Seq(1..Len(b))
        BY <1>7 DEF Listed
      <4> QED BY <4>1
    <3>2. Group(b, kind)[1] \in 1..Len(b) /\ b[Group(b, kind)[1]].kind = kind
      BY <1>7, <3>1 DEF Listed
    <3>3. "decode" \in Kinds(b)
      <4>1. DOMAIN b = 1..Len(b)
        BY <1>3 DEF BatchOk
      <4> QED BY <3>2, <4>1 DEF Kinds
    <3>4. Kinds(b) # {"spec"}
      BY <3>3
    <3>5. CASE p + q > 0
      BY <1>1, <3>4, <3>5
    <3>6. CASE ~(p + q > 0)
      BY <1>3, <3>6
    <3> QED BY <3>5, <3>6
  <2> QED BY <1>3, <2>1 DEF PadsOk, Pad
<1>9. Sends(LaunchesOf(b, p, q), b, KindNames, launches')
  BY <1>1, DispatchSends
<1>10. LaunchesHeld(p, q)'
  <2>1. LaunchesOf(b, p, q) = LaunchesOf(batch, p, q)'
    BY <1>1, Views, NextViews
  <2>2. launches' \in Seq(LaunchesOf(batch, p, q)') /\ Queued(launches')
    BY <1>9, <2>1 DEF Sends
  <2>3. \A i \in 1..Len(launches') : Group(batch', launches'[i].mode) # << >>
    BY <1>1, <1>9 DEF Sends
  <2> QED BY <1>1, <1>8, <2>2, <2>3 DEF LaunchesHeld
<1>11. ASSUME NEW kind \in KindNames, NEW m \in 1..Len(Group(b, kind)), NEW t
       PROVE  ~HasRun(launches', ran', "conv", kind, t) /\ ~HasRun(launches', ran', Mover(kind), kind, t)
  <2>1. Group(b, kind) # << >>
    <3>1. Group(b, kind) = << >> => Len(Group(b, kind)) = 0
      OBVIOUS
    <3> QED BY <3>1
  <2>2. Pending(launches', "conv", kind) /\ Pending(launches', Mover(kind), kind)
    BY <1>9, <2>1 DEF Sends
  <2>3. ran' = {}
    BY <1>1
  <2> QED BY <2>2, <2>3 DEF HasRun
<1>12. ASSUME NEW kind \in KindNames, NEW m \in 1..Len(Group(batch', kind)) PROVE ChunkHeld(kind, m)'
  <2> DEFINE r == b[Group(b, kind)[m]].req
  <2>1. r \in Live
    BY <1>1, <1>3, <1>7 DEF BatchOk
  <2>2. OldOf(phase, slot, numAcc, tail, window, r)
    BY <1>2, <2>1, Views
  <2>3. OldOf(phase', slot', numAcc', tail', window', r)
    BY <1>1, <2>2
  <2>4. ~HasRun(launches', ran', Mover(kind), kind, m - 1)
    BY <1>1, <1>11
  <2>5. ChunkOfState(phase', slot', numAcc', drawn', tail', window', batch', launches', ran', kind, m)
    BY <1>1, <2>3, <2>4 DEF ChunkOfState
  <2> QED BY <2>5, NextViews
<1>13. ASSUME NEW kind \in KindNames, NEW m \in 1..Len(Group(batch', kind)),
              NEW j \in 0..batch'[Group(batch', kind)[m]].len-1
       PROVE  RowHeld(p, kind, m, j)'
  <2> DEFINE i == Group(b, kind)[m]
             w == First(b)[i-1] + j + 1
             t == Starts(b, Group(b, kind), Pad(kind, p))[m-1] + j
  <2>1. w \in 1..Len(RowsOf(b)) + q
    <3>1. i \in 1..Len(b) /\ j \in 0..b[i].len-1
      BY <1>1, <1>7
    <3>2. w \in 1..Len(RowsOf(b))
      <4> HIDE DEF i
      <4> QED BY <1>3, <3>1, RowWithin
    <3>3. Len(RowsOf(b)) \in Nat
      BY <1>3, RowsAre
    <3> HIDE DEF w
    <3> QED BY <1>3, <3>2, <3>3
  <2>2. added'[w] = << >>
    <3> HIDE DEF w
    <3> QED BY <1>1, <2>1
  <2>3. ~HasRun(launches', ran', "conv", kind, t)
    BY <1>1, <1>11
  <2>4. RowOfState(drawn', tail', batch', launches', ran', added', p, kind, m, j)
    BY <1>1, <2>2, <2>3 DEF RowOfState
  <2> QED BY <2>4, NextViews
<1>14. /\ DOMAIN added' = 1..Len(RowsOf(batch'))+q
       /\ \A w \in DOMAIN added' : w > Len(RowsOf(batch')) => added'[w] = << >>
  BY <1>1
<1>15. ASSUME NEW r \in Live' PROVE OldWindow(r)'
  <2>1. OldOf(phase, slot, numAcc, tail, window, r)
    BY <1>2, <1>4, Views
  <2>2. OldOf(phase', slot', numAcc', tail', window', r)
    BY <1>1, <2>1
  <2> QED BY <2>2, NextViews
<1>16. StepHeld(p, q)'
  <2>1. \A r \in (Live \ InBatch)' : r \in Live'
    OBVIOUS
  <2>2. \A r \in (Live \ InBatch)' : OldWindow(r)'
    BY <1>15, <2>1
  <2> QED BY <1>10, <1>12, <1>13, <1>14, <2>2 DEF StepHeld
<1>17. launches' = << >> => ran' = {}
  BY <1>1
<1> QED BY <1>4, <1>5, <1>6, <1>16, <1>17 DEF IInv

-----------------------------------------------------------------------------
(* The invariant                                                           *)

LEMMA ReqsStay ==
  ASSUME ReqsHeld, UNCHANGED reqVars, WindowsType
  PROVE  ReqsHeld'
<1>1. phase' = phase /\ slot' = slot /\ numAcc' = numAcc /\ drawn' = drawn /\ tail' = tail
  BY DEF reqVars
<1>2. Live' = Live
  BY <1>1 DEF Live
<1> QED BY <1>1, <1>2 DEF ReqsHeld, WindowsType

LEMMA BatchStays ==
  ASSUME BatchOk(batch), UNCHANGED <<reqVars, batch>>
  PROVE  BatchOk(batch)'
<1>1. batch' = batch /\ phase' = phase
  BY DEF reqVars
<1>2. Live' = Live
  BY <1>1 DEF Live
<1> QED BY <1>1, <1>2 DEF BatchOk

LEMMA StepStays ==
  ASSUME NEW p, NEW q, StepHeld(p, q), UNCHANGED vars
  PROVE  StepHeld(p, q)'
<1>1. /\ phase' = phase /\ slot' = slot /\ numAcc' = numAcc /\ drawn' = drawn /\ tail' = tail /\ window' = window
      /\ batch' = batch /\ launches' = launches /\ ran' = ran /\ added' = added
  BY DEF vars
<1>2. LaunchesHeld(p, q)'
  <2>1. LaunchesOf(batch, p, q) = LaunchesOf(batch, p, q)'
    BY <1>1, Views, NextViews
  <2>2. LaunchesHeld(p, q)
    BY DEF StepHeld
  <2> QED BY <1>1, <2>1, <2>2 DEF LaunchesHeld
<1>3. ASSUME NEW kind \in KindNames, NEW m \in 1..Len(Group(batch', kind)) PROVE ChunkHeld(kind, m)'
  <2>1. ChunkHeld(kind, m)
    BY <1>1 DEF StepHeld
  <2>2. ChunkOfState(phase, slot, numAcc, drawn, tail, window, batch, launches, ran, kind, m)
    BY <2>1, Views
  <2>3. ChunkOfState(phase', slot', numAcc', drawn', tail', window', batch', launches', ran', kind, m)
    BY <1>1, <2>2
  <2> QED BY <2>3, NextViews
<1>4. ASSUME NEW kind \in KindNames, NEW m \in 1..Len(Group(batch', kind)),
             NEW j \in 0..batch'[Group(batch', kind)[m]].len-1
      PROVE  RowHeld(p, kind, m, j)'
  <2>1. RowHeld(p, kind, m, j)
    BY <1>1 DEF StepHeld
  <2>2. RowOfState(drawn, tail, batch, launches, ran, added, p, kind, m, j)
    BY <2>1, Views
  <2>3. RowOfState(drawn', tail', batch', launches', ran', added', p, kind, m, j)
    BY <1>1, <2>2
  <2> QED BY <2>3, NextViews
<1>5. ASSUME NEW r \in (Live \ InBatch)' PROVE OldWindow(r)'
  <2>1. r \in Live \ InBatch
    BY <1>1 DEF Live, InBatch
  <2>2. OldOf(phase, slot, numAcc, tail, window, r)
    BY <2>1, Views DEF StepHeld
  <2>3. OldOf(phase', slot', numAcc', tail', window', r)
    BY <1>1, <2>2
  <2> QED BY <2>3, NextViews
<1>6. /\ DOMAIN added' = 1..Len(RowsOf(batch'))+q
      /\ \A w \in DOMAIN added' : w > Len(RowsOf(batch')) => added'[w] = << >>
  BY <1>1 DEF StepHeld
<1> QED BY <1>2, <1>3, <1>4, <1>5, <1>6 DEF StepHeld

LEMMA NextKeeps ==
  ASSUME ConvAssumption, IInv, [Next]_vars
  PROVE  IInv'
<1>1. ASSUME NEW p \in Nat, NEW q \in Nat, StepHeld(p, q), launches # << >>
      PROVE  /\ batch # << >> /\ ReqsHeld /\ BatchOk(batch)
  BY <1>1 DEF IInv
<1>2. ASSUME launches # << >>, UNCHANGED <<reqVars, batch>>, WindowsType, launches' = << >> => ran' = {},
             NEW p \in 0..MaxPad, NEW q \in 0..MaxPad, StepHeld(p, q)'
      PROVE  IInv'
  <2>1. ReqsHeld /\ batch # << >> /\ BatchOk(batch)
    BY <1>2 DEF IInv
  <2>2. ReqsHeld'
    BY <1>2, <2>1, ReqsStay
  <2>3. BatchOk(batch)'
    BY <1>2, <2>1, BatchStays
  <2>4. batch' # << >>
    BY <1>2, <2>1
  <2> QED BY <1>2, <2>2, <2>3, <2>4 DEF IInv
<1>3. ASSUME launches # << >> PROVE \E p, q \in 0..MaxPad : StepHeld(p, q)
  BY <1>3 DEF IInv
<1>4. \A p \in 0..MaxPad : p \in Nat
  BY DEF ConvAssumption
<1>5. ASSUME NEW t, ConvProgram(t) PROVE IInv'
  <2>1. launches # << >> /\ UNCHANGED <<reqVars, batch>>
    BY <1>5 DEF ConvProgram
  <2>2. PICK p \in 0..MaxPad, q \in 0..MaxPad : StepHeld(p, q)
    BY <1>3, <2>1
  <2>3. p \in Nat /\ q \in Nat /\ ReqsHeld /\ BatchOk(batch)
    BY <1>1, <1>4, <2>1, <2>2
  <2>4. StepHeld(p, q)' /\ (launches' = << >> => ran' = {}) /\ WindowsType
    BY <1>5, <2>2, <2>3, ConvKeeps
  <2> QED BY <1>2, <2>1, <2>4
<1>6. ASSUME NEW r, WriteProgram(r) PROVE IInv'
  <2>1. launches # << >> /\ UNCHANGED <<reqVars, batch>>
    BY <1>6 DEF WriteProgram
  <2>2. PICK p \in 0..MaxPad, q \in 0..MaxPad : StepHeld(p, q)
    BY <1>3, <2>1
  <2>3. p \in Nat /\ q \in Nat /\ ReqsHeld /\ BatchOk(batch)
    BY <1>1, <1>4, <2>1, <2>2
  <2>4. StepHeld(p, q)' /\ (launches' = << >> => ran' = {}) /\ WindowsType
    BY <1>6, <2>2, <2>3, WriteKeeps
  <2> QED BY <1>2, <2>1, <2>4
<1>7. ASSUME UNCHANGED vars PROVE IInv'
  <2>1. /\ phase' = phase /\ slot' = slot /\ numAcc' = numAcc /\ tail' = tail /\ window' = window
        /\ batch' = batch /\ launches' = launches /\ ran' = ran /\ UNCHANGED <<reqVars, batch>>
    BY <1>7 DEF vars, reqVars
  <2>2. ReqsHeld'
    <3>1. WindowsType
      BY <2>1 DEF IInv, ReqsHeld, WindowsType
    <3> QED BY <2>1, <3>1, ReqsStay DEF IInv
  <2>3. ASSUME batch # << >> PROVE BatchOk(batch)' /\ \E p, q \in 0..MaxPad : StepHeld(p, q)'
    <3>1. BatchOk(batch)'
      BY <2>1, <2>3, BatchStays DEF IInv
    <3>2. PICK p \in 0..MaxPad, q \in 0..MaxPad : StepHeld(p, q)
      BY <2>3 DEF IInv
    <3>3. StepHeld(p, q)'
      BY <1>7, <3>2, StepStays
    <3> QED BY <3>1, <3>3
  <2>4. ASSUME batch = << >>, NEW r \in Live' PROVE OldWindow(r)'
    <3>1. r \in Live
      BY <2>1 DEF Live
    <3>2. OldOf(phase, slot, numAcc, tail, window, r)
      BY <2>4, <3>1, Views DEF IInv
    <3>3. OldOf(phase', slot', numAcc', tail', window', r)
      BY <2>1, <3>2
    <3> QED BY <3>3, NextViews
  <2>5. (launches' = << >> => ran' = {}) /\ (batch' = << >> => launches' = << >>)
    BY <2>1 DEF IInv
  <2> QED BY <2>1, <2>2, <2>3, <2>4, <2>5 DEF IInv
<1>8. CASE \E r \in Reqs, s \in Slots : Admit(r, s)
  BY <1>8, AdmitKeeps
<1>9. CASE \E r \in Reqs : Release(r)
  BY <1>9, ReleaseKeeps
<1>10. CASE \E b \in Batches, p, q \in 0..MaxPad : Schedule(b, p, q)
  BY <1>10, ScheduleKeeps
<1>11. CASE \E acc \in [1..Len(batch) -> 1..MaxLen] : Accept(acc)
  BY <1>11, AcceptKeeps
<1> QED BY <1>5, <1>6, <1>7, <1>8, <1>9, <1>10, <1>11 DEF Next

LEMMA OutputsFollow ==
  ASSUME IInv
  PROVE  OutputsAreOfHistory
<1> SUFFICES ASSUME Served, NEW t \in DOMAIN added
             PROVE  IF t > Len(RowsOf(batch)) THEN added[t] = << >>
                    ELSE LET row == RowsOf(batch)[t]
                             c   == batch[row[1]]
                         IN  added[t] = <<[k \in 0..KernelSize-1 |-> History(c)[row[2] + Dilation * k]]>>
  BY DEF OutputsAreOfHistory
<1>1. launches = << >> /\ BatchOk(batch)
  BY DEF Served, IInv
<1>2. PICK p \in 0..MaxPad, q \in 0..MaxPad : StepHeld(p, q)
  BY DEF Served, IInv
<1>3. CASE t > Len(RowsOf(batch))
  BY <1>2, <1>3 DEF StepHeld
<1>4. CASE ~(t > Len(RowsOf(batch)))
  <2>1. t \in 1..Len(RowsOf(batch))
    <3>1. DOMAIN added = 1..Len(RowsOf(batch))+q /\ Len(RowsOf(batch)) \in Nat
      BY <1>1, <1>2, RowsAre DEF StepHeld
    <3> QED BY <1>4, <3>1
  <2>2. PICK i \in 1..Len(batch) : \E j \in 1..batch[i].len : t = First(batch)[i-1] + j /\ RowsOf(batch)[t] = <<i, j - 1>>
    <3>1. IsRow(batch, t)
      BY <1>1, <2>1, RowIs
    <3> QED BY <3>1 DEF IsRow
  <2>3. PICK j \in 1..batch[i].len : t = First(batch)[i-1] + j /\ RowsOf(batch)[t] = <<i, j - 1>>
    BY <2>2
  <2> DEFINE h == j - 1
             f == First(batch)[i-1]
             len == batch[i].len
  <2>4. h \in 0..len-1 /\ f + h + 1 = f + j
    <3>1. len \in Nat /\ f \in Nat /\ j \in 1..len
      <4>1. Len(batch) \in Nat /\ len \in Nat /\ First(batch) \in [0..Len(batch) -> Nat]
        BY <1>1, ChunksAre, FirstIs
      <4>2. i - 1 \in 0..Len(batch)
        BY <4>1
      <4> QED BY <4>1, <4>2
    <3> HIDE DEF len, f
    <3> QED BY <3>1
  <2> HIDE DEF h
  <2>5. added[f + h + 1] = <<Output(batch[i], h)>>
    BY <1>1, <1>2, <2>4, ChunkServed
  <2>6. added[t] = <<Output(batch[i], h)>>
    <3> HIDE DEF f
    <3>1. t = f + j
      BY <2>3 DEF f
    <3> QED BY <2>4, <2>5, <3>1
  <2>7. RowsOf(batch)[t][1] = i /\ RowsOf(batch)[t][2] = h
    BY <2>3 DEF h
  <2> QED BY <1>4, <2>6, <2>7 DEF Output
<1> QED BY <1>3, <1>4

(* Whatever is accepted, however prompts are cut, whoever owned a slot     *)
(* before and in whatever order a launch's programs run, every token of a  *)
(* batch receives one convolution, of its request's own history, and no    *)
(* row of padding any (_ple_conv_kernel, _short_conv_dilated_dispatch).    *)
THEOREM OutputsAreOfHistoryHolds ==
  ASSUME ConvAssumption
  PROVE  Spec => []OutputsAreOfHistory
<1>1. Init => IInv
  BY InitHolds
<1>2. IInv /\ [Next]_vars => IInv'
  BY NextKeeps
<1>3. IInv => OutputsAreOfHistory
  BY OutputsFollow
<1> QED BY <1>1, <1>2, <1>3, PTL DEF Spec

(* Between steps the window of every request that has run holds its last   *)
(* inputs, as many places on as drafts were accepted: the write-back       *)
(* serves every outcome of the sampler (_ple_conv_writeback_kernel).       *)
THEOREM WindowHoldsHistoryHolds ==
  ASSUME ConvAssumption
  PROVE  Spec => []WindowHoldsHistory
<1>1. Init => IInv
  BY InitHolds
<1>2. IInv /\ [Next]_vars => IInv'
  BY NextKeeps
<1>3. IInv => WindowHoldsHistory
  BY DEF IInv, WindowHoldsHistory, OldWindow
<1> QED BY <1>1, <1>2, <1>3, PTL DEF Spec
=============================================================================
