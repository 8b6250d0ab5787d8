-------------------------- MODULE NgramIds_proofs --------------------------
(***************************************************************************)
(* What a token is looked up by, for every batch: the kernels find its     *)
(* request, its n-gram is that of the request's own history, the hash of   *)
(* the n-gram does not overflow, and the table is padded no more than      *)
(* necessary.                                                              *)
(***************************************************************************)
EXTENDS NgramIds, PleVocab, TokenSearch_proofs, SequenceTheorems, FiniteSetTheorems

-----------------------------------------------------------------------------
(* Batches                                                                 *)

(* A chunk the scheduler may give in this state                            *)
Scheduled(c) ==
  /\ c.req \in live /\ c.q \in 1..len[c.req] - computed[c.req]
  /\ c.drafts \in Seq(Tokens)
  /\ c.drafts # << >> => computed[c.req] = len[c.req] - 1
  /\ Fits(c)

ScheduledBatch(b) ==
  /\ DOMAIN b = 1..Len(b) /\ Len(b) \in 1..MaxReqs
  /\ \A i \in 1..Len(b) : Scheduled(b[i])
  /\ \A i, j \in 1..Len(b) : i # j => b[i].req # b[j].req

RequestsInv ==
  /\ live \subseteq Reqs
  /\ all \in [Reqs -> [0..MaxLen-1 -> Tokens]]
  /\ len \in [Reqs -> 0..MaxLen]
  /\ computed \in [Reqs -> 0..MaxLen]
  /\ \A r \in live : computed[r] < len[r]

LEMMA BatchIsScheduled ==
  ASSUME NgramAssumption, RequestsInv, NEW b \in Batches, Len(b) <= MaxReqs
  PROVE  ScheduledBatch(b)
<1> DEFINE C == UNION {Chunks(r) : r \in live}
<1>1. PICK n \in 1..Cardinality(live) : b \in [1..n -> C]
  BY DEF Batches
<1>2. n \in Nat \ {0} /\ DOMAIN b = 1..n /\ Len(b) = n /\ \A i \in 1..n : b[i] \in C
  BY <1>1
<1>3. /\ \A i, j \in DOMAIN b : i # j => b[i].req # b[j].req
      /\ \A i \in DOMAIN b : Fits(b[i])
  BY DEF Batches
<1>4. ASSUME NEW c \in C, Fits(c) PROVE Scheduled(c)
  <2>1. PICK r \in live : c \in Chunks(r)
    BY <1>4
  <2>2. PICK q \in 1..len[r] - computed[r], d \in UpTo(Tokens, NumSpec) :
          c = [req |-> r, q |-> q, drafts |-> d] /\ (d # << >> => computed[r] = len[r] - 1)
    BY <2>1 DEF Chunks
  <2>3. d \in Seq(Tokens)
    <3>1. PICK k \in 0..NumSpec : d \in [1..k -> Tokens]
      BY DEF UpTo
    <3>2. k \in Nat
      BY <3>1
    <3> QED BY <3>1, <3>2
  <2> QED BY <1>4, <2>2, <2>3 DEF Scheduled
<1> HIDE DEF C
<1> QED BY <1>2, <1>3, <1>4 DEF ScheduledBatch

(* The tokens of a chunk: those the request has, and then the drafts       *)
LEMMA TokensOfChunk ==
  ASSUME NgramAssumption, RequestsInv, NEW c, Scheduled(c)
  PROVE  /\ ChunkTokens(c) \in Seq(Tokens) /\ Len(ChunkTokens(c)) = ChunkLen(c)
         /\ ChunkLen(c) \in Nat \ {0} /\ c.q \in Nat /\ Len(c.drafts) \in Nat /\ ChunkLen(c) = c.q + Len(c.drafts)
         /\ \A j \in 1..ChunkLen(c) :
              ChunkTokens(c)[j] = IF j <= c.q THEN all[c.req][computed[c.req] + j - 1] ELSE c.drafts[j - c.q]
<1> DEFINE r == c.req
           q == c.q
           d == c.drafts
           own == [j \in 1..q |-> all[r][computed[r] + j - 1]]
<1>1. /\ r \in Reqs /\ q \in Nat \ {0} /\ d \in Seq(Tokens) /\ len[r] \in 0..MaxLen /\ computed[r] \in 0..MaxLen
      /\ computed[r] + q <= len[r] /\ all[r] \in [0..MaxLen-1 -> Tokens] /\ MaxLen \in Nat
  BY DEF RequestsInv, Scheduled, NgramAssumption
<1>2. ChunkTokens(c) = own \o d /\ ChunkLen(c) = q + Len(d)
  BY DEF ChunkTokens, ChunkLen
<1> HIDE DEF r, q, d
<1>3. own \in Seq(Tokens) /\ Len(own) = q /\ \A j \in 1..q : own[j] = all[r][computed[r] + j - 1]
  <2>1. \A j \in 1..q : computed[r] + j - 1 \in 0..MaxLen-1
    BY <1>1
  <2>2. \A j \in 1..q : all[r][computed[r] + j - 1] \in Tokens
    BY <1>1, <2>1
  <2>3. own \in [1..q -> Tokens]
    BY <2>2
  <2> QED BY <1>1, <2>3
<1> HIDE DEF own
<1>4. own \o d \in Seq(Tokens) /\ Len(own \o d) = Len(own) + Len(d)
      /\ \A j \in 1..Len(own) + Len(d) : (own \o d)[j] = IF j <= Len(own) THEN own[j] ELSE d[j - Len(own)]
  <2>1. own \in Seq(Tokens) /\ d \in Seq(Tokens)
    BY <1>1, <1>3
  <2> QED BY <2>1, ConcatProperties
<1>5. /\ Len(d) \in Nat /\ Len(own \o d) = q + Len(d)
      /\ \A j \in 1..q + Len(d) : (own \o d)[j] = IF j <= q THEN own[j] ELSE d[j - q]
  <2>1. Len(d) \in Nat
    BY <1>1
  <2> QED BY <1>3, <1>4, <2>1
<1>6. \A j \in 1..q + Len(d) : j <= q => j \in 1..q
  BY <1>1, <1>4
<1> QED BY <1>1, <1>2, <1>3, <1>4, <1>5, <1>6, SMTT(60) DEF r, q, d

(* query_start_loc: requests begin one after another; those of the padding *)
(* are empty.                                                              *)
LEMMA StartsOfBatch ==
  ASSUME NgramAssumption, RequestsInv, NEW b, ScheduledBatch(b)
  PROVE  /\ QueryStart(b) \in [0..MaxReqs -> Nat] /\ QueryStart(b)[0] = 0
         /\ \A k \in 1..Len(b) : QueryStart(b)[k] = QueryStart(b)[k-1] + ChunkLen(b[k])
         /\ \A k \in Len(b)+1..MaxReqs : QueryStart(b)[k] = QueryStart(b)[k-1]
         /\ \A i, j \in 0..MaxReqs : i <= j => QueryStart(b)[i] <= QueryStart(b)[j]
<1> DEFINE Rows(k) == IF k <= Len(b) THEN ChunkLen(b[k]) ELSE 0
           step == [k \in 1..MaxReqs |-> [v \in Nat |-> v + Rows(k)]]
           zero == 0
           Body(g) == [k \in 0..MaxReqs |-> IF k = 0 THEN 0 ELSE g[k-1] + Rows(k)]
           s == QueryStart(b)
<1>1. MaxReqs \in Nat /\ Len(b) \in 1..MaxReqs /\ zero \in Nat
  BY DEF NgramAssumption, ScheduledBatch
<1>2. \A k \in 1..MaxReqs : Rows(k) \in Nat
  <2>1. ASSUME NEW k \in 1..MaxReqs, k <= Len(b) PROVE ChunkLen(b[k]) \in Nat
    <3>1. Scheduled(b[k])
      BY <1>1, <2>1 DEF ScheduledBatch
    <3> QED BY <3>1, TokensOfChunk
  <2> QED BY <2>1
<1>3. s = CHOOSE g : g = Body(g)
  BY DEF QueryStart
<1> HIDE DEF Rows, s
<1>4. step \in [1..MaxReqs -> [Nat -> Nat]]
  BY <1>2
<1>5. \E g : g = Body(g)
  <2>1. PICK g \in [0..MaxReqs -> Nat] : Recursion(g, MaxReqs, zero, step)
    <3> HIDE DEF step, zero
    <3> QED BY <1>1, <1>4, RecursionExists
  <2>2. g[0] = 0 /\ \A k \in 1..MaxReqs : g[k] = step[k][g[k-1]]
    BY <2>1 DEF Recursion
  <2>3. \A k \in 1..MaxReqs : step[k][g[k-1]] = g[k-1] + Rows(k)
    <3>1. \A k \in 1..MaxReqs : k - 1 \in 0..MaxReqs
      BY <1>1
    <3> QED BY <2>1, <3>1
  <2> HIDE DEF step
  <2>4. \A k \in 0..MaxReqs : g[k] = IF k = 0 THEN 0 ELSE g[k-1] + Rows(k)
    BY <1>1, <2>2, <2>3
  <2>5. g = Body(g)
    BY <2>1, <2>4
  <2> QED BY <2>5
<1>6. s = Body(s)
  <2> HIDE DEF Body
  <2> QED BY <1>3, <1>5
<1>7. s[0] = 0 /\ \A k \in 1..MaxReqs : s[k] = s[k-1] + Rows(k)
  BY <1>1, <1>6
<1>8. \A k \in 0..MaxReqs : s[k] \in Nat
  <2>1. \A k \in 1..MaxReqs : s[k-1] \in Nat => s[k] = step[k][s[k-1]]
    BY <1>7
  <2>2. StepsWithin(s, MaxReqs, Nat, zero, step)
    BY <1>7, <2>1 DEF StepsWithin
  <2> HIDE DEF step, zero, Body
  <2> QED BY <1>1, <1>4, <2>2, RecursionIs
<1>9. s \in [0..MaxReqs -> Nat]
  BY <1>6, <1>8
<1>10. \A k \in 1..MaxReqs : s[k-1] <= s[k]
  <2>1. \A k \in 1..MaxReqs : s[k-1] \in Nat /\ s[k] \in Nat
    BY <1>1, <1>8
  <2> QED BY <1>2, <1>7, <2>1
<1>11. \A i, j \in 0..MaxReqs : i <= j => s[i] <= s[j]
  BY <1>1, <1>8, <1>10, StepsAscend
<1>12. /\ \A k \in 1..Len(b) : s[k] = s[k-1] + ChunkLen(b[k])
       /\ \A k \in Len(b)+1..MaxReqs : s[k] = s[k-1]
  <2>1. ASSUME NEW k \in 1..Len(b) PROVE s[k] = s[k-1] + ChunkLen(b[k])
    BY <1>1, <1>7 DEF Rows
  <2>2. ASSUME NEW k \in Len(b)+1..MaxReqs PROVE s[k] = s[k-1]
    <3>1. k \in 1..MaxReqs /\ Rows(k) = 0 /\ s[k-1] \in Nat
      BY <1>1, <1>8 DEF Rows
    <3> QED BY <1>7, <3>1
  <2> QED BY <2>1, <2>2
<1> QED BY <1>7, <1>9, <1>11, <1>12 DEF s

-----------------------------------------------------------------------------
(* The flattened batch                                                     *)

(* The chunks follow each other, each from its query start on.             *)
LEMMA FlattenIs ==
  ASSUME NgramAssumption, RequestsInv, NEW b, ScheduledBatch(b)
  PROVE  /\ Flatten(b) \in Seq(Tokens) /\ Len(Flatten(b)) = QueryStart(b)[Len(b)]
         /\ \A i \in 1..Len(b) : \A j \in 1..ChunkLen(b[i]) :
              Flatten(b)[QueryStart(b)[i-1] + j] = ChunkTokens(b[i])[j]
<1> DEFINE n == Len(b)
           part == [i \in 1..n |-> ChunkTokens(b[i])]
           size == [i \in 1..n |-> ChunkLen(b[i])]
           s == QueryStart(b)
           S == Seq(Tokens)
           none == << >>
           step == [i \in 1..n |-> [v \in S |-> v \o part[i]]]
           Body(g) == [i \in 0..n |-> IF i = 0 THEN << >> ELSE g[i-1] \o part[i]]
           Direct(g) == [i \in 0..n |-> IF i = 0 THEN << >> ELSE g[i-1] \o ChunkTokens(b[i])]
           f == CHOOSE g : g = Direct(g)
<1>1. n \in Nat /\ n \in 1..MaxReqs /\ MaxReqs \in Nat
  BY DEF NgramAssumption, ScheduledBatch
<1>2. \A i \in 1..n : part[i] \in S /\ Len(part[i]) = size[i] /\ size[i] \in Nat
  <2>1. ASSUME NEW i \in 1..n PROVE ChunkTokens(b[i]) \in Seq(Tokens) /\ Len(ChunkTokens(b[i])) = ChunkLen(b[i]) /\ ChunkLen(b[i]) \in Nat
    <3>1. Scheduled(b[i])
      BY DEF ScheduledBatch
    <3> QED BY <3>1, TokensOfChunk
  <2> QED BY <2>1
<1>3. Flatten(b) = f[n]
  BY DEF Flatten
<1>4. s[0] = 0 /\ (\A i \in 0..n : s[i] \in Nat) /\ \A i \in 1..n : s[i] = s[i-1] + size[i]
  <2>1. s \in [0..MaxReqs -> Nat] /\ s[0] = 0 /\ \A k \in 1..n : s[k] = s[k-1] + ChunkLen(b[k])
    BY StartsOfBatch
  <2> HIDE DEF s
  <2> QED BY <1>1, <2>1
<1> HIDE DEF s, n
<1>6. \A i \in 1..n : size[i] = ChunkLen(b[i]) /\ part[i] = ChunkTokens(b[i])
  OBVIOUS
<1>5. ASSUME NEW g PROVE Direct(g) = Body(g)
  <2>1. \A i \in 0..n : i # 0 => i \in 1..n
    BY <1>1
  <2> HIDE DEF part
  <2> QED BY <1>6, <2>1
<1> HIDE DEF part, size
<1>7. step \in [1..n -> [S -> S]] /\ none \in S
  <2>1. ASSUME NEW i \in 1..n, NEW v \in S PROVE v \o part[i] \in S
    BY <1>2, ConcatProperties
  <2> QED BY <2>1
<1>8. \E g : g = Body(g)
  <2>1. PICK g \in [0..n -> S] : Recursion(g, n, none, step)
    <3> HIDE DEF step, none, S
    <3> QED BY <1>1, <1>7, RecursionExists
  <2>2. g[0] = << >> /\ \A k \in 1..n : g[k] = step[k][g[k-1]]
    BY <2>1 DEF Recursion
  <2>3. \A k \in 1..n : step[k][g[k-1]] = g[k-1] \o part[k]
    <3>1. \A k \in 1..n : g[k-1] \in S
      <4>1. \A k \in 1..n : k - 1 \in 0..n
        BY <1>1
      <4> HIDE DEF S
      <4> QED BY <2>1, <4>1
    <3> HIDE DEF S
    <3> QED BY <3>1
  <2> HIDE DEF step, S
  <2>4. ASSUME NEW k \in 0..n PROVE g[k] = IF k = 0 THEN << >> ELSE g[k-1] \o part[k]
    <3>1. CASE k = 0
      BY <2>2, <3>1
    <3>2. CASE k # 0
      <4>1. k \in 1..n
        BY <1>1, <3>2
      <4> QED BY <2>2, <2>3, <3>2, <4>1
    <3> QED BY <3>1, <3>2
  <2>5. g = Body(g)
    BY <2>1, <2>4
  <2> QED BY <2>5
<1>9. f = Body(f)
  <2>1. \E g : g = Direct(g)
    <3>1. PICK g : g = Body(g)
      BY <1>8
    <3> HIDE DEF Direct, Body
    <3>2. g = Direct(g)
      BY <1>5, <3>1
    <3> QED BY <3>2
  <2>2. f = Direct(f)
    <3> HIDE DEF Direct
    <3> QED BY <2>1
  <2> HIDE DEF f, Direct, Body
  <2> QED BY <1>5, <2>2
<1> HIDE DEF f
<1>10. Joins(f, part, n)
  <2>1. \A i \in 0..n : f[i] = IF i = 0 THEN << >> ELSE f[i-1] \o part[i]
    BY <1>9
  <2>2. f[0] = << >>
    BY <1>1, <2>1
  <2>3. ASSUME NEW i \in 1..n PROVE f[i] = f[i-1] \o part[i]
    <3>1. i \in 0..n /\ i # 0
      BY <1>1
    <3> QED BY <2>1, <3>1
  <2> QED BY <2>2, <2>3 DEF Joins
<1>11. Joined(f, part, size, s, Tokens, n)
  <2>1. Parts(part, size, n, Tokens)
    BY <1>2 DEF Parts
  <2>2. Places(s, size, n)
    BY <1>4 DEF Places
  <2>3. n \in 0..n
    BY <1>1
  <2> HIDE DEF Body, Direct, step
  <2> QED BY <1>1, <1>10, <2>1, <2>2, <2>3, JoinIs
<1>12. f[n] \in Seq(Tokens) /\ Len(f[n]) = s[n] /\ \A k \in 1..n : \A j \in 1..size[k] : f[n][s[k-1]+j] = part[k][j]
  BY <1>11 DEF Joined
<1> QED BY <1>3, <1>6, <1>12 DEF s, n

-----------------------------------------------------------------------------
(* The walk of the kernel: a predecessor counts until the first EOS.       *)
LEMMA KernelGramIs ==
  ASSUME NgramAssumption, NEW t
  PROVE  KernelGram(t) =
           [s \in Shifts |->
              IF s = 0 THEN input[t+1]
              ELSE IF \A k \in 1..s-1 : Predecessor(t, k) # Eos THEN Predecessor(t, s) ELSE Eos]
<1> DEFINE P == [k \in 1..CtxLen |-> Predecessor(t, k)]
           Cand(v, k) == IF v.crossed THEN Eos ELSE P[k]
           Step(v, k) == [token |-> Cand(v, k), crossed |-> v.crossed \/ Cand(v, k) = Eos]
           first == [token |-> input[t+1], crossed |-> FALSE]
           T == {input[t+1], Eos} \cup {P[k] : k \in 1..CtxLen}
           W == [token : T, crossed : BOOLEAN]
           step == [k \in 1..CtxLen |-> [v \in W |-> Step(v, k)]]
           Direct(g) == [s \in Shifts |->
             IF s = 0 THEN [token |-> input[t+1], crossed |-> FALSE]
             ELSE LET cand == IF g[s-1].crossed THEN Eos ELSE Predecessor(t, s)
                  IN  [token |-> cand, crossed |-> g[s-1].crossed \/ cand = Eos]]
           walk == CHOOSE g : g = Direct(g)
<1>1. CtxLen \in Nat /\ Shifts = 0..CtxLen
  BY DEF NgramAssumption, CtxLen, Shifts
<1>2. KernelGram(t) = [s \in Shifts |-> walk[s].token]
  BY DEF KernelGram
<1>3. \A k \in 1..CtxLen : P[k] = Predecessor(t, k)
  OBVIOUS
<1> HIDE DEF P
<1>4. first \in W /\ first.token = input[t+1] /\ first.crossed = FALSE
  OBVIOUS
<1>5. ASSUME NEW v \in W, NEW k \in 1..CtxLen PROVE Step(v, k) \in W
  <2>1. v.crossed \in BOOLEAN /\ Cand(v, k) \in T
    OBVIOUS
  <2> HIDE DEF Cand, T
  <2> QED BY <2>1
<1>6. step \in [1..CtxLen -> [W -> W]]
  <2> HIDE DEF W, Step
  <2> QED BY <1>5
<1>7. \A g : g = Direct(g) <=> (g = [s \in Shifts |-> IF s = 0 THEN first ELSE Step(g[s-1], s)])
  <2> SUFFICES ASSUME NEW g
      PROVE Direct(g) = [s \in Shifts |-> IF s = 0 THEN first ELSE Step(g[s-1], s)]
    OBVIOUS
  <2>1. ASSUME NEW s \in Shifts, s # 0 PROVE s \in 1..CtxLen
    BY <1>1, <2>1
  <2> QED BY <1>3, <2>1
<1>8. \E g : g = Direct(g)
  <2>1. PICK g \in [0..CtxLen -> W] : Recursion(g, CtxLen, first, step)
    <3> HIDE DEF step, W, first
    <3> QED BY <1>1, <1>4, <1>6, RecursionExists
  <2>2. ASSUME NEW k \in 1..CtxLen PROVE g[k] = Step(g[k-1], k)
    <3>1. g[k-1] \in W /\ g[k] = step[k][g[k-1]]
      <4>1. k - 1 \in 0..CtxLen
        BY <1>1
      <4> HIDE DEF step, W
      <4> QED BY <2>1, <4>1 DEF Recursion
    <3> HIDE DEF W, Step
    <3> QED BY <3>1
  <2>3. g[0] = first
    BY <2>1 DEF Recursion
  <2>4. g = [s \in Shifts |-> IF s = 0 THEN first ELSE Step(g[s-1], s)]
    <3>1. ASSUME NEW s \in Shifts PROVE g[s] = IF s = 0 THEN first ELSE Step(g[s-1], s)
      <4>1. s # 0 => s \in 1..CtxLen
        BY <1>1
      <4> HIDE DEF Step, first
      <4> QED BY <2>2, <2>3, <4>1
    <3> HIDE DEF Step, first, W
    <3> QED BY <1>1, <2>1, <3>1
  <2> HIDE DEF Direct, Step, first
  <2> QED BY <1>7, <2>4
<1>9. walk = Direct(walk)
  <2> HIDE DEF Direct
  <2> QED BY <1>8
<1> HIDE DEF walk
<1>10. walk = [s \in Shifts |-> IF s = 0 THEN first ELSE Step(walk[s-1], s)]
  <2> HIDE DEF Direct, Step, first
  <2> QED BY <1>7, <1>9
<1>11. walk[0] = first /\ \A s \in 1..CtxLen : walk[s] = Step(walk[s-1], s)
  <2> HIDE DEF Step, first, Direct
  <2>1. \A s \in Shifts : walk[s] = IF s = 0 THEN first ELSE Step(walk[s-1], s)
    BY <1>10
  <2>2. 0 \in Shifts /\ \A s \in 1..CtxLen : s \in Shifts /\ s # 0
    BY <1>1
  <2> QED BY <2>1, <2>2
<1> DEFINE Open(s) == \A k \in 1..s : P[k] # Eos
           D == {s \in 0..CtxLen : /\ walk[s].crossed = ~Open(s)
                                   /\ s > 0 => walk[s].token = IF Open(s-1) THEN P[s] ELSE Eos}
<1>12. 0 \in D
  <2>1. Open(0)
    OBVIOUS
  <2>2. walk[0].crossed = FALSE
    <3> HIDE DEF first, Step, Direct
    <3> QED BY <1>4, <1>11
  <2> HIDE DEF Open, first
  <2>3. walk[0].crossed = ~Open(0)
    BY <2>1, <2>2
  <2>4. 0 \in 0..CtxLen
    BY <1>1
  <2> QED BY <2>3, <2>4
<1>13. ASSUME NEW s \in 1..CtxLen, s - 1 \in D PROVE s \in D
  <2>1. walk[s-1].crossed = ~Open(s-1)
    BY <1>13
  <2>2. walk[s] = Step(walk[s-1], s)
    BY <1>11
  <2>3. walk[s].token = Cand(walk[s-1], s) /\ walk[s].crossed = (walk[s-1].crossed \/ Cand(walk[s-1], s) = Eos)
    <3> HIDE DEF Cand
    <3> QED BY <2>2
  <2>4. Open(s) <=> Open(s-1) /\ P[s] # Eos
    <3>1. \A k \in 1..s : k \in 1..s-1 \/ k = s
      OBVIOUS
    <3>2. \A k \in 1..s-1 : k \in 1..s
      OBVIOUS
    <3>3. s \in 1..s
      OBVIOUS
    <3> QED BY <3>1, <3>2, <3>3
  <2> HIDE DEF Open, Step
  <2>5. walk[s].token = IF Open(s-1) THEN P[s] ELSE Eos
    BY <2>1, <2>3
  <2>6. walk[s].crossed = ~Open(s)
    BY <2>1, <2>3, <2>4
  <2>7. s \in 0..CtxLen
    OBVIOUS
  <2> QED BY <2>5, <2>6, <2>7
<1>14. \A s \in 0..CtxLen : s \in D
  <2> HIDE DEF D
  <2> QED BY <1>1, <1>12, <1>13, IntervalInduction
<1>15. ASSUME NEW s \in Shifts
       PROVE  walk[s].token = IF s = 0 THEN input[t+1]
                ELSE IF \A k \in 1..s-1 : Predecessor(t, k) # Eos THEN Predecessor(t, s) ELSE Eos
  <2>1. CASE s = 0
    BY <1>4, <1>11, <2>1
  <2>2. CASE s # 0
    <3>1. s \in 1..CtxLen /\ s > 0 /\ \A k \in 1..s-1 : k \in 1..CtxLen
      BY <1>1, <2>2
    <3>2. walk[s].token = IF Open(s-1) THEN P[s] ELSE Eos
      BY <1>1, <1>14, <3>1
    <3>3. Open(s-1) <=> \A k \in 1..s-1 : Predecessor(t, k) # Eos
      BY <1>3, <3>1
    <3> HIDE DEF Open
    <3> QED BY <1>3, <2>2, <3>1, <3>2, <3>3
  <2> QED BY <2>1, <2>2
<1> QED BY <1>2, <1>15

-----------------------------------------------------------------------------
(* The n-grams of a batch                                                  *)

(* The tokens of a request at position p, its drafts after its own, and    *)
(* their n-gram                                                            *)
Full(c, p) == IF p < len[c.req] THEN all[c.req][p] ELSE c.drafts[p - len[c.req] + 1]

FullGram(c, p) ==
  [s \in Shifts |->
     IF s <= p /\ (\A k \in p-s..p-1 : Full(c, k) # Eos) THEN Full(c, p-s) ELSE Eos]

(* What the buffers hold while a batch runs                                *)
StartsHeld == \A k \in 0..rows : qsl[k] = QueryStart(batch)[k]

InputHeld ==
  /\ input \in Seq(Tokens) /\ QueryStart(batch)[Len(batch)] <= Len(input)
  /\ \A i \in 1..Len(batch) : \A j \in 1..ChunkLen(batch[i]) :
       input[QueryStart(batch)[i-1] + j] = Full(batch[i], computed[batch[i].req] + j - 1)

ContextHeld ==
  \A i \in 1..Len(batch) : \A k \in 0..CtxLen-1 :
    ctx[i-1][k] = LET p == computed[batch[i].req] + k - CtxLen
                  IN  IF p >= 0 THEN all[batch[i].req][p] ELSE Eos

GramsHeld ==
  out # << >> =>
    /\ Len(out) = Len(input)
    /\ \A i \in 1..Len(batch) : \A j \in 1..ChunkLen(batch[i]) :
         out[QueryStart(batch)[i-1] + j] = FullGram(batch[i], computed[batch[i].req] + j - 1)

(* The query starts a batch is searched by                                 *)
StartsType == rows \in 1..MaxReqs /\ (\A k \in 0..rows : qsl[k] \in Nat) /\ Layout(qsl, rows)

LEMMA TokensAreFull ==
  ASSUME NgramAssumption, RequestsInv, NEW c, Scheduled(c), NEW j \in 1..ChunkLen(c)
  PROVE  ChunkTokens(c)[j] = Full(c, computed[c.req] + j - 1)
<1> DEFINE r == c.req
           own == computed[r]
<1>1. /\ r \in Reqs /\ c.q \in Nat \ {0} /\ len[r] \in Nat /\ own \in Nat /\ own + c.q <= len[r]
      /\ c.drafts \in Seq(Tokens) /\ (c.drafts # << >> => own = len[r] - 1)
  BY DEF RequestsInv, Scheduled, NgramAssumption
<1>2. /\ ChunkLen(c) = c.q + Len(c.drafts) /\ Len(c.drafts) \in Nat
      /\ ChunkTokens(c)[j] = IF j <= c.q THEN all[r][own + j - 1] ELSE c.drafts[j - c.q]
  BY TokensOfChunk
<1> DEFINE d == Len(c.drafts)
<1>3. d > 0 => c.drafts # << >>
  BY <1>1
<1> HIDE DEF r, own, d
<1>4. j \in 1..c.q + d /\ d \in Nat
  BY <1>2 DEF d
<1>5. CASE j <= c.q
  <2>1. own + j - 1 < len[r]
    BY <1>1, <1>4, <1>5
  <2> QED BY <1>2, <1>5, <2>1 DEF Full, r, own
<1>6. CASE ~(j <= c.q)
  <2>1. d > 0
    BY <1>1, <1>4, <1>6
  <2>2. own = len[r] - 1 /\ c.q = 1
    BY <1>1, <1>3, <2>1
  <2>3. ~(own + j - 1 < len[r]) /\ (own + j - 1) - len[r] + 1 = j - c.q
    BY <1>1, <1>4, <1>6, <2>2
  <2>4. Full(c, own + j - 1) = c.drafts[j - c.q]
    BY <2>3 DEF Full, r
  <2> QED BY <1>2, <1>6, <2>4 DEF r, own
<1> QED BY <1>5, <1>6

LEMMA RequestIs ==
  ASSUME NgramAssumption, StartsType, NEW t \in Nat
  PROVE  /\ RequestOf(t) \in 0..rows-1 /\ qsl[RequestOf(t)] <= t
         /\ t < qsl[rows] => t < qsl[RequestOf(t) + 1]
         /\ qsl[rows] <= t => RequestOf(t) = rows - 1
         /\ \A i \in 0..rows-1 : qsl[i] <= t /\ t < qsl[i+1] => RequestOf(t) = i
<1> DEFINE R == RequestOf(t)
           n == rows
<1>1. n \in Nat \ {0} /\ \A k \in 0..n : qsl[k] \in Nat
  BY DEF StartsType, NgramAssumption
<1>2. Layout(qsl, n) /\ \A i, j \in 0..n : i <= j => qsl[i] <= qsl[j]
  BY DEF StartsType, Layout
<1>3. FindsTheRequest(qsl, n, t)
  BY <1>1, <1>2, FindsTheRequestHolds
<1>4. R \in 0..n-1 /\ IF t < qsl[n] THEN qsl[R] <= t /\ t < qsl[R+1] ELSE R = n - 1
  BY <1>3 DEF FindsTheRequest, RequestOf
<1> HIDE DEF R, n
<1>5. qsl[R] <= t
  <2>1. CASE t < qsl[n]
    BY <1>4, <2>1
  <2>2. CASE ~(t < qsl[n])
    <3>1. R \in 0..n /\ n \in 0..n /\ R <= n
      BY <1>1, <1>4
    <3>2. qsl[R] <= qsl[n] /\ qsl[R] \in Nat /\ qsl[n] \in Nat
      BY <1>1, <1>2, <3>1
    <3> QED BY <2>2, <3>2
  <2> QED BY <2>1, <2>2
<1>6. ASSUME NEW i \in 0..n-1, qsl[i] <= t, t < qsl[i+1] PROVE R = i
  <2>1. i \in 0..n /\ i + 1 \in 0..n /\ n \in 0..n /\ R \in 0..n /\ R + 1 \in 0..n /\ i + 1 <= n
    BY <1>1, <1>4
  <2>2. t < qsl[n]
    <3>1. qsl[i+1] <= qsl[n] /\ qsl[i+1] \in Nat /\ qsl[n] \in Nat
      BY <1>1, <1>2, <2>1
    <3> QED BY <1>6, <3>1
  <2>3. ~(i + 1 <= R)
    <3>1. i + 1 <= R => qsl[i+1] <= qsl[R] /\ qsl[i+1] \in Nat /\ qsl[R] \in Nat
      BY <1>1, <1>2, <2>1
    <3> QED BY <1>5, <1>6, <3>1
  <2>4. ~(R + 1 <= i)
    <3>1. R + 1 <= i => qsl[R+1] <= qsl[i] /\ qsl[R+1] \in Nat /\ qsl[i] \in Nat
      BY <1>1, <1>2, <2>1
    <3> QED BY <1>4, <1>6, <2>2, <3>1
  <2> QED BY <1>4, <2>3, <2>4
<1>7. qsl[n] <= t => R = n - 1
  <2>1. n \in 0..n /\ qsl[n] \in Nat
    BY <1>1
  <2> QED BY <1>4, <2>1
<1> QED BY <1>4, <1>5, <1>6, <1>7 DEF R, n

(* A batch with its buffers filled                                         *)
BatchHeld ==
  /\ ScheduledBatch(batch) /\ rows \in Len(batch)..MaxReqs
  /\ StartsHeld /\ InputHeld /\ ContextHeld

LEMMA StartsAreTyped ==
  ASSUME NgramAssumption, RequestsInv, BatchHeld
  PROVE  StartsType
<1> DEFINE Q == QueryStart(batch)
           n == Len(batch)
<1>1. Q \in [0..MaxReqs -> Nat] /\ Q[0] = 0 /\ \A i, j \in 0..MaxReqs : i <= j => Q[i] <= Q[j]
  BY StartsOfBatch DEF BatchHeld
<1>2. MaxReqs \in Nat /\ n \in 1..MaxReqs /\ rows \in n..MaxReqs /\ \A k \in 0..rows : qsl[k] = Q[k]
  BY DEF BatchHeld, ScheduledBatch, StartsHeld, NgramAssumption
<1> HIDE DEF Q, n
<1>3. rows \in 1..MaxReqs /\ 0 \in 0..rows /\ \A k \in 0..rows : k \in 0..MaxReqs
  BY <1>2
<1> QED BY <1>1, <1>2, <1>3 DEF StartsType, Layout

(* The token of the batch at j in chunk i is searched and found there.     *)
LEMMA RequestOfToken ==
  ASSUME NgramAssumption, RequestsInv, BatchHeld,
         NEW i \in 1..Len(batch), NEW j \in 1..ChunkLen(batch[i]),
         NEW t, t = QueryStart(batch)[i-1] + j - 1
  PROVE  t \in Nat /\ RequestOf(t) = i - 1 /\ t - qsl[i-1] = j - 1 /\ t + 1 = QueryStart(batch)[i-1] + j
         /\ QueryStart(batch)[i-1] \in Nat /\ QueryStart(batch)[i-1] + j \in 1..Len(input)
<1> DEFINE Q == QueryStart(batch)
           n == Len(batch)
           m == ChunkLen(batch[i])
           low == Q[i-1]
<1>1. /\ Q \in [0..MaxReqs -> Nat] /\ (\A k \in 1..n : Q[k] = Q[k-1] + ChunkLen(batch[k]))
      /\ \A k, l \in 0..MaxReqs : k <= l => Q[k] <= Q[l]
  BY StartsOfBatch DEF BatchHeld
<1>2. MaxReqs \in Nat /\ n \in 1..MaxReqs /\ rows \in n..MaxReqs /\ \A k \in 0..rows : qsl[k] = Q[k]
  BY DEF BatchHeld, ScheduledBatch, StartsHeld, NgramAssumption
<1>3. m \in Nat
  <2>1. Scheduled(batch[i])
    BY DEF BatchHeld, ScheduledBatch
  <2> QED BY <2>1, TokensOfChunk
<1>4. Q[n] <= Len(input) /\ Len(input) \in Nat
  BY DEF BatchHeld, InputHeld
<1>5. j \in 1..m /\ i \in 1..n /\ t = low + j - 1
  OBVIOUS
<1>6. Q[i] = low + m
  BY <1>1
<1> HIDE DEF Q, n, m
<1>7. i - 1 \in 0..rows /\ i \in 0..rows /\ i - 1 \in 0..MaxReqs /\ i \in 0..MaxReqs /\ n \in 0..MaxReqs /\ i <= n
      /\ i - 1 \in 0..rows-1 /\ i - 1 + 1 = i
  BY <1>2, <1>5
<1>8. low \in Nat /\ qsl[i-1] = low /\ qsl[i] = Q[i] /\ Q[i] <= Q[n] /\ Q[i] \in Nat /\ Q[n] \in Nat
  BY <1>1, <1>2, <1>7
<1> HIDE DEF low
<1>9. low + j \in 1..Len(input)
  BY <1>3, <1>4, <1>5, <1>6, <1>8
<1>10. t \in Nat /\ qsl[i-1] <= t /\ t < qsl[i-1+1] /\ t - qsl[i-1] = j - 1 /\ t + 1 = low + j
  BY <1>3, <1>5, <1>6, <1>7, <1>8, SMTT(60)
<1>11. RequestOf(t) = i - 1
  BY <1>7, <1>10, StartsAreTyped, RequestIs
<1>12. low = QueryStart(batch)[i-1]
  BY DEF low, Q
<1> QED BY <1>8, <1>9, <1>10, <1>11, <1>12

(* Whether from this step's input or from the context: a predecessor is    *)
(* the token of the request's history, and EOS before its start.           *)
LEMMA PredecessorIs ==
  ASSUME NgramAssumption, RequestsInv, BatchHeld,
         NEW i \in 1..Len(batch), NEW j \in 1..ChunkLen(batch[i]),
         NEW t, t = QueryStart(batch)[i-1] + j - 1,
         NEW p, p = computed[batch[i].req] + j - 1, NEW s \in 1..CtxLen
  PROVE  p \in Nat /\ Predecessor(t, s) = IF s <= p THEN Full(batch[i], p - s) ELSE Eos
<1> DEFINE c == batch[i]
           own == computed[c.req]
           low == QueryStart(batch)[i-1]
           m == ChunkLen(c)
<1>1. Scheduled(c) /\ own \in Nat /\ len[c.req] \in Nat /\ own < len[c.req] /\ i \in 1..Len(batch)
  <2>1. Scheduled(c)
    BY DEF BatchHeld, ScheduledBatch
  <2> HIDE DEF c
  <2> QED BY <2>1 DEF Scheduled, RequestsInv, NgramAssumption
<1>2. t \in Nat /\ RequestOf(t) = i - 1 /\ t - qsl[i-1] = j - 1 /\ t + 1 = low + j /\ low \in Nat
  BY RequestOfToken
<1>3. m \in Nat /\ j \in 1..m
  BY <1>1, TokensOfChunk
<1>4. CtxLen \in Nat /\ s \in 1..CtxLen
  BY DEF NgramAssumption, CtxLen
<1>5. Predecessor(t, s) = IF j - 1 >= s THEN input[t - s + 1] ELSE ctx[i-1][CtxLen - s + (j - 1)]
  BY <1>2 DEF Predecessor
<1>6. \A k \in 1..m : input[low + k] = Full(c, own + k - 1)
  BY <1>1 DEF BatchHeld, InputHeld
<1>7. \A k \in 0..CtxLen-1 : ctx[i-1][k] = IF own + k - CtxLen >= 0 THEN all[c.req][own + k - CtxLen] ELSE Eos
  BY <1>1 DEF BatchHeld, ContextHeld
<1>8. p = own + j - 1
  OBVIOUS
<1> HIDE DEF c, own, low, m
<1>9. p \in Nat
  BY <1>1, <1>3, <1>8
<1>10. CASE j - 1 >= s
  <2>0. j \in Nat /\ s \in Nat /\ s >= 1 /\ s + 1 <= j /\ j <= m
    BY <1>3, <1>4, <1>10
  <2>1. j - s \in 1..m /\ t - s + 1 = low + (j - s) /\ own + (j - s) - 1 = p - s /\ s <= p
    <3>1. j - s \in 1..m
      BY <1>3, <2>0
    <3>2. t - s + 1 = low + (j - s)
      BY <1>2, <2>0, SMTT(60)
    <3>3. own + (j - s) - 1 = p - s /\ s <= p
      BY <1>1, <1>8, <2>0
    <3> QED BY <3>1, <3>2, <3>3
  <2>2. input[low + (j - s)] = Full(c, own + (j - s) - 1)
    BY <1>6, <2>1
  <2>3. input[t - s + 1] = Full(c, p - s)
    BY <2>1, <2>2
  <2> QED BY <1>5, <1>9, <1>10, <2>1, <2>3 DEF c
<1>11. CASE ~(j - 1 >= s)
  <2> DEFINE k == CtxLen - s + (j - 1)
  <2>1. k \in 0..CtxLen-1 /\ own + k - CtxLen = p - s
    BY <1>1, <1>3, <1>4, <1>8, <1>11, SMTT(60)
  <2> HIDE DEF k
  <2>2. ctx[i-1][k] = IF p - s >= 0 THEN all[c.req][p - s] ELSE Eos
    BY <1>7, <2>1
  <2>3. p - s >= 0 <=> s <= p
    BY <1>4, <1>9
  <2>4. p - s < len[c.req]
    BY <1>1, <1>3, <1>4, <1>8, <1>11
  <2>5. Full(c, p - s) = all[c.req][p - s]
    BY <2>4 DEF Full
  <2>6. Predecessor(t, s) = ctx[i-1][k]
    BY <1>5, <1>11 DEF k
  <2> QED BY <1>9, <2>2, <2>3, <2>5, <2>6 DEF c
<1> QED BY <1>10, <1>11

LEMMA GramOfToken ==
  ASSUME NgramAssumption, RequestsInv, BatchHeld,
         NEW i \in 1..Len(batch), NEW j \in 1..ChunkLen(batch[i])
  PROVE  KernelGram(QueryStart(batch)[i-1] + j - 1) = FullGram(batch[i], computed[batch[i].req] + j - 1)
<1> DEFINE c == batch[i]
           t == QueryStart(batch)[i-1] + j - 1
           p == computed[c.req] + j - 1
<1>1. KernelGram(t) = [s \in Shifts |->
         IF s = 0 THEN input[t+1]
         ELSE IF \A k \in 1..s-1 : Predecessor(t, k) # Eos THEN Predecessor(t, s) ELSE Eos]
  BY KernelGramIs
<1>2. \A s \in 1..CtxLen : Predecessor(t, s) = IF s <= p THEN Full(c, p - s) ELSE Eos
  BY PredecessorIs
<1>3. p \in Nat
  <2>1. Scheduled(c)
    BY DEF BatchHeld, ScheduledBatch
  <2>2. computed[c.req] \in Nat
    BY <2>1 DEF Scheduled, RequestsInv, NgramAssumption
  <2>3. ChunkLen(c) \in Nat /\ j \in 1..ChunkLen(c)
    BY <2>1, TokensOfChunk
  <2> QED BY <2>2, <2>3
<1>4. t + 1 = QueryStart(batch)[i-1] + j /\ input[t+1] = Full(c, p)
  <2>1. t + 1 = QueryStart(batch)[i-1] + j
    BY RequestOfToken
  <2> HIDE DEF t
  <2> QED BY <2>1 DEF BatchHeld, InputHeld
<1>5. CtxLen \in Nat /\ Shifts = 0..CtxLen
  BY DEF NgramAssumption, CtxLen, Shifts
<1> HIDE DEF t, p, c
<1>6. ASSUME NEW s \in Shifts
      PROVE (IF s = 0 THEN input[t+1]
             ELSE IF \A k \in 1..s-1 : Predecessor(t, k) # Eos THEN Predecessor(t, s) ELSE Eos)
          = IF s <= p /\ (\A k \in p-s..p-1 : Full(c, k) # Eos) THEN Full(c, p-s) ELSE Eos
  <2>1. CASE s = 0
    <3>1. s <= p /\ (\A k \in p-s..p-1 : FALSE) /\ p - s = p
      BY <1>3, <2>1
    <3> QED BY <1>4, <2>1, <3>1
  <2>2. CASE s # 0 /\ s <= p
    <3>1. s \in 1..CtxLen
      BY <1>5, <2>2
    <3>2. Predecessor(t, s) = Full(c, p - s) /\ \A k \in 1..s-1 : Predecessor(t, k) = Full(c, p - k)
      BY <1>2, <1>3, <1>5, <2>2, <3>1
    <3>3. ASSUME \A k \in p-s..p-1 : Full(c, k) # Eos
          PROVE \A k \in 1..s-1 : Full(c, p - k) # Eos
      <4>1. \A k \in 1..s-1 : p - k \in p-s..p-1
        BY <1>3, <3>1
      <4> QED BY <3>3, <4>1
    <3>4. ASSUME \A k \in 1..s-1 : Full(c, p - k) # Eos, Full(c, p - s) # Eos
          PROVE \A k \in p-s..p-1 : Full(c, k) # Eos
      <4>1. SUFFICES ASSUME NEW k \in p-s..p-1 PROVE Full(c, k) # Eos
        OBVIOUS
      <4>2. p - k \in 1..s /\ p - (p - k) = k
        BY <1>3, <3>1
      <4>3. p - k = s \/ p - k \in 1..s-1
        BY <1>3, <3>1, <4>2
      <4>4. CASE p - k = s
        <5>1. k = p - s
          BY <1>3, <3>1, <4>4
        <5> QED BY <3>4, <5>1
      <4>5. CASE p - k \in 1..s-1
        <5>1. Full(c, p - (p - k)) # Eos
          BY <3>4, <4>5
        <5> QED BY <4>2, <5>1
      <4> QED BY <4>3, <4>4, <4>5
    <3>5. (\A k \in 1..s-1 : Predecessor(t, k) # Eos) <=> \A k \in 1..s-1 : Full(c, p - k) # Eos
      BY <3>2
    <3> QED BY <2>2, <3>2, <3>3, <3>4, <3>5
  <2>3. CASE s # 0 /\ ~(s <= p)
    <3>1. s \in 1..CtxLen
      BY <1>5, <2>3
    <3>2. Predecessor(t, s) = Eos
      BY <1>2, <2>3, <3>1
    <3> QED BY <2>3, <3>2
  <2> QED BY <2>1, <2>2, <2>3
<1>7. KernelGram(t) = FullGram(c, p)
  BY <1>1, <1>6 DEF FullGram
<1> QED BY <1>7 DEF t, p, c

-----------------------------------------------------------------------------
(* The torch path                                                          *)

LEMMA PredecessorIsAToken ==
  ASSUME NgramAssumption, StartsType, input \in Seq(Tokens),
         ctx \in [0..MaxReqs-1 -> [0..CtxLen-1 -> Tokens]],
         NEW t \in 0..Len(input)-1, NEW s \in 1..CtxLen
  PROVE  Predecessor(t, s) \in Tokens
<1> DEFINE R == RequestOf(t)
           low == qsl[R]
           n == Len(input)
<1>1. n \in Nat /\ CtxLen \in Nat /\ MaxReqs \in Nat /\ rows \in 1..MaxReqs /\ \A k \in 0..rows : qsl[k] \in Nat
  BY DEF NgramAssumption, CtxLen, StartsType
<1>2. t \in Nat /\ t < n
  BY <1>1
<1>3. R \in 0..rows-1 /\ low <= t
  BY <1>2, RequestIs
<1>4. \A k \in 1..n : input[k] \in Tokens
  OBVIOUS
<1>5. Predecessor(t, s) = IF t - low >= s THEN input[t - s + 1] ELSE ctx[R][CtxLen - s + (t - low)]
  BY DEF Predecessor
<1> HIDE DEF R, low, n
<1>6. low \in Nat /\ R \in 0..MaxReqs-1
  BY <1>1, <1>3 DEF low
<1>7. CASE t - low >= s
  <2>1. t - s + 1 \in 1..n
    BY <1>1, <1>2, <1>3, <1>6, <1>7
  <2> QED BY <1>4, <1>5, <1>7, <2>1
<1>8. CASE ~(t - low >= s)
  <2>1. CtxLen - s + (t - low) \in 0..CtxLen-1
    BY <1>1, <1>2, <1>3, <1>6, <1>8
  <2>2. ctx[R][CtxLen - s + (t - low)] \in Tokens
    BY <1>6, <2>1
  <2> QED BY <1>5, <1>8, <2>2
<1> QED BY <1>7, <1>8

LEMMA GramIsTyped ==
  ASSUME NgramAssumption, StartsType, input \in Seq(Tokens),
         ctx \in [0..MaxReqs-1 -> [0..CtxLen-1 -> Tokens]],
         NEW t \in 0..Len(input)-1
  PROVE  KernelGram(t) \in Gram
<1>1. CtxLen \in Nat /\ Shifts = 0..CtxLen /\ Eos \in Tokens /\ Len(input) \in Nat
  BY DEF NgramAssumption, CtxLen, Shifts
<1>2. input[t+1] \in Tokens
  <2>1. t + 1 \in 1..Len(input)
    BY <1>1
  <2> QED BY <2>1
<1>3. \A s \in Shifts : s # 0 => Predecessor(t, s) \in Tokens
  <2>1. \A s \in Shifts : s # 0 => s \in 1..CtxLen
    BY <1>1
  <2> QED BY <2>1, PredecessorIsAToken
<1>4. KernelGram(t) = [s \in Shifts |->
         IF s = 0 THEN input[t+1]
         ELSE IF \A k \in 1..s-1 : Predecessor(t, k) # Eos THEN Predecessor(t, s) ELSE Eos]
  BY KernelGramIs
<1> QED BY <1>1, <1>2, <1>3, <1>4 DEF Gram

(* The request of a token by counting the query starts up to it            *)
LEMMA PackedRequestIs ==
  ASSUME NgramAssumption, StartsType, NEW t \in Nat
  PROVE  PackedRequest(t) = RequestOf(t)
<1> DEFINE R == RequestOf(t)
           n == rows
           S == {k \in 0..n : qsl[k] <= t}
           last == IF t < qsl[n] THEN R ELSE n
<1>1. /\ R \in 0..n-1 /\ qsl[R] <= t /\ (t < qsl[n] => t < qsl[R+1]) /\ (qsl[n] <= t => R = n - 1)
  BY RequestIs
<1>2. n \in Nat \ {0} /\ (\A k \in 0..n : qsl[k] \in Nat) /\ \A i, j \in 0..n : i <= j => qsl[i] <= qsl[j]
  BY DEF StartsType, Layout, NgramAssumption
<1>3. PackedRequest(t) = IF Cardinality(S) - 1 < n - 1 THEN Cardinality(S) - 1 ELSE n - 1
  BY DEF PackedRequest
<1> HIDE DEF R, n
<1>4. last \in 0..n
  BY <1>1, <1>2
<1>5. S = 0..last
  <2>1. ASSUME NEW k \in 0..n PROVE qsl[k] <= t <=> k <= last
    <3>1. CASE t < qsl[n]
      <4>1. R \in 0..n /\ R + 1 \in 0..n /\ last = R
        BY <1>1, <1>2, <3>1
      <4>2. k <= R => qsl[k] <= qsl[R]
        BY <1>2, <4>1
      <4>3. R + 1 <= k => qsl[R+1] <= qsl[k]
        BY <1>2, <4>1
      <4>4. qsl[k] \in Nat /\ qsl[R] \in Nat /\ qsl[R+1] \in Nat
        BY <1>2, <4>1
      <4>5. k <= R \/ R + 1 <= k
        BY <4>1
      <4>6. k <= R => ~(R + 1 <= k)
        BY <4>1
      <4> HIDE DEF last
      <4> QED BY <1>1, <3>1, <4>1, <4>2, <4>3, <4>4, <4>5, <4>6
    <3>2. CASE ~(t < qsl[n])
      <4>1. n \in 0..n /\ k <= n /\ last = n
        BY <1>2, <3>2
      <4>2. qsl[k] <= qsl[n] /\ qsl[k] \in Nat /\ qsl[n] \in Nat
        BY <1>2, <4>1
      <4> QED BY <3>2, <4>1, <4>2
    <3> QED BY <3>1, <3>2
  <2>2. \A k \in 0..n : k <= last <=> k \in 0..last
    BY <1>2, <1>4
  <2>3. \A k \in 0..last : k \in 0..n
    BY <1>2, <1>4
  <2> HIDE DEF last
  <2> QED BY <2>1, <2>2, <2>3
<1>6. Cardinality(S) = last + 1
  <2>1. 0 \in Int /\ last \in Int /\ 0 <= last
    BY <1>2, <1>4
  <2>2. Cardinality(0..last) = IF 0 > last THEN 0 ELSE last - 0 + 1
    BY <2>1, FS_Interval
  <2> HIDE DEF last, S
  <2> QED BY <1>5, <2>1, <2>2
<1> HIDE DEF S
<1>7. PackedRequest(t) = R
  <2>1. CASE t < qsl[n]
    <3>1. last = R
      BY <2>1
    <3> HIDE DEF last
    <3> QED BY <1>1, <1>2, <1>3, <1>4, <1>6, <3>1
  <2>2. CASE ~(t < qsl[n])
    <3>1. last = n /\ qsl[n] <= t
      <4>1. n \in 0..n
        BY <1>2
      <4> QED BY <1>2, <2>2, <4>1
    <3> HIDE DEF last
    <3> QED BY <1>1, <1>2, <1>3, <1>4, <1>6, <3>1
  <2> QED BY <2>1, <2>2
<1> QED BY <1>7 DEF R

(* No EOS lies in the s places before i exactly when position i is at      *)
(* least s places into its segment.                                        *)
LEMMA PositionIs ==
  ASSUME NEW i \in Nat, NEW row, NEW s \in 1..i
  PROVE  PositionInSegment(row, i) >= s <=> \A k \in i-s..i-1 : row[k] # Eos
<1> DEFINE eos == {k \in 0..i-1 : row[k] = Eos} \cup {-1}
           Least(m) == m \in eos /\ \A k \in eos : k <= m
           m == CHOOSE k \in eos : \A l \in eos : l <= k
           D == {n \in 0..i : \E k \in eos : k < n /\ \A l \in eos : l < n => l <= k}
<1>1. 0 \in D
  <2>1. -1 \in eos /\ -1 < 0 /\ \A l \in eos : l < 0 => l <= -1
    OBVIOUS
  <2> QED BY <2>1
<1>2. ASSUME NEW n \in 1..i, n - 1 \in D PROVE n \in D
  <2>1. PICK k \in eos : k < n - 1 /\ \A l \in eos : l < n - 1 => l <= k
    BY <1>2
  <2>2. \A l \in eos : l \in Int
    OBVIOUS
  <2> HIDE DEF eos
  <2>3. CASE n - 1 \in eos
    <3>1. n - 1 < n /\ \A l \in eos : l < n => l <= n - 1
      BY <2>2
    <3> QED BY <2>3, <3>1
  <2>4. CASE n - 1 \notin eos
    <3>1. ASSUME NEW l \in eos, l < n PROVE l <= k
      <4>1. l # n - 1 /\ l \in Int
        BY <2>2, <2>4
      <4>2. l < n - 1
        BY <3>1, <4>1
      <4> QED BY <2>1, <4>2
    <3>2. k < n
      BY <2>1, <2>2
    <3> QED BY <3>1, <3>2
  <2> QED BY <2>3, <2>4
<1>3. i \in D
  <2>1. \A n \in 0..i : n \in D
    <3> HIDE DEF D
    <3> QED BY <1>1, <1>2, IntervalInduction
  <2>2. i \in 0..i
    OBVIOUS
  <2> QED BY <2>1, <2>2
<1>4. \E k \in eos : \A l \in eos : l <= k
  <2>1. \A l \in eos : l < i
    OBVIOUS
  <2> HIDE DEF eos
  <2> QED BY <1>3, <2>1
<1>5. m \in eos /\ \A l \in eos : l <= m
  <2> HIDE DEF eos
  <2> QED BY <1>4
<1>6. PositionInSegment(row, i) = i - m - 1
  BY DEF PositionInSegment
<1> HIDE DEF m
<1>7. m \in -1..i-1 /\ (m >= 0 => row[m] = Eos)
  BY <1>5
<1>8. i - m - 1 >= s <=> m < i - s
  BY <1>7
<1>9. ASSUME m < i - s, NEW k \in i-s..i-1 PROVE row[k] # Eos
  <2>1. k \in 0..i-1 /\ ~(k <= m)
    BY <1>7, <1>9
  <2> QED BY <1>5, <2>1
<1>10. ASSUME ~(m < i - s) PROVE \E k \in i-s..i-1 : row[k] = Eos
  <2>1. m \in i-s..i-1 /\ m >= 0
    BY <1>7, <1>10
  <2> QED BY <1>7, <2>1
<1> QED BY <1>6, <1>8, <1>9, <1>10

LEMMA ColumnIs ==
  ASSUME NgramAssumption, StartsType, input \in Seq(Tokens), NEW t \in 0..Len(input)-1
  PROVE  Column(t) = t - qsl[RequestOf(t)] /\ Column(t) \in 0..Len(input)-1 /\ qsl[RequestOf(t)] \in Nat
         /\ RequestOf(t) \in 0..rows-1 /\ RequestOf(t) \in 0..MaxReqs-1
<1> DEFINE low == qsl[RequestOf(t)]
           n == Len(input)
<1>1. n \in Nat /\ t \in Nat /\ t <= n - 1
  OBVIOUS
<1>2. RequestOf(t) \in 0..rows-1 /\ low <= t /\ rows \in Nat /\ rows \in 1..MaxReqs /\ MaxReqs \in Nat
  <2>1. rows \in Nat /\ rows \in 1..MaxReqs /\ MaxReqs \in Nat
    BY DEF StartsType, NgramAssumption
  <2>2. RequestOf(t) \in 0..rows-1 /\ low <= t
    BY <1>1, RequestIs
  <2> QED BY <2>1, <2>2
<1>3. low \in Nat
  <2>1. RequestOf(t) \in 0..rows
    BY <1>2
  <2> QED BY <2>1 DEF StartsType
<1>4. Column(t) = IF t - low < 0 THEN 0 ELSE IF t - low > n - 1 THEN n - 1 ELSE t - low
  BY <1>1, PackedRequestIs DEF Column, NumTokens
<1>5. RequestOf(t) \in 0..MaxReqs-1
  BY <1>2
<1> HIDE DEF low, n
<1>6. Column(t) = t - low /\ Column(t) \in 0..n-1
  BY <1>1, <1>2, <1>3, <1>4
<1> QED BY <1>2, <1>3, <1>5, <1>6 DEF low, n

(* The row of a token's request, up to the token itself                    *)
LEMMA RowIs ==
  ASSUME NgramAssumption, StartsType, input \in Seq(Tokens), NEW t \in 0..Len(input)-1,
         NEW k \in 0..CtxLen + Column(t)
  PROVE  ContextAndPacked(RequestOf(t))[k] =
           IF k < CtxLen THEN ctx[RequestOf(t)][k] ELSE input[qsl[RequestOf(t)] + (k - CtxLen) + 1]
<1> DEFINE R == RequestOf(t)
           low == qsl[R]
           n == Len(input)
           ts == {u \in 0..n-1 : PackedRequest(u) = R /\ Column(u) = k - CtxLen}
           v == low + (k - CtxLen)
<1>1. /\ Column(t) = t - low /\ Column(t) \in 0..n-1 /\ low \in Nat
      /\ R \in 0..rows-1 /\ R \in 0..MaxReqs-1 /\ CtxLen \in Nat /\ n \in Nat
  BY ColumnIs DEF NgramAssumption, CtxLen
<1>2. t \in Nat /\ t <= n - 1
  BY <1>1
<1>3. k \in 0..CtxLen + n - 1
  BY <1>1
<1>4. ContextAndPacked(R)[k] =
        IF k < CtxLen THEN ctx[R][k]
        ELSE IF ts = {} THEN Eos ELSE input[(CHOOSE u \in ts : TRUE) + 1]
  BY <1>3 DEF ContextAndPacked, NumTokens
<1>5. CASE k < CtxLen
  BY <1>4, <1>5
<1>6. CASE ~(k < CtxLen)
  <2>1. v \in Nat /\ low <= v /\ v <= t /\ v \in 0..n-1 /\ v - low = k - CtxLen
    BY <1>1, <1>2, <1>6, SMTT(60)
  <2>2. RequestOf(v) = R
    <3> DEFINE m == qsl[rows]
    <3>1. /\ t < m => t < qsl[R+1]
          /\ m <= t => R = rows - 1
          /\ R \in 0..rows-1
      BY <1>1, <1>2, RequestIs
    <3>2. /\ m <= v => RequestOf(v) = rows - 1
          /\ \A i \in 0..rows-1 : qsl[i] <= v /\ v < qsl[i+1] => RequestOf(v) = i
      BY <2>1, RequestIs
    <3>3. m \in Nat /\ qsl[R+1] \in Nat /\ rows \in Nat
      <4>1. rows \in 1..MaxReqs /\ MaxReqs \in Nat
        BY DEF StartsType, NgramAssumption
      <4>2. rows \in 0..rows /\ R + 1 \in 0..rows
        BY <1>1, <4>1, SMTT(60)
      <4> QED BY <4>1, <4>2 DEF StartsType
    <3>4. R = rows - 1 => qsl[R+1] = m
      BY <3>3
    <3> HIDE DEF m, v, R
    <3>5. CASE t < m
      <4>1. v < qsl[R+1]
        BY <1>2, <2>1, <3>1, <3>3, <3>5
      <4> QED BY <2>1, <3>1, <3>2, <4>1
    <3>6. CASE ~(t < m)
      <4>1. m <= t
        BY <1>2, <3>3, <3>6
      <4>2. R = rows - 1
        BY <3>1, <4>1
      <4>3. CASE m <= v
        BY <3>2, <4>2, <4>3
      <4>4. CASE ~(m <= v)
        <5>1. v < qsl[R+1]
          BY <2>1, <3>3, <3>4, <4>2, <4>4
        <5> QED BY <2>1, <3>1, <3>2, <5>1
      <4> QED BY <4>3, <4>4
    <3> QED BY <3>5, <3>6
  <2>3. v \in ts
    <3>1. Column(v) = v - low /\ PackedRequest(v) = R
      BY <2>1, <2>2, ColumnIs, PackedRequestIs
    <3> QED BY <2>1, <3>1
  <2>4. ASSUME NEW u \in ts PROVE u = v
    <3>1. u \in 0..n-1 /\ PackedRequest(u) = R /\ Column(u) = k - CtxLen
      OBVIOUS
    <3>2. u \in Nat
      BY <3>1
    <3>3. RequestOf(u) = R
      BY <3>1, <3>2, PackedRequestIs
    <3>4. Column(u) = u - qsl[RequestOf(u)]
      BY <3>1, ColumnIs
    <3>5. u - low = k - CtxLen
      BY <3>1, <3>3, <3>4
    <3> HIDE DEF ts, low
    <3> QED BY <1>1, <3>2, <3>5
  <2> HIDE DEF ts, v
  <2>5. ts # {} /\ (CHOOSE u \in ts : TRUE) = v
    BY <2>3, <2>4
  <2>6. ContextAndPacked(R)[k] = input[v + 1]
    BY <1>4, <1>6, <2>5
  <2> QED BY <1>6, <2>6 DEF v
<1> QED BY <1>5, <1>6

LEMMA PathsAgreeAt ==
  ASSUME NgramAssumption, StartsType, input \in Seq(Tokens), NEW t \in 0..Len(input)-1
  PROVE  KernelGram(t) = PackedGram(t)
<1> DEFINE R == RequestOf(t)
           low == qsl[R]
           pos == Column(t)
           row == ContextAndPacked(R)
           i == pos + CtxLen
<1>1. pos = t - low /\ pos \in Nat /\ low \in Nat /\ CtxLen \in Nat /\ Shifts = 0..CtxLen
  BY ColumnIs DEF NgramAssumption, CtxLen, Shifts
<1>2. t \in Nat
  OBVIOUS
<1>3. \A k \in 0..CtxLen + pos : row[k] = IF k < CtxLen THEN ctx[R][k] ELSE input[low + (k - CtxLen) + 1]
  BY RowIs
<1>4. PackedGram(t) = [s \in Shifts |-> Shifted(row, i, s)]
  BY <1>2, PackedRequestIs DEF PackedGram
<1>5. KernelGram(t) = [s \in Shifts |->
         IF s = 0 THEN input[t+1]
         ELSE IF \A k \in 1..s-1 : Predecessor(t, k) # Eos THEN Predecessor(t, s) ELSE Eos]
  BY KernelGramIs
<1>6. \A s \in 1..CtxLen : Predecessor(t, s) = IF t - low >= s THEN input[t - s + 1] ELSE ctx[R][CtxLen - s + (t - low)]
  BY DEF Predecessor
<1> HIDE DEF R, low, pos, row
<1>7. i \in Nat /\ row[i] = input[t+1]
  <2>1. i \in 0..CtxLen + pos /\ ~(i < CtxLen) /\ low + (i - CtxLen) + 1 = t + 1
    BY <1>1, <1>2
  <2>2. row[i] = input[low + (i - CtxLen) + 1]
    <3> HIDE DEF i
    <3> QED BY <1>3, <2>1
  <2> QED BY <1>1, <2>1, <2>2
<1>8. ASSUME NEW s \in 1..CtxLen PROVE Predecessor(t, s) = row[i - s]
  <2>1. i - s \in 0..CtxLen + pos
    BY <1>1
  <2>2. row[i - s] = IF i - s < CtxLen THEN ctx[R][i - s] ELSE input[low + (i - s - CtxLen) + 1]
    <3> DEFINE k == i - s
    <3> HIDE DEF k
    <3>1. row[k] = IF k < CtxLen THEN ctx[R][k] ELSE input[low + (k - CtxLen) + 1]
      BY <1>3, <2>1 DEF k
    <3> QED BY <3>1 DEF k
  <2>3. CASE t - low >= s
    <3>1. ~(i - s < CtxLen) /\ low + (i - s - CtxLen) + 1 = t - s + 1
      BY <1>1, <1>2, <2>3
    <3> QED BY <1>6, <2>2, <2>3, <3>1
  <2>4. CASE ~(t - low >= s)
    <3>1. i - s < CtxLen /\ CtxLen - s + (t - low) = i - s
      BY <1>1, <1>2, <2>4
    <3> QED BY <1>6, <2>2, <2>4, <3>1
  <2> QED BY <2>3, <2>4
<1>9. CtxLen <= i
  BY <1>1
<1> HIDE DEF i
<1>10. ASSUME NEW s \in Shifts
       PROVE (IF s = 0 THEN input[t+1]
              ELSE IF \A k \in 1..s-1 : Predecessor(t, k) # Eos THEN Predecessor(t, s) ELSE Eos)
           = Shifted(row, i, s)
  <2>1. CASE s = 0
    BY <1>7, <2>1 DEF Shifted
  <2>2. CASE s # 0
    <3>1. s \in 1..CtxLen /\ s \in 1..i /\ i - s >= 0
      BY <1>1, <1>7, <1>9, <2>2
    <3>2. Shifted(row, i, s) = IF \A k \in i-s..i-1 : row[k] # Eos THEN row[i - s] ELSE Eos
      <4>1. PositionInSegment(row, i) >= s <=> \A k \in i-s..i-1 : row[k] # Eos
        BY <1>7, <3>1, PositionIs
      <4> QED BY <2>2, <3>1, <4>1 DEF Shifted
    <3>3. Predecessor(t, s) = row[i - s] /\ \A k \in 1..s-1 : Predecessor(t, k) = row[i - k]
      <4>1. \A k \in 1..s-1 : k \in 1..CtxLen
        BY <1>1, <3>1
      <4> QED BY <1>8, <3>1, <4>1
    <3>4. ASSUME \A k \in i-s..i-1 : row[k] # Eos
          PROVE \A k \in 1..s-1 : row[i - k] # Eos
      <4>1. \A k \in 1..s-1 : i - k \in i-s..i-1
        BY <1>7, <3>1
      <4> QED BY <3>4, <4>1
    <3>5. ASSUME \A k \in 1..s-1 : row[i - k] # Eos, row[i - s] # Eos, NEW k \in i-s..i-1
          PROVE row[k] # Eos
      <4>1. i - k \in 1..s /\ i - (i - k) = k
        BY <1>7, <3>1
      <4>2. CASE i - k = s
        <5>1. k = i - s
          BY <1>7, <3>1, <4>2
        <5> QED BY <3>5, <5>1
      <4>3. CASE i - k # s
        <5>1. i - k \in 1..s-1
          BY <1>7, <3>1, <4>1, <4>3
        <5>2. row[i - (i - k)] # Eos
          BY <3>5, <5>1
        <5> QED BY <4>1, <5>2
      <4> QED BY <4>2, <4>3
    <3>6. (\A k \in 1..s-1 : Predecessor(t, k) # Eos) <=> \A k \in 1..s-1 : row[i - k] # Eos
      BY <3>3
    <3> QED BY <2>2, <3>2, <3>3, <3>4, <3>5, <3>6
  <2> QED BY <2>1, <2>2
<1> QED BY <1>4, <1>5, <1>10

-----------------------------------------------------------------------------
(* Sampling                                                                *)

(* What a chunk of c adds to its request: the first a drafts, then w       *)
NewOf(c, a, w) == IF ReachesEnd(c) THEN SubSeq(c.drafts, 1, a) \o <<w>> ELSE << >>

(* The request afterwards still has a token to compute, has room, and up   *)
(* to what counts as computed it reads what the chunk read.                *)
LEMMA NewTokensAre ==
  ASSUME NgramAssumption, RequestsInv, NEW c, Scheduled(c), NEW a \in 0..Len(c.drafts), NEW w \in Tokens
  PROVE  /\ NewOf(c, a, w) \in Seq(Tokens) /\ Len(NewOf(c, a, w)) \in Nat
         /\ len[c.req] + Len(NewOf(c, a, w)) <= MaxLen
         /\ c.q \in Nat \ {0} /\ a \in Nat /\ computed[c.req] \in Nat /\ len[c.req] \in Nat
         /\ computed[c.req] + (c.q + a) < len[c.req] + Len(NewOf(c, a, w))
         /\ \A x \in 0..computed[c.req] + (c.q + a) - 1 :
              Full(c, x) = IF x \in len[c.req]..len[c.req] + Len(NewOf(c, a, w)) - 1
                           THEN NewOf(c, a, w)[x - len[c.req] + 1] ELSE all[c.req][x]
<1> DEFINE r == c.req
           own == computed[r]
           l == len[r]
           d == c.drafts
           q == c.q
           m == Len(d)
           N == NewOf(c, a, w)
           n == Len(N)
<1>1. /\ own \in Nat /\ l \in Nat /\ q \in Nat \ {0} /\ own + q <= l /\ d \in Seq(Tokens)
      /\ (d # << >> => own = l - 1) /\ l <= MaxLen /\ MaxLen \in Nat
  BY SMTT(60) DEF RequestsInv, Scheduled, NgramAssumption
<1>2. m \in Nat /\ (m > 0 => own = l - 1) /\ a \in 0..m /\ a \in Nat
  BY <1>1
<1>3. own + q = l => l + m + 1 <= MaxLen
  BY DEF Scheduled, Fits
<1>4. ReachesEnd(c) <=> own + q = l
  BY DEF ReachesEnd
<1>5. N = IF own + q = l THEN SubSeq(d, 1, a) \o <<w>> ELSE << >>
  BY <1>4 DEF NewOf
<1>6. \A x : Full(c, x) = IF x < l THEN all[r][x] ELSE d[x - l + 1]
  BY DEF Full
<1> HIDE DEF r, own, l, d, q, m, N
<1>7. CASE own + q = l
  <2> DEFINE head == SubSeq(d, 1, a)
             one == <<w>>
  <2>1. head \in Seq(Tokens) /\ Len(head) = a /\ \A x \in 1..a : head[x] = d[x]
    <3>1. d \in Seq(Tokens) /\ 1 \in 1..Len(d) + 1 /\ a \in 0..Len(d)
      BY <1>1, <1>2 DEF m
    <3>2. head \in Seq(Tokens) /\ Len(head) = (IF 1 <= a THEN a - 1 + 1 ELSE 0)
          /\ \A x \in 1..a - 1 + 1 : head[x] = d[1 + x - 1]
      BY <3>1, SubSeqProperties
    <3>3. \A x \in 1..a : x \in 1..a - 1 + 1 /\ 1 + x - 1 = x
      BY <1>2
    <3> QED BY <1>2, <3>2, <3>3
  <2>2. one \in Seq(Tokens) /\ Len(one) = 1
    OBVIOUS
  <2> HIDE DEF head, one
  <2>3. /\ head \o one \in Seq(Tokens) /\ Len(head \o one) = Len(head) + Len(one)
        /\ \A x \in 1..Len(head) + Len(one) : (head \o one)[x] = IF x <= Len(head) THEN head[x] ELSE one[x - Len(head)]
    BY <2>1, <2>2, ConcatProperties
  <2>4. N = head \o one
    BY <1>5, <1>7 DEF head, one
  <2>5. n = a + 1
    BY <2>1, <2>2, <2>3, <2>4
  <2>6. ASSUME NEW x \in 1..a PROVE N[x] = d[x]
    <3>1. x \in 1..a + 1 /\ x <= a
      BY <1>2
    <3>2. (head \o one)[x] = head[x]
      BY <2>1, <2>2, <2>3, <3>1
    <3> QED BY <2>1, <2>4, <3>2
  <2> HIDE DEF n
  <2>7. l + n <= MaxLen /\ own + (q + a) < l + n
    BY <1>1, <1>2, <1>3, <1>7, <2>5
  <2>8. ASSUME NEW x \in 0..own + (q + a) - 1
        PROVE  Full(c, x) = IF x \in l..l + n - 1 THEN N[x - l + 1] ELSE all[r][x]
    <3>1. CASE x < l
      BY <1>1, <1>6, <3>1
    <3>2. CASE ~(x < l)
      <4>1. x - l + 1 \in 1..a /\ x \in l..l + n - 1
        BY <1>1, <1>2, <1>7, <2>5, <3>2
      <4>2. N[x - l + 1] = d[x - l + 1]
        BY <2>6, <4>1
      <4> QED BY <1>6, <3>2, <4>1, <4>2
    <3> QED BY <3>1, <3>2
  <2>9. N \in Seq(Tokens) /\ n \in Nat
    BY <1>2, <2>3, <2>4, <2>5
  <2> QED BY <1>1, <1>2, <2>7, <2>8, <2>9 DEF r, own, l, q, N, n
<1>8. CASE own + q # l
  <2>1. N = << >> /\ n = 0
    BY <1>5, <1>8
  <2>2. a = 0
    BY <1>1, <1>2, <1>8
  <2> HIDE DEF n
  <2>3. l + n <= MaxLen /\ own + (q + a) < l + n
    BY <1>1, <1>8, <2>1, <2>2
  <2>4. ASSUME NEW x \in 0..own + (q + a) - 1
        PROVE  Full(c, x) = IF x \in l..l + n - 1 THEN N[x - l + 1] ELSE all[r][x]
    <3>1. x < l /\ x \notin l..l + n - 1
      BY <1>1, <2>1, <2>2
    <3> QED BY <1>6, <3>1
  <2>5. N \in Seq(Tokens) /\ n \in Nat
    BY <2>1
  <2> QED BY <1>1, <1>2, <2>3, <2>4, <2>5 DEF r, own, l, q, N, n
<1> QED BY <1>7, <1>8

-----------------------------------------------------------------------------
(* The n-gram of position p of a history                                   *)
GramIn(h, p) ==
  [s \in Shifts |->
     IF s <= p /\ (\A k \in p-s..p-1 : h[k] # Eos) THEN h[p-s] ELSE Eos]

LEMMA SameGrams ==
  ASSUME NgramAssumption, NEW h, NEW g, NEW p \in Int, \A x \in 0..p : h[x] = g[x]
  PROVE  GramIn(h, p) = GramIn(g, p)
<1>1. Shifts = 0..CtxLen /\ CtxLen \in Nat
  BY DEF NgramAssumption, CtxLen, Shifts
<1>2. ASSUME NEW s \in Shifts, s <= p
      PROVE  h[p-s] = g[p-s] /\ \A k \in p-s..p-1 : h[k] = g[k]
  BY <1>1, <1>2
<1> QED BY <1>2 DEF GramIn

LEMMA SameAsFull ==
  ASSUME NgramAssumption, NEW h, NEW c, NEW p \in Int, \A x \in 0..p : Full(c, x) = h[x]
  PROVE  FullGram(c, p) = GramIn(h, p)
<1>1. Shifts = 0..CtxLen /\ CtxLen \in Nat
  BY DEF NgramAssumption, CtxLen, Shifts
<1>2. ASSUME NEW s \in Shifts, s <= p
      PROVE  h[p-s] = Full(c, p-s) /\ \A k \in p-s..p-1 : h[k] = Full(c, k)
  BY <1>1, <1>2
<1> QED BY <1>2 DEF GramIn, FullGram

(* The walk of the kernel over the buffers it is given                     *)
PredecessorIn(in, starts, n, tails, t, s) ==
  LET req == FindRequest(starts, n, BitLength(n), t)
      pos == t - starts[req]
  IN  IF pos >= s THEN in[t - s + 1] ELSE tails[req][CtxLen - s + pos]

WalkOver(in, starts, n, tails, t) ==
  [s \in Shifts |->
     IF s = 0 THEN in[t+1]
     ELSE IF \A k \in 1..s-1 : PredecessorIn(in, starts, n, tails, t, k) # Eos
          THEN PredecessorIn(in, starts, n, tails, t, s) ELSE Eos]

LEMMA KernelWalks ==
  ASSUME NgramAssumption, NEW t
  PROVE  KernelGram(t) = WalkOver(input, qsl, rows, ctx, t)
<1>1. \A s : Predecessor(t, s) = PredecessorIn(input, qsl, rows, ctx, t, s)
  BY DEF Predecessor, PredecessorIn, RequestOf
<1> QED BY <1>1, KernelGramIs DEF WalkOver

-----------------------------------------------------------------------------
(* The inductive invariant: while a batch runs its buffers are those of    *)
(* its chunks, and what is kept is of the histories.                       *)
BuffersType ==
  /\ rows \in 0..MaxReqs
  /\ input \in Seq(Tokens)
  /\ qsl \in [0..MaxReqs -> Nat]
  /\ ctx \in [0..MaxReqs-1 -> [0..CtxLen-1 -> Tokens]]

GramsType == out \in Seq(Gram) /\ kept \in [Reqs -> Seq(Gram)]

KernelHeld ==
  out # << >> =>
    /\ batch # << >> /\ Len(out) = Len(input)
    /\ \A t \in 1..Len(input) : out[t] = WalkOver(input, qsl, rows, ctx, t - 1)

KeptHeld ==
  \A r \in live : \A k \in 1..Len(kept[r]) :
    kept[r][k] = GramIn(all[r], computed[r] - Len(kept[r]) + k - 1)

IInv ==
  /\ RequestsInv /\ BuffersType /\ GramsType
  /\ batch # << >> => BatchHeld
  /\ KernelHeld /\ KeptHeld

LEMMA InitHolds == ASSUME NgramAssumption PROVE Init => IInv
<1> SUFFICES ASSUME Init PROVE IInv
  OBVIOUS
<1>1. MaxReqs \in Nat /\ MaxLen \in Nat \ {0} /\ Eos \in Tokens /\ CtxLen \in Nat
  BY DEF NgramAssumption, CtxLen
<1>2. RequestsInv
  BY <1>1 DEF Init, RequestsInv
<1>3. BuffersType
  <2>1. EosRow \in [0..CtxLen-1 -> Tokens]
    BY <1>1 DEF EosRow
  <2>2. input \in Seq(Tokens)
    BY DEF Init, NoInput
  <2> QED BY <1>1, <2>1, <2>2 DEF Init, BuffersType
<1>4. GramsType
  BY DEF Init, GramsType
<1>5. batch = << >> /\ out = << >> /\ live = {}
  BY DEF Init
<1> QED BY <1>2, <1>3, <1>4, <1>5 DEF IInv, KernelHeld, KeptHeld

LEMMA AdmitKeeps ==
  ASSUME NgramAssumption, IInv, NEW r \in Reqs, NEW prompt \in UpTo(Tokens, MaxPrompt),
         NEW cached \in 0..MaxPrompt-1, Admit(r, prompt, cached)
  PROVE  IInv'
<1>1. MaxReqs \in Nat /\ MaxLen \in Nat \ {0} /\ MaxPrompt \in 1..MaxLen /\ Reqs = 1..MaxReqs
  BY DEF NgramAssumption, Reqs
<1>2. prompt \in Seq(Tokens) /\ Len(prompt) \in 0..MaxLen /\ Len(prompt) \in Nat /\ DOMAIN prompt = 1..Len(prompt)
  <2>1. PICK n \in 0..MaxPrompt : prompt \in [1..n -> Tokens]
    BY DEF UpTo
  <2>2. n \in Nat /\ n \in 0..MaxLen
    BY <1>1
  <2> QED BY <2>1, <2>2
<1>3. /\ batch = << >> /\ batch' = << >> /\ out' = out /\ cached < Len(prompt)
      /\ live' = live \cup {r}
      /\ all' = [all EXCEPT ![r] = [p \in 0..MaxLen-1 |-> IF p < Len(prompt) THEN prompt[p+1] ELSE @[p]]]
      /\ len' = [len EXCEPT ![r] = Len(prompt)]
      /\ computed' = [computed EXCEPT ![r] = cached]
      /\ kept' = [kept EXCEPT ![r] = << >>]
      /\ rows' = rows /\ input' = input /\ qsl' = qsl /\ ctx' = ctx
  BY DEF Admit, buffers
<1>4. /\ live \subseteq Reqs /\ all \in [Reqs -> [0..MaxLen-1 -> Tokens]] /\ len \in [Reqs -> 0..MaxLen]
      /\ computed \in [Reqs -> 0..MaxLen] /\ \A q \in live : computed[q] < len[q]
  BY DEF IInv, RequestsInv
<1>5. RequestsInv'
  <2>1. all' \in [Reqs -> [0..MaxLen-1 -> Tokens]]
    <3> DEFINE h == [p \in 0..MaxLen-1 |-> IF p < Len(prompt) THEN prompt[p+1] ELSE all[r][p]]
    <3>1. ASSUME NEW p \in 0..MaxLen-1, p < Len(prompt) PROVE prompt[p+1] \in Tokens
      <4>1. p + 1 \in 1..Len(prompt)
        BY <1>1, <1>2, <3>1
      <4> QED BY <1>2, <4>1
    <3>2. h \in [0..MaxLen-1 -> Tokens]
      BY <1>4, <3>1
    <3>3. all' = [all EXCEPT ![r] = h]
      BY <1>3
    <3> HIDE DEF h
    <3> QED BY <1>4, <3>2, <3>3
  <2>2. cached \in 0..MaxLen
    BY <1>1
  <2>3. len' \in [Reqs -> 0..MaxLen] /\ computed' \in [Reqs -> 0..MaxLen] /\ live' \subseteq Reqs
    BY <1>2, <1>3, <1>4, <2>2
  <2>4. \A q \in live' : computed'[q] < len'[q]
    BY <1>3, <1>4
  <2> QED BY <2>1, <2>3, <2>4 DEF RequestsInv
<1>6. BuffersType'
  BY <1>3 DEF IInv, BuffersType
<1>7. GramsType'
  <2>1. << >> \in Seq(Gram)
    OBVIOUS
  <2> QED BY <1>3, <2>1 DEF IInv, GramsType
<1>8. KernelHeld'
  BY <1>3 DEF IInv, KernelHeld
<1>9. KeptHeld'
  <2>1. ASSUME NEW q \in live', NEW k \in 1..Len(kept'[q]) PROVE q \in live /\ q # r
    <3>1. kept \in [Reqs -> Seq(Gram)]
      BY DEF IInv, GramsType
    <3>2. q = r => kept'[q] = << >>
      BY <1>3, <3>1
    <3> QED BY <1>3, <2>1, <3>2
  <2>2. kept \in [Reqs -> Seq(Gram)]
    BY DEF IInv, GramsType
  <2>3. ASSUME NEW q \in live, q # r PROVE kept'[q] = kept[q] /\ all'[q] = all[q] /\ computed'[q] = computed[q]
    BY <1>3, <1>4, <2>2, <2>3
  <2> QED BY <2>1, <2>3 DEF IInv, KeptHeld
<1> QED BY <1>3, <1>5, <1>6, <1>7, <1>8, <1>9 DEF IInv

LEMMA ReleaseKeeps ==
  ASSUME NgramAssumption, IInv, NEW r \in Reqs, Release(r)
  PROVE  IInv'
<1>1. /\ batch = << >> /\ batch' = << >> /\ out' = out /\ live' = live \ {r}
      /\ kept' = [kept EXCEPT ![r] = << >>]
      /\ all' = all /\ len' = len /\ computed' = computed
      /\ rows' = rows /\ input' = input /\ qsl' = qsl /\ ctx' = ctx
  BY DEF Release, buffers
<1>2. RequestsInv' /\ BuffersType'
  BY <1>1 DEF IInv, RequestsInv, BuffersType
<1>3. kept \in [Reqs -> Seq(Gram)]
  BY DEF IInv, GramsType
<1>4. GramsType'
  <2>1. << >> \in Seq(Gram)
    OBVIOUS
  <2> QED BY <1>1, <2>1 DEF IInv, GramsType
<1>5. KernelHeld'
  BY <1>1 DEF IInv, KernelHeld
<1>6. KeptHeld'
  <2>1. ASSUME NEW q \in live' PROVE q \in live /\ kept'[q] = kept[q]
    BY <1>1, <1>3 DEF IInv, RequestsInv
  <2> QED BY <1>1, <2>1 DEF IInv, KeptHeld
<1> QED BY <1>1, <1>2, <1>4, <1>5, <1>6 DEF IInv

LEMMA PrepareDummyKeeps ==
  ASSUME NgramAssumption, IInv, NEW n \in Reqs, NEW m \in 1..MaxLen, PrepareDummy(n, m)
  PROVE  IInv'
<1> DEFINE first == n - (m % n)
           more(i) == IF i > first THEN i - first ELSE 0
<1>1. /\ batch = << >> /\ batch' = << >> /\ out' = out /\ live' = live /\ kept' = kept
      /\ all' = all /\ len' = len /\ computed' = computed /\ rows' = rows /\ input' = input
      /\ qsl' = [i \in 0..MaxReqs |-> IF i <= n THEN i * (m \div n) + more(i) ELSE qsl[i]]
      /\ ctx' = [i \in 0..MaxReqs-1 |-> IF i < n THEN EosRow ELSE ctx[i]]
  BY DEF PrepareDummy, requests
<1>2. MaxReqs \in Nat /\ MaxLen \in Nat /\ n \in Nat \ {0} /\ m \in Nat /\ Eos \in Tokens /\ CtxLen \in Nat
  BY DEF NgramAssumption, Reqs, CtxLen
<1>3. qsl \in [0..MaxReqs -> Nat] /\ ctx \in [0..MaxReqs-1 -> [0..CtxLen-1 -> Tokens]]
      /\ rows \in 0..MaxReqs /\ input \in Seq(Tokens)
  BY DEF IInv, BuffersType
<1>4. qsl' \in [0..MaxReqs -> Nat]
  <2> DEFINE each == m \div n
  <2>1. each \in Nat /\ first \in Int
    BY <1>2
  <2> HIDE DEF each, first
  <2>2. \A i \in 0..MaxReqs : i * each \in Nat /\ more(i) \in Nat
    BY <2>1
  <2>3. \A i \in 0..MaxReqs : i * each + more(i) \in Nat
    <3> HIDE DEF more
    <3>1. \A x, y \in Nat : x + y \in Nat
      OBVIOUS
    <3> QED BY <2>2, <3>1
  <2> HIDE DEF more
  <2> QED BY <1>1, <1>3, <2>3 DEF each
<1>5. ctx' \in [0..MaxReqs-1 -> [0..CtxLen-1 -> Tokens]]
  BY <1>1, <1>2, <1>3 DEF EosRow
<1>6. BuffersType'
  BY <1>1, <1>3, <1>4, <1>5 DEF BuffersType
<1>7. RequestsInv' /\ GramsType' /\ KeptHeld'
  BY <1>1 DEF IInv, RequestsInv, GramsType, KeptHeld
<1>8. KernelHeld'
  BY <1>1 DEF IInv, KernelHeld
<1> QED BY <1>1, <1>6, <1>7, <1>8 DEF IInv

LEMMA ContextIsTyped ==
  ASSUME NgramAssumption, RequestsInv, NEW r \in Reqs
  PROVE  ContextOf(r) \in [0..CtxLen-1 -> Tokens]
<1>1. /\ computed[r] \in 0..MaxLen /\ all[r] \in [0..MaxLen-1 -> Tokens] /\ Eos \in Tokens
      /\ MaxLen \in Nat /\ CtxLen \in Nat
  BY DEF RequestsInv, NgramAssumption, CtxLen
<1>2. \A k \in 0..CtxLen-1 : computed[r] + k - CtxLen >= 0 => computed[r] + k - CtxLen \in 0..MaxLen-1
  BY <1>1
<1>3. \A k \in 0..CtxLen-1 : computed[r] + k - CtxLen >= 0 => all[r][computed[r] + k - CtxLen] \in Tokens
  BY <1>1, <1>2
<1> QED BY <1>1, <1>3 DEF ContextOf

LEMMA PrepareKeeps ==
  ASSUME NgramAssumption, IInv, NEW b \in Batches, NEW tail \in UpTo(Tokens, MaxPad),
         NEW padded \in Len(b)..MaxReqs, Prepare(b, padded, tail)
  PROVE  IInv'
<1> DEFINE Q == QueryStart(b)
           n == Len(b)
           flat == Flatten(b)
<1>1. /\ batch = << >> /\ batch' = b /\ out' = << >> /\ live' = live /\ kept' = kept
      /\ all' = all /\ len' = len /\ computed' = computed /\ rows' = padded
      /\ input' = flat \o tail
      /\ qsl' = [i \in 0..MaxReqs |-> IF i <= padded THEN Q[i] ELSE qsl[i]]
      /\ ctx' = [i \in 0..MaxReqs-1 |->
                   CASE i < n -> ContextOf(b[i+1].req) [] i \in n..padded-1 -> EosRow [] OTHER -> ctx[i]]
  BY DEF Prepare, PrepareContext, requests
<1>2. RequestsInv /\ BuffersType /\ GramsType /\ KeptHeld
  BY DEF IInv
<1>3. MaxReqs \in Nat /\ Eos \in Tokens /\ CtxLen \in Nat
  BY DEF NgramAssumption, CtxLen
<1>4. ScheduledBatch(b)
  <2>1. n \in Nat
    <3>1. PICK k \in 1..Cardinality(live) : b \in [1..k -> UNION {Chunks(r) : r \in live}]
      BY DEF Batches
    <3> QED BY <3>1
  <2>2. n <= MaxReqs
    BY <1>3, <2>1
  <2> QED BY <1>2, <2>2, BatchIsScheduled
<1>5. n \in 1..MaxReqs /\ \A i \in 1..n : Scheduled(b[i]) /\ b[i].req \in Reqs
  <2>1. n \in 1..MaxReqs /\ \A i \in 1..n : Scheduled(b[i])
    BY <1>4 DEF ScheduledBatch
  <2> QED BY <1>2, <2>1 DEF Scheduled, RequestsInv
<1>6. tail \in Seq(Tokens)
  <2>1. PICK k \in 0..MaxPad : tail \in [1..k -> Tokens]
    BY DEF UpTo
  <2>2. k \in Nat
    BY <2>1
  <2> QED BY <2>1, <2>2
<1>7. flat \in Seq(Tokens) /\ Len(flat) = Q[n] /\ \A i \in 1..n : \A j \in 1..ChunkLen(b[i]) : flat[Q[i-1] + j] = ChunkTokens(b[i])[j]
  BY <1>2, <1>4, FlattenIs
<1>8. /\ Q \in [0..MaxReqs -> Nat] /\ (\A k \in 1..n : Q[k] = Q[k-1] + ChunkLen(b[k]))
      /\ \A k, l \in 0..MaxReqs : k <= l => Q[k] <= Q[l]
  BY <1>2, <1>4, StartsOfBatch
<1>9. \A i \in 1..n : ChunkLen(b[i]) \in Nat /\ \A j \in 1..ChunkLen(b[i]) : ChunkTokens(b[i])[j] = Full(b[i], computed[b[i].req] + j - 1)
  BY <1>2, <1>5, TokensOfChunk, TokensAreFull
<1> HIDE DEF Q, n, flat
<1>10. /\ flat \o tail \in Seq(Tokens) /\ Len(flat \o tail) = Len(flat) + Len(tail)
       /\ \A j \in 1..Len(flat) + Len(tail) : (flat \o tail)[j] = IF j <= Len(flat) THEN flat[j] ELSE tail[j - Len(flat)]
  <2>1. flat \in Seq(Tokens)
    BY <1>7
  <2> QED BY <1>6, <2>1, ConcatProperties
<1>11. Len(tail) \in Nat /\ Len(flat) \in Nat
  BY <1>6, <1>7
<1>12. input' \in Seq(Tokens) /\ Q[n] <= Len(input')
  BY <1>1, <1>7, <1>10, <1>11
<1>13. ASSUME NEW i \in 1..n, NEW j \in 1..ChunkLen(b[i])
       PROVE  input'[Q[i-1] + j] = Full(b[i], computed[b[i].req] + j - 1)
  <2> DEFINE low == Q[i-1]
             m == ChunkLen(b[i])
  <2>1. i \in 0..MaxReqs /\ i - 1 \in 0..MaxReqs /\ n \in 0..MaxReqs /\ i <= n
    BY <1>3, <1>5
  <2>2. low \in Nat /\ m \in Nat /\ Q[i] = low + m /\ Q[i] <= Q[n] /\ Q[n] \in Nat
    BY <1>8, <1>9, <2>1
  <2>3. j \in 1..m
    OBVIOUS
  <2>4. flat[low + j] = ChunkTokens(b[i])[j]
    BY <1>7
  <2> HIDE DEF low, m
  <2>5. low + j \in 1..Len(flat) + Len(tail) /\ low + j <= Len(flat)
    BY <1>7, <1>11, <2>2, <2>3
  <2>6. (flat \o tail)[low + j] = flat[low + j]
    BY <1>10, <2>5
  <2>7. input'[low + j] = ChunkTokens(b[i])[j]
    BY <1>1, <2>4, <2>6
  <2> QED BY <1>9, <2>7 DEF low
<1>14. qsl' \in [0..MaxReqs -> Nat] /\ \A k \in 0..padded : qsl'[k] = Q[k]
  <2>1. qsl \in [0..MaxReqs -> Nat]
    BY <1>2 DEF BuffersType
  <2>2. padded \in Nat /\ padded <= MaxReqs
    BY <1>3, <1>5 DEF n
  <2>3. \A k \in 0..padded : k \in 0..MaxReqs /\ k <= padded
    BY <1>3, <2>2
  <2> QED BY <1>1, <1>8, <2>1, <2>3
<1>15. ctx' \in [0..MaxReqs-1 -> [0..CtxLen-1 -> Tokens]] /\ \A i \in 1..n : ctx'[i-1] = ContextOf(b[i].req)
  <2> DEFINE Row(i) == CASE i < n -> ContextOf(b[i+1].req) [] i \in n..padded-1 -> EosRow [] OTHER -> ctx[i]
  <2>1. ctx \in [0..MaxReqs-1 -> [0..CtxLen-1 -> Tokens]] /\ EosRow \in [0..CtxLen-1 -> Tokens]
    BY <1>2, <1>3 DEF BuffersType, EosRow
  <2>2. ASSUME NEW i \in 0..MaxReqs-1 PROVE Row(i) \in [0..CtxLen-1 -> Tokens]
    <3>1. CASE i < n
      <4>1. i + 1 \in 1..n
        BY <1>3, <1>5, <3>1
      <4>2. ContextOf(b[i+1].req) \in [0..CtxLen-1 -> Tokens]
        BY <1>2, <1>5, <4>1, ContextIsTyped
      <4>3. Row(i) = ContextOf(b[i+1].req)
        BY <1>5, <3>1
      <4> QED BY <4>2, <4>3
    <3>2. CASE ~(i < n) /\ i \in n..padded-1
      <4>1. Row(i) = EosRow
        BY <3>2
      <4> HIDE DEF Row
      <4> QED BY <2>1, <4>1
    <3>3. CASE ~(i < n) /\ i \notin n..padded-1
      <4>1. Row(i) = ctx[i]
        BY <3>3
      <4> HIDE DEF Row
      <4> QED BY <2>1, <4>1
    <3> QED BY <3>1, <3>2, <3>3
  <2>3. ASSUME NEW i \in 1..n PROVE Row(i - 1) = ContextOf(b[i].req)
    <3>1. i - 1 < n /\ i - 1 + 1 = i /\ ~(i - 1 \in n..padded-1)
      BY <1>5
    <3> QED BY <3>1
  <2>4. ctx' = [i \in 0..MaxReqs-1 |-> Row(i)]
    BY <1>1
  <2>5. \A i \in 1..n : i - 1 \in 0..MaxReqs-1
    BY <1>3, <1>5
  <2> HIDE DEF Row
  <2> QED BY <2>2, <2>3, <2>4, <2>5
<1>16. BuffersType'
  <2>1. padded \in 0..MaxReqs
    BY <1>3, <1>5 DEF n
  <2> QED BY <1>1, <1>12, <1>14, <1>15, <2>1 DEF BuffersType
<1>17. BatchHeld'
  <2>1. ScheduledBatch(batch)' /\ (rows \in Len(batch)..MaxReqs)'
    BY <1>1, <1>4 DEF ScheduledBatch, Scheduled, Fits
  <2>2. StartsHeld'
    BY <1>1, <1>14 DEF StartsHeld, Q
  <2>3. InputHeld'
    BY <1>1, <1>12, <1>13 DEF InputHeld, Full, Q, n
  <2>4. ContextHeld'
    <3>1. ASSUME NEW i \in 1..n, NEW k \in 0..CtxLen-1
          PROVE ctx'[i-1][k] = IF computed[b[i].req] + k - CtxLen >= 0
                               THEN all[b[i].req][computed[b[i].req] + k - CtxLen] ELSE Eos
      <4>1. ContextOf(b[i].req)[k] = IF computed[b[i].req] + k - CtxLen >= 0
                               THEN all[b[i].req][computed[b[i].req] + k - CtxLen] ELSE Eos
        BY DEF ContextOf
      <4> QED BY <1>15, <4>1
    <3>2. batch' = b /\ computed' = computed /\ all' = all /\ n = Len(b)
      BY <1>1 DEF n
    <3> QED BY <3>1, <3>2 DEF ContextHeld
  <2> QED BY <2>1, <2>2, <2>3, <2>4 DEF BatchHeld
<1>18. RequestsInv' /\ GramsType' /\ KeptHeld'
  <2>1. << >> \in Seq(Gram)
    OBVIOUS
  <2> QED BY <1>1, <1>2, <2>1 DEF RequestsInv, GramsType, KeptHeld
<1>19. KernelHeld'
  BY <1>1 DEF KernelHeld
<1> QED BY <1>16, <1>17, <1>18, <1>19 DEF IInv

LEMMA ComputeKeeps ==
  ASSUME NgramAssumption, IInv, Compute
  PROVE  IInv'
<1>1. /\ batch # << >> /\ batch' = batch /\ live' = live /\ kept' = kept
      /\ all' = all /\ len' = len /\ computed' = computed
      /\ rows' = rows /\ input' = input /\ qsl' = qsl /\ ctx' = ctx
      /\ out' = [t \in 1..Len(input) |-> KernelGram(t - 1)]
  BY DEF Compute, buffers, requests, NumTokens
<1>2. RequestsInv /\ BuffersType /\ GramsType /\ KeptHeld /\ BatchHeld /\ StartsType /\ Len(input) \in Nat
  <2>1. RequestsInv /\ BuffersType /\ GramsType /\ KeptHeld /\ BatchHeld
    BY <1>1 DEF IInv
  <2>2. StartsType
    BY <2>1, StartsAreTyped
  <2> QED BY <2>1, <2>2 DEF BuffersType
<1>3. out' \in Seq(Gram) /\ Len(out') = Len(input)
  <2>1. ASSUME NEW t \in 1..Len(input) PROVE KernelGram(t - 1) \in Gram
    <3>1. t - 1 \in 0..Len(input)-1
      BY <1>2
    <3> QED BY <1>2, <3>1, GramIsTyped DEF BuffersType
  <2> QED BY <1>1, <1>2, <2>1
<1>4. KernelHeld'
  <2>1. \A t \in 1..Len(input) : out'[t] = WalkOver(input, qsl, rows, ctx, t - 1)
    BY <1>1, KernelWalks
  <2> QED BY <1>1, <1>3, <2>1 DEF KernelHeld
<1>5. BatchHeld'
  BY <1>1, <1>2 DEF BatchHeld, ScheduledBatch, Scheduled, Fits, StartsHeld, InputHeld, ContextHeld, Full
<1>6. RequestsInv' /\ BuffersType' /\ GramsType' /\ KeptHeld'
  BY <1>1, <1>2, <1>3 DEF RequestsInv, BuffersType, GramsType, KeptHeld
<1> QED BY <1>4, <1>5, <1>6 DEF IInv

(* History h reads as chunk i does up to its first g tokens; the grams m   *)
(* are those of h that end before position p.                              *)
ReadsChunk(h, i, g) == \A x \in 0..computed[batch[i].req] + g - 1 : h[x] = Full(batch[i], x)

GramsBefore(m, h, p) ==
  m \in Seq(Gram) /\ \A k \in 1..Len(m) : m[k] = GramIn(h, p - Len(m) + k - 1)

(* The n-grams a chunk adds are those of the request's history h after it, *)
(* and those kept before still are.                                        *)
LEMMA KeptOfChunk ==
  ASSUME NgramAssumption, IInv, batch # << >>, out # << >>,
         NEW i \in 1..Len(batch), NEW r, r = batch[i].req,
         NEW a \in 0..Len(batch[i].drafts), NEW g, g = batch[i].q + a,
         NEW h, ReadsChunk(h, i, g),
         NEW more, more = kept[r] \o SubSeq(out, QueryStart(batch)[i-1] + 1, QueryStart(batch)[i-1] + g)
  PROVE  GramsBefore(more, h, computed[r] + g)
<1> DEFINE c == batch[i]
           own == computed[r]
           low == QueryStart(batch)[i-1]
           old == kept[r]
           added == SubSeq(out, low + 1, low + g)
           n == Len(out)
           m == ChunkLen(c)
<1>1. RequestsInv /\ BatchHeld /\ GramsType /\ KernelHeld /\ KeptHeld
  BY DEF IInv
<1>2. Scheduled(c) /\ r \in live /\ r \in Reqs /\ own \in Nat /\ len[r] \in Nat /\ own < len[r]
  <2>1. Scheduled(c)
    BY <1>1 DEF BatchHeld, ScheduledBatch
  <2>2. r = c.req
    OBVIOUS
  <2> HIDE DEF c
  <2> QED BY <1>1, <2>1, <2>2 DEF Scheduled, RequestsInv, NgramAssumption
<1>3. m \in Nat /\ c.q \in Nat /\ Len(c.drafts) \in Nat /\ m = c.q + Len(c.drafts)
  BY <1>1, <1>2, TokensOfChunk
<1>4. g \in Nat /\ g <= m
  <2>1. a \in 0..Len(c.drafts) /\ g = c.q + a
    OBVIOUS
  <2> HIDE DEF m, c
  <2> QED BY <1>3, <2>1, SMTT(60)
<1>5. out \in Seq(Gram) /\ old \in Seq(Gram) /\ n \in Nat /\ n = Len(input)
  BY <1>1, <1>2 DEF GramsType, KernelHeld
<1>6. ASSUME NEW j \in 1..g
      PROVE  low + j \in 1..n /\ low \in Nat /\ out[low + j] = GramIn(h, own + j - 1)
  <2>1. j \in 1..ChunkLen(batch[i])
    BY <1>3, <1>4
  <2> DEFINE t == low + j - 1
  <2>2. low \in Nat /\ low + j \in 1..Len(input) /\ t + 1 = low + j
    BY <1>1, <2>1, RequestOfToken
  <2>3. out[low + j] = WalkOver(input, qsl, rows, ctx, t)
    <3> DEFINE u == low + j
    <3>1. u \in 1..Len(input) /\ u - 1 = t
      BY <2>2
    <3> HIDE DEF low, t, u
    <3>2. out[u] = WalkOver(input, qsl, rows, ctx, u - 1)
      BY <1>1, <3>1 DEF KernelHeld
    <3> QED BY <3>1, <3>2 DEF u
  <2>4. WalkOver(input, qsl, rows, ctx, t) = KernelGram(t)
    BY KernelWalks
  <2>5. KernelGram(t) = FullGram(c, own + j - 1)
    BY <1>1, <2>1, GramOfToken
  <2>6. FullGram(c, own + j - 1) = GramIn(h, own + j - 1)
    <3>1. own + j - 1 \in Int /\ \A x \in 0..own + j - 1 : x \in 0..own + g - 1
      <4> HIDE DEF own, c
      <4> QED BY <1>2, <1>4
    <3>2. \A x \in 0..own + g - 1 : Full(c, x) = h[x]
      BY DEF ReadsChunk
    <3> HIDE DEF own, c
    <3> QED BY <3>1, <3>2, SameAsFull
  <2> QED BY <1>5, <2>2, <2>3, <2>4, <2>5, <2>6
<1>7. \A k \in 1..Len(old) : old[k] = GramIn(all[r], own - Len(old) + k - 1)
  BY <1>1, <1>2 DEF KeptHeld
<1>8. \A x \in 0..own - 1 : h[x] = all[r][x]
  <2>1. ASSUME NEW x \in 0..own - 1 PROVE h[x] = all[r][x]
    <3>1. x \in 0..own + g - 1 /\ x < len[r]
      BY <1>2, <1>4, SMTT(60)
    <3>2. h[x] = Full(batch[i], x)
      BY <3>1 DEF ReadsChunk
    <3>3. Full(batch[i], x) = all[r][x]
      BY <3>1 DEF Full
    <3> QED BY <3>2, <3>3
  <2> QED BY <2>1
<1>9. low \in Nat
  <2>1. 1 \in 1..ChunkLen(batch[i])
    BY <1>1, <1>2, TokensOfChunk
  <2> QED BY <1>1, <2>1, RequestOfToken
<1>10. more = old \o added
  OBVIOUS
<1> HIDE DEF c, own, low, old, n, m
<1>11. added \in Seq(Gram) /\ Len(added) = g /\ \A j \in 1..g : added[j] = out[low + j]
  <2>1. low + 1 \in Int /\ low + g \in Int
    BY <1>4, <1>9
  <2>2. \A x \in low + 1 .. low + g : out[x] \in Gram
    <3>1. ASSUME NEW x \in low + 1 .. low + g PROVE out[x] \in Gram
      <4>1. x - low \in 1..g /\ low + (x - low) = x
        BY <1>4, <1>9
      <4>2. x \in 1..Len(out)
        <5>1. low + (x - low) \in 1..n
          BY <1>6, <4>1
        <5> QED BY <4>1, <5>1 DEF n
      <4> QED BY <1>5, <4>2
    <3> QED BY <3>1
  <2>3. /\ added \in Seq(Gram)
        /\ Len(added) = IF low + 1 <= low + g THEN (low + g) - (low + 1) + 1 ELSE 0
        /\ \A j \in 1..(low + g) - (low + 1) + 1 : added[j] = out[(low + 1) + j - 1]
    <3> DEFINE u == low + 1
               v == low + g
    <3>1. added = SubSeq(out, u, v)
      BY DEF added
    <3> HIDE DEF u, v
    <3>2. u \in Int /\ v \in Int /\ \A x \in u..v : out[x] \in Gram
      BY <2>1, <2>2 DEF u, v
    <3>3. /\ SubSeq(out, u, v) \in Seq(Gram) /\ Len(SubSeq(out, u, v)) = IF u <= v THEN v - u + 1 ELSE 0
          /\ \A j \in 1..v - u + 1 : SubSeq(out, u, v)[j] = out[u + j - 1]
      BY <3>2, SubSeqProperties
    <3>4. /\ added \in Seq(Gram) /\ Len(added) = IF u <= v THEN v - u + 1 ELSE 0
          /\ \A j \in 1..v - u + 1 : added[j] = out[u + j - 1]
      BY <3>1, <3>3
    <3> QED BY <3>4 DEF u, v
  <2>4. Len(added) = g
    BY <1>4, <1>9, <2>3
  <2>5. ASSUME NEW j \in 1..g PROVE added[j] = out[low + j]
    <3>1. j \in 1..(low + g) - (low + 1) + 1 /\ (low + 1) + j - 1 = low + j
      BY <1>4, <1>9, SMTT(60)
    <3> QED BY <2>3, <3>1
  <2> QED BY <2>3, <2>4, <2>5
<1> HIDE DEF added
<1>12. /\ more \in Seq(Gram) /\ Len(more) = Len(old) + g /\ Len(old) \in Nat
       /\ \A k \in 1..Len(old) + g : more[k] = IF k <= Len(old) THEN old[k] ELSE added[k - Len(old)]
  <2>1. old \in Seq(Gram)
    BY <1>5
  <2>2. /\ old \o added \in Seq(Gram) /\ Len(old \o added) = Len(old) + Len(added)
        /\ \A k \in 1..Len(old) + Len(added) : (old \o added)[k] = IF k <= Len(old) THEN old[k] ELSE added[k - Len(old)]
    BY <1>11, <2>1, ConcatProperties
  <2>3. Len(old) \in Nat
    BY <2>1
  <2> QED BY <1>10, <1>11, <2>2, <2>3
<1> DEFINE z == Len(old)
<1>13. ASSUME NEW k \in 1..z + g PROVE more[k] = GramIn(h, (own + g) - (z + g) + k - 1)
  <2>1. z \in Nat
    BY <1>12
  <2>2. CASE k <= z
    <3> DEFINE p == own - z + k - 1
    <3>0. k \in 1..z
      BY <1>4, <2>1, <2>2
    <3>1. more[k] = GramIn(all[r], p) /\ k \in 1..z
      <4>1. old[k] = GramIn(all[r], p)
        BY <1>7, <3>0
      <4>2. more[k] = old[k]
        BY <1>12, <2>2
      <4> QED BY <3>0, <4>1, <4>2
    <3> HIDE DEF z
    <3>2. p \in Int /\ (own + g) - (z + g) + k - 1 = p /\ \A x \in 0..p : x \in 0..own - 1
      BY <1>2, <1>4, <2>1, <2>2, <3>1, SMTT(60)
    <3> HIDE DEF p
    <3>3. \A x \in 0..p : all[r][x] = h[x]
      BY <1>8, <3>2
    <3>4. GramIn(all[r], p) = GramIn(h, p)
      BY <3>2, <3>3, SameGrams
    <3> QED BY <3>1, <3>2, <3>4
  <2>3. CASE ~(k <= z)
    <3> HIDE DEF z
    <3>1. k - z \in 1..g /\ (own + g) - (z + g) + k - 1 = own + (k - z) - 1
      BY <1>2, <1>4, <2>1, <2>3, SMTT(60)
    <3>2. more[k] = added[k - z]
      BY <1>12, <2>3 DEF z
    <3>3. out[low + (k - z)] = GramIn(h, own + (k - z) - 1)
      BY <1>6, <3>1, SMTT(60)
    <3> QED BY <1>11, <3>1, <3>2, <3>3
  <2> QED BY <2>2, <2>3
<1>14. Len(more) = z + g /\ Len(more) \in Nat
  BY <1>4, <1>12, SMTT(60)
<1> HIDE DEF z
<1>15. GramsBefore(more, h, own + g)
  BY <1>12, <1>13, <1>14 DEF GramsBefore
<1> QED BY <1>15 DEF own

LEMMA SampleKeeps ==
  ASSUME NgramAssumption, IInv,
         NEW acc \in [1..Len(batch) -> 0..NumSpec], NEW new \in [1..Len(batch) -> Tokens],
         \A i \in DOMAIN acc : acc[i] <= Len(batch[i].drafts), Sample(acc, new)
  PROVE  IInv'
<1> DEFINE N(r) == NewOf(batch[ChunkOf(r)], acc[ChunkOf(r)], new[ChunkOf(r)])
           g(r) == batch[ChunkOf(r)].q + acc[ChunkOf(r)]
           low(r) == QueryStart(batch)[ChunkOf(r)-1]
           more(r) == kept[r] \o SubSeq(out, low(r) + 1, low(r) + g(r))
           h(r) == [p \in 0..MaxLen-1 |-> IF p \in len[r]..len[r] + Len(N(r)) - 1 THEN N(r)[p - len[r] + 1] ELSE all[r][p]]
<1>1. batch # << >> /\ out # << >>
  BY DEF Sample
<1>2. /\ all' = [r \in Reqs |-> [p \in 0..MaxLen-1 |->
           IF r \in InBatch /\ p \in len[r]..len[r] + Len(N(r)) - 1 THEN N(r)[p - len[r] + 1] ELSE all[r][p]]]
      /\ len' = [r \in Reqs |-> IF r \in InBatch THEN len[r] + Len(N(r)) ELSE len[r]]
      /\ computed' = [r \in Reqs |-> IF r \in InBatch THEN computed[r] + g(r) ELSE computed[r]]
      /\ kept' = [r \in Reqs |-> IF r \in InBatch THEN more(r) ELSE kept[r]]
      /\ batch' = << >> /\ rows' = 0 /\ input' = << >> /\ out' = << >>
      /\ live' = live /\ qsl' = qsl /\ ctx' = ctx
  BY DEF Sample, NewOf, Accepted, NoInput
<1>3. RequestsInv /\ BuffersType /\ GramsType /\ BatchHeld /\ KeptHeld
  BY <1>1 DEF IInv
<1>4. /\ live \subseteq Reqs /\ all \in [Reqs -> [0..MaxLen-1 -> Tokens]] /\ len \in [Reqs -> 0..MaxLen]
      /\ computed \in [Reqs -> 0..MaxLen] /\ (\A r \in live : computed[r] < len[r])
      /\ kept \in [Reqs -> Seq(Gram)] /\ MaxLen \in Nat
  BY <1>3 DEF RequestsInv, GramsType, NgramAssumption
<1>5. ASSUME NEW r \in InBatch
      PROVE  /\ ChunkOf(r) \in 1..Len(batch) /\ batch[ChunkOf(r)].req = r /\ Scheduled(batch[ChunkOf(r)])
             /\ acc[ChunkOf(r)] \in 0..Len(batch[ChunkOf(r)].drafts) /\ new[ChunkOf(r)] \in Tokens
  <2>1. \E i \in 1..Len(batch) : batch[i].req = r
    BY DEF InBatch
  <2>2. ChunkOf(r) \in 1..Len(batch) /\ batch[ChunkOf(r)].req = r
    BY <2>1 DEF ChunkOf
  <2> DEFINE i == ChunkOf(r)
  <2>3. i \in 1..Len(batch) /\ Scheduled(batch[i])
    BY <1>3, <2>2 DEF BatchHeld, ScheduledBatch
  <2>4. Len(batch[i].drafts) \in Nat
    BY <1>3, <2>3, TokensOfChunk
  <2> HIDE DEF i
  <2>5. acc[i] \in 0..NumSpec /\ acc[i] <= Len(batch[i].drafts) /\ NumSpec \in Nat
    BY <2>3 DEF NgramAssumption
  <2>6. acc[i] \in 0..Len(batch[i].drafts)
    BY <2>4, <2>5
  <2>7. new[i] \in Tokens
    BY <2>3
  <2> QED BY <2>2, <2>3, <2>6, <2>7 DEF i
<1>6. ASSUME NEW r \in InBatch
      PROVE  /\ N(r) \in Seq(Tokens) /\ Len(N(r)) \in Nat /\ len[r] + Len(N(r)) <= MaxLen
             /\ g(r) \in Nat /\ computed[r] \in Nat /\ len[r] \in Nat /\ computed[r] + g(r) < len[r] + Len(N(r))
             /\ \A x \in 0..computed[r] + g(r) - 1 : h(r)[x] = Full(batch[ChunkOf(r)], x)
             /\ r \in live /\ r \in Reqs
  <2> DEFINE c == batch[ChunkOf(r)]
             a == acc[ChunkOf(r)]
             w == new[ChunkOf(r)]
             l == len[r]
             own == computed[r]
  <2>1. c.req = r /\ Scheduled(c) /\ a \in 0..Len(c.drafts) /\ w \in Tokens
    BY <1>5
  <2>2. N(r) = NewOf(c, a, w) /\ g(r) = c.q + a
    OBVIOUS
  <2> HIDE DEF c, a, w
  <2>3. /\ NewOf(c, a, w) \in Seq(Tokens) /\ Len(NewOf(c, a, w)) \in Nat
        /\ len[c.req] + Len(NewOf(c, a, w)) <= MaxLen
        /\ c.q \in Nat \ {0} /\ a \in Nat /\ computed[c.req] \in Nat /\ len[c.req] \in Nat
        /\ computed[c.req] + (c.q + a) < len[c.req] + Len(NewOf(c, a, w))
        /\ \A x \in 0..computed[c.req] + (c.q + a) - 1 :
             Full(c, x) = IF x \in len[c.req]..len[c.req] + Len(NewOf(c, a, w)) - 1
                          THEN NewOf(c, a, w)[x - len[c.req] + 1] ELSE all[c.req][x]
    BY <1>3, <2>1, NewTokensAre
  <2> DEFINE z == Len(N(r))
             e == g(r)
  <2>4. /\ N(r) \in Seq(Tokens) /\ z \in Nat /\ l + z <= MaxLen /\ own \in Nat /\ l \in Nat /\ own + e < l + z
        /\ \A x \in 0..own + e - 1 : Full(c, x) = IF x \in l..l + z - 1 THEN N(r)[x - l + 1] ELSE all[r][x]
    <3> HIDE DEF N, g
    <3> QED BY <2>1, <2>2, <2>3
  <2>5. e \in Nat
    <3> HIDE DEF g
    <3> QED BY <2>2, <2>3
  <2>6. r \in live /\ r \in Reqs
    BY <1>4, <2>1 DEF Scheduled
  <2>7. ASSUME NEW x \in 0..own + e - 1 PROVE h(r)[x] = Full(c, x)
    <3>1. x \in 0..MaxLen-1
      <4> HIDE DEF z, e, l, own
      <4> QED BY <1>4, <2>4, <2>5
    <3>2. h(r)[x] = IF x \in l..l + z - 1 THEN N(r)[x - l + 1] ELSE all[r][x]
      <4> HIDE DEF N
      <4> QED BY <3>1
    <3> HIDE DEF h, N, g
    <3> QED BY <2>4, <3>2
  <2> HIDE DEF N, g, h
  <2> QED BY <2>4, <2>5, <2>6, <2>7 DEF c
<1>7. ASSUME NEW r \in InBatch
      PROVE  /\ more(r) \in Seq(Gram)
             /\ \A k \in 1..Len(more(r)) : more(r)[k] = GramIn(h(r), (computed[r] + g(r)) - Len(more(r)) + k - 1)
  <2> DEFINE i == ChunkOf(r)
             a == acc[i]
             z == g(r)
             f == h(r)
             m == more(r)
  <2>1. i \in 1..Len(batch) /\ r = batch[i].req /\ a \in 0..Len(batch[i].drafts)
    BY <1>5
  <2>2. z = batch[i].q + a /\ m = kept[r] \o SubSeq(out, QueryStart(batch)[i-1] + 1, QueryStart(batch)[i-1] + z)
    OBVIOUS
  <2>3. ReadsChunk(f, i, z)
    <3>1. \A x \in 0..computed[r] + z - 1 : f[x] = Full(batch[i], x)
      <4> HIDE DEF h, g
      <4> QED BY <1>6
    <3> QED BY <2>1, <3>1 DEF ReadsChunk
  <2> HIDE DEF z, f, m, a, i
  <2>4. GramsBefore(m, f, computed[r] + z)
    BY <1>1, <2>1, <2>2, <2>3, KeptOfChunk
  <2> QED BY <2>4 DEF z, f, m, GramsBefore
<1>8. \A r \in InBatch : all'[r] = h(r)
  <2>1. \A r \in InBatch : r \in Reqs
    BY <1>6
  <2> HIDE DEF N
  <2> QED BY <1>2, <2>1
<1>9. \A r \in Reqs : r \notin InBatch => all'[r] = all[r]
  <2> SUFFICES ASSUME NEW r \in Reqs, r \notin InBatch PROVE all'[r] = all[r]
    OBVIOUS
  <2>1. all'[r] = [p \in 0..MaxLen-1 |-> all[r][p]]
    <3> HIDE DEF N
    <3> QED BY <1>2
  <2> QED BY <1>4, <2>1
<1>10. ASSUME NEW r \in InBatch PROVE h(r) \in [0..MaxLen-1 -> Tokens]
  <2> DEFINE l == len[r]
             n == N(r)
             z == Len(n)
  <2>1. n \in Seq(Tokens) /\ z \in Nat /\ l \in Nat /\ r \in Reqs
    <3> HIDE DEF N
    <3> QED BY <1>6
  <2>2. h(r) = [p \in 0..MaxLen-1 |-> IF p \in l..l + z - 1 THEN n[p - l + 1] ELSE all[r][p]]
    OBVIOUS
  <2> HIDE DEF n, l, h
  <2>3. \A p \in l..l + z - 1 : p - l + 1 \in 1..z
    <3> HIDE DEF z
    <3> QED BY <2>1
  <2>4. \A k \in 1..z : n[k] \in Tokens
    BY <2>1
  <2> HIDE DEF z
  <2> QED BY <1>4, <2>1, <2>2, <2>3, <2>4
<1> HIDE DEF N, h, g, more
<1>11. all' \in [Reqs -> [0..MaxLen-1 -> Tokens]]
  <2>1. ASSUME NEW r \in Reqs PROVE all'[r] \in [0..MaxLen-1 -> Tokens]
    BY <1>4, <1>8, <1>9, <1>10, ZenonT(60)
  <2>2. all' = [r \in Reqs |-> all'[r]]
    BY <1>2
  <2> QED BY <2>1, <2>2
<1>12. ASSUME NEW r \in Reqs
       PROVE  /\ len'[r] \in 0..MaxLen /\ computed'[r] \in 0..MaxLen
              /\ r \in live => computed'[r] < len'[r]
  <2>1. CASE r \in InBatch
    <3> DEFINE l == len[r]
               z == Len(N(r))
               own == computed[r]
               e == g(r)
    <3>1. len'[r] = l + z /\ computed'[r] = own + e
      BY <1>2, <2>1
    <3>2. l \in Nat /\ z \in Nat /\ own \in Nat /\ e \in Nat /\ l + z <= MaxLen /\ own + e < l + z
      BY <1>6, <2>1
    <3> HIDE DEF l, z, own, e
    <3> QED BY <1>4, <3>1, <3>2
  <2>2. CASE r \notin InBatch
    BY <1>2, <1>4, <2>2
  <2> QED BY <2>1, <2>2
<1>13. RequestsInv'
  BY <1>2, <1>4, <1>11, <1>12 DEF RequestsInv
<1>14. BuffersType'
  <2>1. MaxReqs \in Nat /\ << >> \in Seq(Tokens)
    BY DEF NgramAssumption
  <2> QED BY <1>2, <1>3, <2>1 DEF BuffersType
<1>15. GramsType'
  <2>1. \A r \in Reqs : (IF r \in InBatch THEN more(r) ELSE kept[r]) \in Seq(Gram)
    BY <1>4, <1>7
  <2>2. << >> \in Seq(Gram)
    OBVIOUS
  <2> QED BY <1>2, <2>1, <2>2 DEF GramsType
<1>16. KeptHeld'
  <2>1. ASSUME NEW r \in live', NEW k \in 1..Len(kept'[r])
        PROVE  kept'[r][k] = GramIn(all'[r], computed'[r] - Len(kept'[r]) + k - 1)
    <3>1. r \in live /\ r \in Reqs
      BY <1>2, <1>4
    <3>2. CASE r \in InBatch
      <4>1. kept'[r] = more(r) /\ computed'[r] = computed[r] + g(r) /\ all'[r] = h(r)
        BY <1>2, <1>8, <3>1, <3>2
      <4>2. more(r)[k] = GramIn(h(r), (computed[r] + g(r)) - Len(more(r)) + k - 1)
        BY <1>7, <2>1, <3>2, <4>1
      <4> QED BY <4>1, <4>2
    <3>3. CASE r \notin InBatch
      <4>1. kept'[r] = kept[r] /\ computed'[r] = computed[r] /\ all'[r] = all[r]
        BY <1>2, <1>9, <3>1, <3>3
      <4> QED BY <1>3, <2>1, <3>1, <4>1 DEF KeptHeld
    <3> QED BY <3>2, <3>3
  <2> QED BY <2>1 DEF KeptHeld
<1>17. KernelHeld'
  BY <1>2 DEF KernelHeld
<1> QED BY <1>2, <1>13, <1>14, <1>15, <1>16, <1>17 DEF IInv

LEMMA StepHolds == ASSUME NgramAssumption PROVE IInv /\ [Next]_vars => IInv'
<1> SUFFICES ASSUME IInv, [Next]_vars PROVE IInv'
  OBVIOUS
<1>1. ASSUME NEW r \in Reqs, NEW prompt \in UpTo(Tokens, MaxPrompt), NEW cached \in 0..MaxPrompt-1,
             Admit(r, prompt, cached)
      PROVE  IInv'
  BY <1>1, AdmitKeeps
<1>2. ASSUME NEW r \in Reqs, Release(r) PROVE IInv'
  BY <1>2, ReleaseKeeps
<1>3. ASSUME NEW b \in Batches, NEW tail \in UpTo(Tokens, MaxPad), NEW padded \in Len(b)..MaxReqs,
             Prepare(b, padded, tail)
      PROVE  IInv'
  BY <1>3, PrepareKeeps
<1>4. ASSUME NEW n \in Reqs, NEW m \in 1..MaxLen, PrepareDummy(n, m) PROVE IInv'
  BY <1>4, PrepareDummyKeeps
<1>5. CASE Compute
  BY <1>5, ComputeKeeps
<1>6. ASSUME NEW acc \in [1..Len(batch) -> 0..NumSpec], NEW new \in [1..Len(batch) -> Tokens],
             \A i \in DOMAIN acc : acc[i] <= Len(batch[i].drafts), Sample(acc, new)
      PROVE  IInv'
  BY <1>6, SampleKeeps
<1>7. CASE UNCHANGED vars
  <2>1. /\ live' = live /\ kept' = kept /\ all' = all /\ len' = len /\ computed' = computed /\ batch' = batch
        /\ rows' = rows /\ input' = input /\ qsl' = qsl /\ ctx' = ctx /\ out' = out
    BY <1>7 DEF vars
  <2>2. BatchHeld => BatchHeld'
    BY <2>1 DEF BatchHeld, ScheduledBatch, Scheduled, Fits, StartsHeld, InputHeld, ContextHeld, Full
  <2>3. RequestsInv' /\ BuffersType' /\ GramsType' /\ KernelHeld' /\ KeptHeld'
    BY <2>1 DEF IInv, RequestsInv, BuffersType, GramsType, KernelHeld, KeptHeld
  <2> QED BY <2>1, <2>2, <2>3 DEF IInv
<1> QED BY <1>1, <1>2, <1>3, <1>4, <1>5, <1>6, <1>7 DEF Next

-----------------------------------------------------------------------------
(* What the index is looked up by: for every number of requests, n-gram    *)
(* size and draft length, whatever chunks, drafts, rejections and padding, *)
(* each token that counts as computed was looked up by the n-gram of its   *)
(* request's own full history.                                             *)
THEOREM KeptGramsAreOfHistoryHolds ==
  ASSUME NgramAssumption PROVE Spec => []KeptGramsAreOfHistory
<1>1. Init => IInv
  BY InitHolds
<1>2. IInv /\ [Next]_vars => IInv'
  BY StepHolds
<1>3. IInv => KeptGramsAreOfHistory
  <2>1. \A r, p : GramOfHistory(r, p) = GramIn(all[r], p)
    BY DEF GramOfHistory, GramIn
  <2> QED BY <2>1 DEF IInv, KeptHeld, KeptGramsAreOfHistory
<1> QED BY <1>1, <1>2, <1>3, PTL DEF Spec

(* The kernel and the torch path of the lookup give every token of every   *)
(* batch the same n-gram, the tokens padded past the last request too.     *)
THEOREM PathsAgreeHolds ==
  ASSUME NgramAssumption PROVE Spec => []PathsAgree
<1>1. Init => IInv
  BY InitHolds
<1>2. IInv /\ [Next]_vars => IInv'
  BY StepHolds
<1>3. IInv => PathsAgree
  <2> SUFFICES ASSUME IInv, out # << >>, NEW t \in 1..NumTokens PROVE out[t] = PackedGram(t - 1)
    BY DEF PathsAgree
  <2>1. NumTokens = Len(input) /\ input \in Seq(Tokens) /\ RequestsInv /\ BatchHeld
    BY DEF IInv, KernelHeld, BuffersType, NumTokens
  <2>2. out[t] = WalkOver(input, qsl, rows, ctx, t - 1)
    BY <2>1 DEF IInv, KernelHeld
  <2>3. t - 1 \in 0..Len(input)-1
    BY <2>1
  <2>4. KernelGram(t - 1) = PackedGram(t - 1)
    BY <2>1, <2>3, StartsAreTyped, PathsAgreeAt
  <2> QED BY <2>2, <2>4, KernelWalks
<1> QED BY <1>1, <1>2, <1>3, PTL DEF Spec

(* Every variable keeps its type, and a request in use always has a token  *)
(* to compute.                                                             *)
THEOREM NgramTypeHolds == ASSUME NgramAssumption PROVE Spec => []TypeOK
<1>1. Init => IInv
  BY InitHolds
<1>2. IInv /\ [Next]_vars => IInv'
  BY StepHolds
<1>3. IInv => TypeOK
  BY DEF IInv, RequestsInv, BuffersType, GramsType, TypeOK
<1> QED BY <1>1, <1>2, <1>3, PTL DEF Spec

-----------------------------------------------------------------------------
(* The hash multipliers and the padding of the table                       *)

LEMMA QuotientBounds ==
  ASSUME NEW n \in Nat, NEW d \in Nat \ {0}
  PROVE  /\ n \div d \in Nat /\ d * (n \div d) <= n /\ n < d * (n \div d) + d
         /\ n % d \in 0..d-1
  BY SMT

LEMMA FactorMonotone ==
  ASSUME NEW a \in Int, NEW b \in Int, NEW p \in Nat, a <= b
  PROVE  p * a <= p * b
  BY SMT

(* Twice the bound, where it is not the least one, fits the quotient.      *)
LEMMA MultiplierBounds ==
  ASSUME NEW maxInt \in Nat, NEW vocab \in Nat \ {0}, NEW mix \in Nat
  PROVE  /\ Multiplier(maxInt, vocab, mix) \in Nat
         /\ Multiplier(maxInt, vocab, mix) = 1 \/ Multiplier(maxInt, vocab, mix) <= maxInt \div vocab
<1> DEFINE q    == maxInt \div vocab
           half == q \div 2
           h    == HalfBound(maxInt, vocab)
<1>1. q \in Nat
  BY QuotientBounds
<1>2. half \in Nat /\ 2 * half <= q
  BY <1>1, QuotientBounds
<1>3. h = IF half > 1 THEN half ELSE 1
  BY DEF HalfBound
<1> HIDE DEF q, half, h
<1>4. h \in Nat \ {0}
  BY <1>2, <1>3
<1>5. mix % h \in 0..h-1
  BY <1>4, QuotientBounds
<1>6. Multiplier(maxInt, vocab, mix) = 2 * (mix % h) + 1
  BY DEF Multiplier, h
<1>7. CASE half > 1
  <2>1. mix % h \in 0..half-1
    BY <1>3, <1>5, <1>7
  <2>2. 2 * (mix % h) + 1 <= q
    BY <2>1, <1>1, <1>2
  <2> QED BY <2>1, <2>2, <1>1, <1>2, <1>6 DEF q
<1>8. CASE ~(half > 1)
  <2>1. mix % h = 0
    BY <1>3, <1>5, <1>8
  <2> QED BY <2>1, <1>6
<1> QED BY <1>7, <1>8

(* _build_layer_multipliers: a token of the vocabulary times a multiplier  *)
(* is an integer of the width, whatever the width, vocabulary and mix.     *)
THEOREM TokenProductFits ==
  ASSUME NEW maxInt \in Nat, NEW vocab \in Nat \ {0}, vocab <= maxInt,
         NEW mix \in Nat, NEW token \in 0..vocab-1
  PROVE  token * Multiplier(maxInt, vocab, mix) <= maxInt
<1> DEFINE m == Multiplier(maxInt, vocab, mix)
           q == maxInt \div vocab
<1>1. m \in Nat /\ (m = 1 \/ m <= q)
  BY MultiplierBounds
<1>2. q \in Nat /\ vocab * q <= maxInt
  BY QuotientBounds
<1> HIDE DEF m, q
<1>3. CASE m = 1
  <2>1. token * m = token
    BY <1>3
  <2> QED BY <2>1 DEF m
<1>4. CASE m <= q
  <2>1. token * m <= token * q
    BY <1>1, <1>2, <1>4, FactorMonotone
  <2>2. q * token <= q * vocab
    BY <1>2, FactorMonotone
  <2>3. token * m \in Int /\ token * q = q * token /\ vocab * q = q * vocab /\ token * q \in Int /\ vocab * q \in Int
    BY <1>1, <1>2
  <2> QED BY <2>1, <2>2, <2>3, <1>2 DEF m
<1> QED BY <1>1, <1>3, <1>4

(* The held of the table are padded to the next multiple of the divisor    *)
(* and no further.                                                         *)
THEOREM PaddingIsLeast ==
  ASSUME NEW held \in Nat, NEW divisor \in Nat \ {0}
  PROVE  /\ PaddedRows(held, divisor) >= held
         /\ PaddedRows(held, divisor) < held + divisor
         /\ \E k \in Nat : PaddedRows(held, divisor) = k * divisor
<1> DEFINE n == held + divisor - 1
           k == n \div divisor
<1>1. n \in Nat
  OBVIOUS
<1>2. k \in Nat /\ divisor * k <= n /\ n < divisor * k + divisor
  BY <1>1, QuotientBounds
<1>3. PaddedRows(held, divisor) = k * divisor
  BY DEF PaddedRows
<1> HIDE DEF k
<1>4. k * divisor = divisor * k /\ k * divisor \in Int
  BY <1>2
<1> QED BY <1>2, <1>3, <1>4

(* What the runs check of one width, for every width and vocabulary.       *)
THEOREM ProductFitsHolds ==
  ASSUME NEW maxInt \in Nat, NEW vocab \in Nat \ {0}, vocab <= maxInt
  PROVE  ProductFits(maxInt, vocab)
BY TokenProductFits DEF ProductFits
=============================================================================
