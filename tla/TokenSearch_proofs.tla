-------------------------- MODULE TokenSearch_proofs -------------------------
(***************************************************************************)
(* The search ends at the request of the token, for any number of requests *)
(* of any lengths, and what the proof of it and of the kernels that use it *)
(* need: induction over an interval and over finite sets, that a function  *)
(* which recurses over one exists, sums over finite sets, powers of two,   *)
(* and division.                                                           *)
(***************************************************************************)
EXTENDS TokenSearch, SequenceTheorems, FiniteSetTheorems, Functions, WellFoundedInduction, TLAPS

-----------------------------------------------------------------------------
(* Induction and recursion over 0..n                                       *)

LEMMA SetInduction ==
  ASSUME NEW S, 0 \in S, \A k \in Nat : k \in S => k + 1 \in S
  PROVE  Nat \subseteq S
<1> DEFINE T == Nat \ S
           R == {ss \in Nat \X Nat : ss[1] < ss[2]}
<1>1. SUFFICES ASSUME T # {} PROVE FALSE
  OBVIOUS
<1>2. IsWellFoundedOn(R, Nat)
  BY NatLessThanWellFounded DEF OpToRel
<1>3. \A a, b \in Nat : a < b => <<a, b>> \in R
  OBVIOUS
<1>4. T \subseteq Nat
  OBVIOUS
<1> HIDE DEF R
<1>5. PICK x \in T : \A y \in T : <<y, x>> \notin R
  BY <1>1, <1>2, <1>4, WFMin
<1>6. x \in Nat /\ x # 0 /\ x - 1 \in Nat
  BY <1>5
<1>7. <<x - 1, x>> \in R
  BY <1>3, <1>6
<1>8. x - 1 \in S
  BY <1>5, <1>6, <1>7
<1> QED BY <1>5, <1>6, <1>8

LEMMA LeastExists ==
  ASSUME NEW S \in SUBSET Nat, S # {}
  PROVE  \E x \in S : \A y \in S : x <= y
<1> DEFINE R == {ss \in Nat \X Nat : ss[1] < ss[2]}
<1>1. IsWellFoundedOn(R, Nat)
  BY NatLessThanWellFounded DEF OpToRel
<1>2. \A a, b \in Nat : a < b => <<a, b>> \in R
  OBVIOUS
<1> HIDE DEF R
<1>3. PICK x \in S : \A y \in S : <<y, x>> \notin R
  BY <1>1, WFMin
<1>4. \A y \in S : x <= y
  <2>1. SUFFICES ASSUME NEW y \in S, ~(x <= y) PROVE FALSE
    OBVIOUS
  <2>2. x \in Nat /\ y \in Nat
    OBVIOUS
  <2>3. y < x
    BY <2>1, <2>2
  <2> QED BY <1>2, <1>3, <2>2, <2>3
<1> QED BY <1>4

LEMMA IntervalInduction ==
  ASSUME NEW n \in Nat, NEW S, 0 \in S, \A k \in 1..n : k - 1 \in S => k \in S
  PROVE  \A k \in 0..n : k \in S
<1> DEFINE T == {k \in Nat : k <= n => k \in S}
<1>1. 0 \in T
  OBVIOUS
<1>2. ASSUME NEW k \in Nat, k \in T PROVE k + 1 \in T
  <2>1. SUFFICES ASSUME k + 1 <= n PROVE k + 1 \in S
    OBVIOUS
  <2>2. k + 1 \in 1..n /\ (k + 1) - 1 = k /\ k <= n
    BY <2>1
  <2> QED BY <1>2, <2>2
<1>3. Nat \subseteq T
  <2> HIDE DEF T
  <2> QED BY <1>1, <1>2, SetInduction
<1> QED BY <1>3

(* g begins with s, and every later value is a step from the one before.   *)
Recursion(g, n, s, step) == g[0] = s /\ \A k \in 1..n : g[k] = step[k][g[k-1]]

LEMMA RecursionExists ==
  ASSUME NEW n \in Nat, NEW S, NEW s \in S, NEW step \in [1..n -> [S -> S]]
  PROVE  \E g \in [0..n -> S] : Recursion(g, n, s, step)
<1> DEFINE Upto(m, g) == g[0] = s /\ \A k \in 1..m : g[k] = step[k][g[k-1]]
           D == {m \in Nat : m <= n => \E g \in [0..m -> S] : Upto(m, g)}
<1>1. 0 \in D
  <2> DEFINE g == [k \in 0..0 |-> s]
  <2>1. g \in [0..0 -> S] /\ Upto(0, g)
    OBVIOUS
  <2> QED BY <2>1
<1>2. ASSUME NEW m \in Nat, m \in D PROVE m + 1 \in D
  <2>1. SUFFICES ASSUME m + 1 <= n PROVE \E g \in [0..m+1 -> S] : Upto(m + 1, g)
    OBVIOUS
  <2>2. m <= n
    BY <2>1
  <2>3. PICK f \in [0..m -> S] : Upto(m, f)
    <3> HIDE DEF Upto
    <3> QED BY <1>2, <2>2
  <2> DEFINE last == step[m + 1][f[m]]
             g == [k \in 0..m+1 |-> IF k <= m THEN f[k] ELSE last]
  <2>4. last \in S
    BY <2>1
  <2> HIDE DEF last
  <2>5. g \in [0..m+1 -> S]
    BY <2>4
  <2>6. (\A k \in 0..m : g[k] = f[k]) /\ g[m + 1] = last
    OBVIOUS
  <2> HIDE DEF g
  <2>7. g[0] = s
    BY <2>3, <2>6
  <2>8. ASSUME NEW k \in 1..m+1 PROVE g[k] = step[k][g[k-1]]
    <3>1. CASE k = m + 1
      <4>1. k - 1 = m /\ m \in 0..m
        BY <3>1
      <4> QED BY <2>6, <3>1, <4>1 DEF last
    <3>2. CASE k # m + 1
      <4>1. k \in 1..m /\ k - 1 \in 0..m /\ k \in 0..m
        BY <3>2
      <4> QED BY <4>1, <2>3, <2>6
    <3> QED BY <3>1, <3>2
  <2> QED BY <2>5, <2>7, <2>8
<1>3. PICK g \in [0..n -> S] : Upto(n, g)
  <2>1. n \in D
    <3> HIDE DEF D
    <3> QED BY <1>1, <1>2, SetInduction
  <2>2. n <= n
    OBVIOUS
  <2> HIDE DEF Upto
  <2> QED BY <2>1, <2>2
<1> QED BY <1>3 DEF Recursion

(* A function that takes such a step from each value of S stays in S.      *)
StepsWithin(f, n, S, s, step) == f[0] = s /\ \A k \in 1..n : f[k-1] \in S => f[k] = step[k][f[k-1]]

LEMMA RecursionIs ==
  ASSUME NEW n \in Nat, NEW S, NEW s \in S, NEW step \in [1..n -> [S -> S]],
         NEW f, StepsWithin(f, n, S, s, step)
  PROVE  \A k \in 0..n : f[k] \in S
<1> DEFINE D == {k \in 0..n : f[k] \in S}
<1>1. f[0] = s /\ \A k \in 1..n : f[k-1] \in S => f[k] = step[k][f[k-1]]
  BY DEF StepsWithin
<1>2. 0 \in D
  BY <1>1
<1>3. ASSUME NEW k \in 1..n, k - 1 \in D PROVE k \in D
  <2>1. f[k-1] \in S /\ step[k] \in [S -> S] /\ k \in 0..n
    BY <1>3
  <2>2. f[k] = step[k][f[k-1]]
    BY <1>1, <2>1
  <2>3. step[k][f[k-1]] \in S
    BY <2>1
  <2> QED BY <2>1, <2>2, <2>3
<1>4. \A k \in 0..n : k \in D
  <2> HIDE DEF D
  <2> QED BY <1>2, <1>3, IntervalInduction
<1> QED BY <1>4

-----------------------------------------------------------------------------
(* Sums, and parts joined one after the other                              *)

LEMMA StepsAscend ==
  ASSUME NEW n \in Nat, NEW f, \A k \in 0..n : f[k] \in Nat, \A k \in 1..n : f[k-1] <= f[k]
  PROVE  \A i, j \in 0..n : i <= j => f[i] <= f[j]
<1> SUFFICES ASSUME NEW i \in 0..n PROVE \A j \in 0..n : i <= j => f[i] <= f[j]
  OBVIOUS
<1> DEFINE D == {j \in 0..n : i <= j => f[i] <= f[j]}
<1>1. 0 \in D
  OBVIOUS
<1>2. ASSUME NEW k \in 1..n, k - 1 \in D PROVE k \in D
  <2>1. k \in 0..n /\ k - 1 \in 0..n /\ f[k] \in Nat /\ f[k-1] \in Nat /\ f[i] \in Nat /\ f[k-1] <= f[k]
    OBVIOUS
  <2>2. i <= k - 1 => f[i] <= f[k-1]
    BY <1>2
  <2>3. i <= k => i = k \/ i <= k - 1
    OBVIOUS
  <2> QED BY <2>1, <2>2, <2>3
<1>3. \A k \in 0..n : k \in D
  <2> HIDE DEF D
  <2> QED BY <1>1, <1>2, IntervalInduction
<1> QED BY <1>3

(* Parts joined one after the other: where each of them is found           *)
Parts(part, size, n, S) ==
  \A i \in 1..n : part[i] \in Seq(S) /\ Len(part[i]) = size[i] /\ size[i] \in Nat

Joins(f, part, n) == f[0] = << >> /\ \A i \in 1..n : f[i] = f[i-1] \o part[i]

Places(s, size, n) ==
  s[0] = 0 /\ (\A i \in 0..n : s[i] \in Nat) /\ \A i \in 1..n : s[i] = s[i-1] + size[i]

Joined(f, part, size, s, S, i) ==
  /\ f[i] \in Seq(S) /\ Len(f[i]) = s[i]
  /\ \A k \in 1..i : \A j \in 1..size[k] : f[i][s[k-1]+j] = part[k][j]

LEMMA JoinIs ==
  ASSUME NEW S, NEW n \in Nat, NEW f, NEW part, NEW s, NEW size,
         Parts(part, size, n, S), Joins(f, part, n), Places(s, size, n)
  PROVE  \A i \in 0..n : Joined(f, part, size, s, S, i)
<1> DEFINE D == {i \in 0..n : Joined(f, part, size, s, S, i)}
<1>1. 0 \in D
  <2>1. f[0] \in Seq(S) /\ Len(f[0]) = s[0]
    BY DEF Joins, Places
  <2> QED BY <2>1 DEF Joined
<1>2. ASSUME NEW i \in 1..n, i - 1 \in D PROVE i \in D
  <2> DEFINE head == f[i-1]
             tail == part[i]
             z == s[i-1]
  <2>0. Joined(f, part, size, s, S, i - 1) /\ i \in 0..n /\ i - 1 \in 0..n
    BY <1>2
  <2>1. head \in Seq(S) /\ tail \in Seq(S)
    BY <2>0 DEF Joined, Parts
  <2>2. Len(head) = z /\ Len(tail) = size[i] /\ z \in Nat /\ size[i] \in Nat /\ s[i] = z + size[i] /\ f[i] = head \o tail
        /\ s[i] \in Nat
    <3>1. Len(head) = z
      BY <2>0 DEF Joined
    <3>2. Len(tail) = size[i] /\ size[i] \in Nat
      BY DEF Parts
    <3>3. f[i] = head \o tail
      BY DEF Joins
    <3>4. z \in Nat /\ s[i] = z + size[i] /\ s[i] \in Nat
      BY <2>0 DEF Places
    <3> QED BY <3>1, <3>2, <3>3, <3>4
  <2>3. \A k \in 1..i-1 : \A j \in 1..size[k] : head[s[k-1]+j] = part[k][j]
    BY <2>0 DEF Joined
  <2> HIDE DEF head, tail, z
  <2>4. head \o tail \in Seq(S) /\ Len(head \o tail) = Len(head) + Len(tail)
        /\ \A j \in 1..Len(head) + Len(tail) : (head \o tail)[j] = IF j <= Len(head) THEN head[j] ELSE tail[j - Len(head)]
    BY <2>1, ConcatProperties
  <2>5. \A j \in 1..z + size[i] : f[i][j] = IF j <= z THEN head[j] ELSE tail[j - z]
    BY <2>2, <2>4
  <2>6. \A p, q \in 0..n : p <= q => s[p] <= s[q]
    <3>1. ASSUME NEW k \in 1..n PROVE s[k-1] <= s[k]
      <4>1. k \in 0..n /\ k - 1 \in 0..n
        OBVIOUS
      <4>2. s[k-1] \in Nat /\ s[k] \in Nat /\ size[k] \in Nat /\ s[k] = s[k-1] + size[k]
        BY <4>1 DEF Places, Parts
      <4> QED BY <4>2
    <3>2. \A k \in 0..n : s[k] \in Nat
      BY DEF Places
    <3> QED BY <3>1, <3>2, StepsAscend
  <2>7. ASSUME NEW k \in 1..i, NEW j \in 1..size[k] PROVE f[i][s[k-1]+j] = part[k][j]
    <3>1. CASE k = i
      <4>1. z + j \in 1..z + size[i] /\ ~(z + j <= z) /\ (z + j) - z = j
        BY <2>2, <3>1
      <4>2. f[i][z + j] = tail[j]
        BY <2>5, <4>1
      <4> QED BY <3>1, <4>2 DEF z, tail
    <3>2. CASE k # i
      <4>1. k \in 1..i-1 /\ k \in 1..n /\ k \in 0..n /\ k - 1 \in 0..n
        BY <3>2
      <4>2. s[k] <= z /\ s[k] = s[k-1] + size[k] /\ s[k-1] \in Nat /\ size[k] \in Nat
        <5>1. s[k] <= s[i-1]
          BY <2>0, <2>6, <4>1
        <5> QED BY <4>1, <5>1 DEF z, Places, Parts
      <4> DEFINE u == s[k-1]
                 m == size[k]
      <4>3. u \in Nat /\ m \in Nat /\ j \in 1..m /\ s[k] = u + m /\ s[k] <= z /\ s[k] \in Nat
        BY <4>1, <4>2 DEF Places
      <4> HIDE DEF u, m
      <4>4. u + j \in 1..z + size[i] /\ u + j <= z
        BY <2>2, <4>3
      <4>5. head[u+j] = part[k][j]
        BY <2>3, <4>1 DEF u
      <4>6. f[i][u+j] = head[u+j]
        BY <2>5, <4>4
      <4> QED BY <4>5, <4>6 DEF u
    <3> QED BY <3>1, <3>2
  <2>8. f[i] \in Seq(S) /\ Len(f[i]) = s[i]
    BY <2>2, <2>4
  <2>9. Joined(f, part, size, s, S, i)
    BY <2>7, <2>8 DEF Joined
  <2> QED BY <2>0, <2>9
<1>3. \A i \in 0..n : i \in D
  <2> HIDE DEF D
  <2> QED BY <1>1, <1>2, IntervalInduction
<1> QED BY <1>3

(* Numbers that add up, and sequences that join, exist and are what the    *)
(* equation of the recursion says.                                         *)
LEMMA PlacesExist ==
  ASSUME NEW n \in Nat, NEW size, \A i \in 1..n : size[i] \in Nat
  PROVE  \E s \in [0..n -> Nat] : Places(s, size, n)
<1> DEFINE step == [i \in 1..n |-> [v \in Nat |-> v + size[i]]]
           zero == 0
<1>1. step \in [1..n -> [Nat -> Nat]] /\ zero \in Nat
  OBVIOUS
<1>2. PICK s \in [0..n -> Nat] : Recursion(s, n, zero, step)
  <2> HIDE DEF step, zero
  <2> QED BY <1>1, RecursionExists
<1>3. s[0] = 0 /\ \A k \in 1..n : s[k] = step[k][s[k-1]]
  BY <1>2 DEF Recursion
<1>4. \A k \in 1..n : step[k][s[k-1]] = s[k-1] + size[k]
  <2>1. \A k \in 1..n : k - 1 \in 0..n
    OBVIOUS
  <2> QED BY <1>2, <2>1
<1> HIDE DEF step
<1> QED BY <1>2, <1>3, <1>4 DEF Places

LEMMA PlacesAre ==
  ASSUME NEW n \in Nat, NEW size, \A i \in 1..n : size[i] \in Nat,
         NEW s, s[0] = 0, \A i \in 1..n : s[i] = s[i-1] + size[i]
  PROVE  Places(s, size, n) /\ \A i, j \in 0..n : i <= j => s[i] <= s[j]
<1> DEFINE D == {i \in 0..n : s[i] \in Nat}
<1>1. 0 \in D
  OBVIOUS
<1>2. ASSUME NEW k \in 1..n, k - 1 \in D PROVE k \in D
  BY <1>2
<1>3. \A k \in 0..n : k \in D
  <2> HIDE DEF D
  <2> QED BY <1>1, <1>2, IntervalInduction
<1>4. \A k \in 0..n : s[k] \in Nat
  BY <1>3
<1>5. ASSUME NEW k \in 1..n PROVE s[k-1] <= s[k]
  <2>1. s[k-1] \in Nat /\ size[k] \in Nat /\ s[k] = s[k-1] + size[k]
    <3>1. k - 1 \in 0..n
      OBVIOUS
    <3> QED BY <1>4, <3>1
  <2> QED BY <2>1
<1>6. \A i, j \in 0..n : i <= j => s[i] <= s[j]
  BY <1>4, <1>5, StepsAscend
<1> QED BY <1>4, <1>6 DEF Places

LEMMA JoinExists ==
  ASSUME NEW S, NEW n \in Nat, NEW part, \A i \in 1..n : part[i] \in Seq(S)
  PROVE  \E f \in [0..n -> Seq(S)] : Joins(f, part, n)
<1> DEFINE T == Seq(S)
           none == << >>
           step == [i \in 1..n |-> [v \in T |-> v \o part[i]]]
<1>1. step \in [1..n -> [T -> T]] /\ none \in T
  <2>1. ASSUME NEW i \in 1..n, NEW v \in T PROVE v \o part[i] \in T
    BY ConcatProperties
  <2> QED BY <2>1
<1>2. PICK f \in [0..n -> T] : Recursion(f, n, none, step)
  <2> HIDE DEF step, none, T
  <2> QED BY <1>1, RecursionExists
<1>3. f[0] = << >> /\ \A k \in 1..n : f[k] = step[k][f[k-1]]
  BY <1>2 DEF Recursion
<1> HIDE DEF T
<1>4. \A k \in 1..n : step[k][f[k-1]] = f[k-1] \o part[k]
  <2>1. \A k \in 1..n : k - 1 \in 0..n
    OBVIOUS
  <2>2. \A k \in 1..n : f[k-1] \in T
    BY <1>2, <2>1
  <2> QED BY <2>2
<1> HIDE DEF step
<1> QED BY <1>2, <1>3, <1>4 DEF Joins, T

(* A number below the sum lies between two neighbouring ones.              *)
LEMMA Located ==
  ASSUME NEW n \in Nat, NEW s, s[0] = 0, \A i \in 0..n : s[i] \in Nat, NEW w \in Nat, w < s[n]
  PROVE  \E m \in 1..n : s[m-1] <= w /\ w < s[m]
<1> SUFFICES ASSUME \A m \in 1..n : s[m-1] <= w => s[m] <= w PROVE FALSE
  <2>1. \A m \in 1..n : m \in 0..n
    OBVIOUS
  <2> QED BY <2>1
<1> DEFINE D == {i \in 0..n : s[i] <= w}
<1>1. 0 \in D
  OBVIOUS
<1>2. ASSUME NEW k \in 1..n, k - 1 \in D PROVE k \in D
  BY <1>2
<1>3. \A k \in 0..n : k \in D
  <2> HIDE DEF D
  <2> QED BY <1>1, <1>2, IntervalInduction
<1>4. s[n] <= w /\ s[n] \in Nat
  BY <1>3
<1> QED BY <1>4

-----------------------------------------------------------------------------
(* Induction and sums over finite sets                                     *)

LEMMA FiniteInduction ==
  ASSUME NEW S, IsFiniteSet(S), NEW D, {} \in D,
         \A T \in SUBSET S : \A x \in S \ T : T \in D => T \cup {x} \in D
  PROVE  S \in D
<1> DEFINE K == {n \in Nat : \A T \in SUBSET S : Cardinality(T) = n => T \in D}
<1>1. \A T \in SUBSET S : IsFiniteSet(T) /\ Cardinality(T) \in Nat
  BY FS_Subset, FS_CardinalityType
<1>2. 0 \in K
  <2>1. \A T \in SUBSET S : Cardinality(T) = 0 => T = {}
    BY <1>1, FS_EmptySet
  <2> QED BY <2>1
<1>3. ASSUME NEW n \in Nat, n \in K PROVE n + 1 \in K
  <2>1. SUFFICES ASSUME NEW T \in SUBSET S, Cardinality(T) = n + 1 PROVE T \in D
    OBVIOUS
  <2>2. PICK x : x \in T
    <3>1. Cardinality({}) = 0 /\ Cardinality(T) # 0
      BY <2>1, FS_EmptySet
    <3> QED BY <3>1
  <2>3. Cardinality(T \ {x}) = n /\ T \ {x} \in SUBSET S
    <3>1. IsFiniteSet(T) /\ Cardinality(T \ {x}) = Cardinality(T) - 1
      BY <1>1, <2>2, FS_RemoveElement
    <3> QED BY <2>1, <3>1
  <2>4. T \ {x} \in D
    BY <1>3, <2>3
  <2>5. (T \ {x}) \cup {x} = T /\ x \in S \ (T \ {x})
    BY <2>2
  <2> QED BY <2>3, <2>4, <2>5
<1>4. Nat \subseteq K
  <2> HIDE DEF K
  <2> QED BY <1>2, <1>3, SetInduction
<1>5. S \in SUBSET S
  OBVIOUS
<1> QED BY <1>1, <1>4, <1>5

(* The fold of Functions, and a function that sums up in any order.        *)
Pick(s) == CHOOSE x \in s : TRUE
Folding(h, f, S) ==
  h = [s \in SUBSET S |-> IF s = {} THEN 0 ELSE f[Pick(s)] + h[s \ {Pick(s)}]]
Adds(h, f, S) == h[{}] = 0 /\ \A U \in SUBSET S : \A y \in U : h[U] = f[y] + h[U \ {y}]

LEMMA AddsExists ==
  ASSUME NEW S, IsFiniteSet(S), NEW f, \A y \in S : f[y] \in Int
  PROVE  \E h \in [SUBSET S -> Int] : Adds(h, f, S)
<1> DEFINE D == {T \in SUBSET S : \E h \in [SUBSET T -> Int] : Adds(h, f, T)}
<1>1. {} \in D
  <2> DEFINE h == [s \in SUBSET {} |-> 0]
  <2>1. h \in [SUBSET {} -> Int] /\ Adds(h, f, {})
    BY DEF Adds
  <2> HIDE DEF h
  <2> QED BY <2>1
<1>2. ASSUME NEW T \in SUBSET S, NEW x \in S \ T, T \in D PROVE T \cup {x} \in D
  <2>1. PICK h \in [SUBSET T -> Int] : Adds(h, f, T)
    BY <1>2
  <2> DEFINE X == T \cup {x}
             g == [U \in SUBSET X |-> IF x \in U THEN h[U \ {x}] + f[x] ELSE h[U]]
  <2>2. g \in [SUBSET X -> Int]
    OBVIOUS
  <2>3. g[{}] = 0
    BY <2>1 DEF Adds
  <2>4. ASSUME NEW U \in SUBSET X, NEW y \in U PROVE g[U] = f[y] + g[U \ {y}]
    <3>0. /\ U \in SUBSET X /\ U \ {y} \in SUBSET X /\ f[x] \in Int /\ f[y] \in Int
          /\ \A V \in SUBSET X : V \ {x} \in SUBSET T /\ h[V \ {x}] \in Int
      OBVIOUS
    <3>1. CASE y = x
      BY <3>0, <3>1
    <3>2. CASE y # x /\ x \in U
      <4>1. h[U \ {x}] = f[y] + h[(U \ {x}) \ {y}]
        BY <2>1, <3>0, <3>2 DEF Adds
      <4>2. (U \ {x}) \ {y} = (U \ {y}) \ {x} /\ x \in U \ {y}
        BY <3>2
      <4>3. h[(U \ {y}) \ {x}] \in Int
        BY <3>0
      <4>4. g[U] = h[U \ {x}] + f[x] /\ g[U \ {y}] = h[(U \ {y}) \ {x}] + f[x]
        BY <3>0, <3>2, <4>2
      <4>5. h[U \ {x}] = f[y] + h[(U \ {y}) \ {x}] /\ h[U \ {x}] \in Int
        BY <3>0, <4>1, <4>2
      <4> HIDE DEF g
      <4> QED BY <3>0, <4>3, <4>4, <4>5
    <3>3. CASE x \notin U
      BY <2>1, <3>0, <3>3 DEF Adds
    <3> QED BY <3>1, <3>2, <3>3
  <2>5. Adds(g, f, X)
    BY <2>3, <2>4 DEF Adds
  <2> HIDE DEF g
  <2> QED BY <2>2, <2>5
<1>3. S \in D
  <2> HIDE DEF D
  <2> QED BY <1>1, <1>2, FiniteInduction
<1> QED BY <1>3

LEMMA FoldingAdds ==
  ASSUME NEW S, IsFiniteSet(S), NEW f, NEW h \in [SUBSET S -> Int], Adds(h, f, S)
  PROVE  Folding(h, f, S) /\ \A g : Folding(g, f, S) => g[S] = h[S]
<1>1. Folding(h, f, S)
  <2>1. \A s \in SUBSET S : s # {} => Pick(s) \in s
    BY DEF Pick
  <2>2. \A s \in SUBSET S : h[s] = IF s = {} THEN 0 ELSE f[Pick(s)] + h[s \ {Pick(s)}]
    BY <2>1 DEF Adds
  <2> QED BY <2>2 DEF Folding
<1>2. ASSUME NEW g, Folding(g, f, S) PROVE g[S] = h[S]
  <2> DEFINE K == {n \in Nat : \A U \in SUBSET S : Cardinality(U) = n => g[U] = h[U]}
  <2>1. \A T \in SUBSET S : IsFiniteSet(T) /\ Cardinality(T) \in Nat
    BY FS_Subset, FS_CardinalityType
  <2>2. \A s \in SUBSET S : s # {} => /\ Pick(s) \in s
                                      /\ g[s] = f[Pick(s)] + g[s \ {Pick(s)}]
                                      /\ h[s] = f[Pick(s)] + h[s \ {Pick(s)}]
    BY <1>1, <1>2 DEF Folding, Pick
  <2>3. 0 \in K
    <3>1. \A U \in SUBSET S : Cardinality(U) = 0 => U = {}
      BY <2>1, FS_EmptySet
    <3>2. g[{}] = h[{}]
      BY <1>1, <1>2 DEF Folding
    <3> QED BY <3>1, <3>2
  <2>4. ASSUME NEW n \in Nat, n \in K PROVE n + 1 \in K
    <3>1. SUFFICES ASSUME NEW U \in SUBSET S, Cardinality(U) = n + 1 PROVE g[U] = h[U]
      OBVIOUS
    <3>2. U # {}
      <4>1. Cardinality({}) = 0 /\ Cardinality(U) # 0
        BY <3>1, FS_EmptySet
      <4> QED BY <4>1
    <3>3. Pick(U) \in U
      BY <2>2, <3>2
    <3>4. Cardinality(U \ {Pick(U)}) = n /\ U \ {Pick(U)} \in SUBSET S
      <4>1. IsFiniteSet(U) /\ Cardinality(U \ {Pick(U)}) = Cardinality(U) - 1
        BY <2>1, <3>3, FS_RemoveElement
      <4> QED BY <3>1, <4>1
    <3>5. g[U \ {Pick(U)}] = h[U \ {Pick(U)}]
      BY <2>4, <3>4
    <3> QED BY <2>2, <3>2, <3>5
  <2>5. Nat \subseteq K
    <3> HIDE DEF K
    <3> QED BY <2>3, <2>4, SetInduction
  <2>6. S \in SUBSET S
    OBVIOUS
  <2> QED BY <2>1, <2>5, <2>6
<1> QED BY <1>1, <1>2

Sums(h, f, S) == Adds(h, f, S) /\ \A U \in SUBSET S : SumFunctionOnSet(f, U) = h[U]

LEMMA SumIs ==
  ASSUME NEW S, IsFiniteSet(S), NEW f, \A y \in S : f[y] \in Int
  PROVE  \E h \in [SUBSET S -> Int] : Sums(h, f, S)
<1>1. PICK h \in [SUBSET S -> Int] : Adds(h, f, S)
  BY AddsExists
<1>2. ASSUME NEW U \in SUBSET S PROVE SumFunctionOnSet(f, U) = h[U]
  <2> DEFINE g == [s \in SUBSET U |-> h[s]]
  <2>1. SumFunctionOnSet(f, U) = (CHOOSE k : Folding(k, f, U))[U]
    BY DEF SumFunctionOnSet, FoldFunctionOnSet, MapThenFoldSet, Folding, Pick
  <2>2. g \in [SUBSET U -> Int] /\ Adds(g, f, U) /\ g[U] = h[U]
    BY <1>1 DEF Adds
  <2>3. IsFiniteSet(U)
    BY FS_Subset
  <2>4. Folding(g, f, U) /\ \A k : Folding(k, f, U) => k[U] = g[U]
    <3> HIDE DEF g
    <3> QED BY <2>2, <2>3, FoldingAdds
  <2> HIDE DEF g
  <2> QED BY <2>1, <2>2, <2>4
<1> QED BY <1>1, <1>2 DEF Sums

LEMMA SumOfNone ==
  ASSUME NEW f PROVE SumFunctionOnSet(f, {}) = 0
<1>1. ASSUME NEW S, IsFiniteSet(S), \A y \in S : f[y] \in Int PROVE SumFunctionOnSet(f, {}) = 0
  <2>1. PICK h \in [SUBSET S -> Int] : Sums(h, f, S)
    BY <1>1, SumIs
  <2> QED BY <2>1 DEF Adds, Sums
<1>2. IsFiniteSet({}) /\ \A y \in {} : f[y] \in Int
  BY FS_EmptySet
<1> QED BY <1>1, <1>2

LEMMA SumAdd ==
  ASSUME NEW S, IsFiniteSet(S), NEW x, x \notin S, NEW f, \A y \in S \cup {x} : f[y] \in Int
  PROVE  /\ SumFunctionOnSet(f, S) \in Int
         /\ SumFunctionOnSet(f, S \cup {x}) = SumFunctionOnSet(f, S) + f[x]
<1> DEFINE X == S \cup {x}
<1>1. IsFiniteSet(X)
  BY FS_AddElement
<1>2. PICK h \in [SUBSET X -> Int] : Sums(h, f, X)
  BY <1>1, SumIs
<1>3. X \ {x} = S /\ S \in SUBSET X /\ X \in SUBSET X /\ x \in X /\ f[x] \in Int
  OBVIOUS
<1>4. h[X] = f[x] + h[S] /\ h[S] \in Int
  BY <1>2, <1>3 DEF Adds, Sums
<1> HIDE DEF X
<1>5. SumFunctionOnSet(f, X) = h[X] /\ SumFunctionOnSet(f, S) = h[S]
  BY <1>2, <1>3 DEF Sums
<1> QED BY <1>3, <1>4, <1>5 DEF X
LEMMA SumType ==
  ASSUME NEW S, IsFiniteSet(S), NEW f, \A y \in S : f[y] \in Int
  PROVE  /\ SumFunctionOnSet(f, S) \in Int
         /\ (\A y \in S : f[y] >= 0) => SumFunctionOnSet(f, S) >= 0
<1>1. PICK h \in [SUBSET S -> Int] : Sums(h, f, S)
  BY SumIs
<1>2. SumFunctionOnSet(f, S) = h[S] /\ h[S] \in Int
  BY <1>1 DEF Sums
<1>3. ASSUME \A y \in S : f[y] >= 0 PROVE h[S] >= 0
  <2> DEFINE D == {T \in SUBSET S : h[T] >= 0}
  <2>1. {} \in D
    BY <1>1 DEF Adds, Sums
  <2>2. ASSUME NEW T \in SUBSET S, NEW x \in S \ T, T \in D PROVE T \cup {x} \in D
    <3>1. (T \cup {x}) \ {x} = T /\ T \cup {x} \in SUBSET S /\ x \in T \cup {x}
      OBVIOUS
    <3>2. h[T \cup {x}] = f[x] + h[T]
      BY <1>1, <3>1 DEF Adds, Sums
    <3>3. h[T] >= 0 /\ h[T] \in Int /\ f[x] \in Int /\ f[x] >= 0
      BY <1>3, <2>2
    <3> QED BY <3>1, <3>2, <3>3
  <2>3. S \in D
    <3> HIDE DEF D
    <3> QED BY <2>1, <2>2, FiniteInduction
  <2> QED BY <2>3
<1> QED BY <1>2, <1>3

(* Terms k times as large have a sum k times as large: equal ones (k = 1)  *)
(* have the same, and none of worth (k = 0) none.                          *)
LEMMA SumScales ==
  ASSUME NEW S, IsFiniteSet(S), NEW f, \A y \in S : f[y] \in Int,
         NEW k \in Int, NEW g, \A y \in S : g[y] = k * f[y]
  PROVE  SumFunctionOnSet(g, S) = k * SumFunctionOnSet(f, S)
<1> DEFINE D == {T \in SUBSET S : SumFunctionOnSet(g, T) = k * SumFunctionOnSet(f, T)}
<1>1. {} \in D
  BY SumOfNone
<1>2. ASSUME NEW T \in SUBSET S, NEW x \in S \ T, T \in D PROVE T \cup {x} \in D
  <2>1. IsFiniteSet(T) /\ x \notin T
    BY FS_Subset
  <2>2. \A y \in T \cup {x} : f[y] \in Int /\ g[y] \in Int
    OBVIOUS
  <2>3. /\ SumFunctionOnSet(f, T) \in Int
        /\ SumFunctionOnSet(f, T \cup {x}) = SumFunctionOnSet(f, T) + f[x]
    BY <2>1, <2>2, SumAdd
  <2>4. SumFunctionOnSet(g, T \cup {x}) = SumFunctionOnSet(g, T) + g[x]
    BY <2>1, <2>2, SumAdd
  <2>5. k * (SumFunctionOnSet(f, T) + f[x]) = k * SumFunctionOnSet(f, T) + k * f[x]
    BY <2>2, <2>3
  <2> QED BY <1>2, <2>3, <2>4, <2>5
<1>3. S \in D
  <2> HIDE DEF D
  <2> QED BY <1>1, <1>2, FiniteInduction
<1> QED BY <1>3

LEMMA SumUnion ==
  ASSUME NEW S, IsFiniteSet(S), NEW R, IsFiniteSet(R), S \cap R = {},
         NEW f, \A y \in S \cup R : f[y] \in Int
  PROVE  SumFunctionOnSet(f, S \cup R) = SumFunctionOnSet(f, S) + SumFunctionOnSet(f, R)
<1> DEFINE D == {T \in SUBSET R : SumFunctionOnSet(f, S \cup T) = SumFunctionOnSet(f, S) + SumFunctionOnSet(f, T)}
<1>1. SumFunctionOnSet(f, S) \in Int
  BY SumType
<1>2. {} \in D
  <2>1. S \cup {} = S
    OBVIOUS
  <2> QED BY <1>1, <2>1, SumOfNone
<1>3. ASSUME NEW T \in SUBSET R, NEW x \in R \ T, T \in D PROVE T \cup {x} \in D
  <2>1. IsFiniteSet(T) /\ IsFiniteSet(S \cup T)
    BY FS_Subset, FS_Union
  <2>2. x \notin T /\ x \notin S \cup T /\ S \cup (T \cup {x}) = (S \cup T) \cup {x}
    OBVIOUS
  <2>3. /\ SumFunctionOnSet(f, T) \in Int
        /\ SumFunctionOnSet(f, T \cup {x}) = SumFunctionOnSet(f, T) + f[x]
    BY <2>1, <2>2, SumAdd
  <2>4. SumFunctionOnSet(f, (S \cup T) \cup {x}) = SumFunctionOnSet(f, S \cup T) + f[x]
    BY <2>1, <2>2, SumAdd
  <2>5. SumFunctionOnSet(f, S \cup T) = SumFunctionOnSet(f, S) + SumFunctionOnSet(f, T)
    BY <1>3
  <2>6. f[x] \in Int /\ SumFunctionOnSet(f, S \cup T) \in Int
    BY <2>4, <2>5, <2>3, <1>1
  <2> HIDE DEF D
  <2>7. SumFunctionOnSet(f, S \cup (T \cup {x})) = SumFunctionOnSet(f, S \cup T) + f[x]
    BY <2>2, <2>4, Zenon
  <2>8. SumFunctionOnSet(f, S \cup (T \cup {x})) = SumFunctionOnSet(f, S) + SumFunctionOnSet(f, T \cup {x})
    BY <1>1, <2>3, <2>5, <2>6, <2>7
  <2> QED BY <2>8 DEF D
<1>4. R \in D
  <2> HIDE DEF D
  <2> QED BY <1>2, <1>3, FiniteInduction
<1> QED BY <1>4

(* A finite set of integers has a greatest and a least member.             *)
LEMMA GreatestAndLeast ==
  ASSUME NEW S \in SUBSET Int, IsFiniteSet(S), S # {}
  PROVE  (\E m \in S : \A y \in S : m >= y) /\ (\E m \in S : \A y \in S : m <= y)
<1> DEFINE D == {T \in SUBSET S : T # {} => /\ \E m \in T : \A y \in T : m >= y
                                          /\ \E m \in T : \A y \in T : m <= y}
<1>1. {} \in D
  OBVIOUS
<1>2. ASSUME NEW T \in SUBSET S, NEW x \in S \ T, T \in D PROVE T \cup {x} \in D
  <2>1. CASE T = {}
    BY <2>1
  <2>2. CASE T # {}
    <3>1. PICK m \in T : \A y \in T : m >= y
      BY <1>2, <2>2
    <3>2. PICK l \in T : \A y \in T : l <= y
      BY <1>2, <2>2
    <3>3. \E k \in T \cup {x} : \A y \in T \cup {x} : k >= y
      <4>1. CASE x >= m
        BY <3>1, <4>1
      <4>2. CASE ~(x >= m)
        BY <3>1, <4>2
      <4> QED BY <4>1, <4>2
    <3>4. \E k \in T \cup {x} : \A y \in T \cup {x} : k <= y
      <4>1. CASE x <= l
        BY <3>2, <4>1
      <4>2. CASE ~(x <= l)
        BY <3>2, <4>2
      <4> QED BY <4>1, <4>2
    <3> QED BY <3>3, <3>4
  <2> QED BY <2>1, <2>2
<1>3. S \in D
  <2> HIDE DEF D
  <2> QED BY <1>1, <1>2, FiniteInduction
<1> QED BY <1>3

LEMMA SumSame ==
  ASSUME NEW S, IsFiniteSet(S), NEW f, \A y \in S : f[y] \in Int, NEW g, \A y \in S : g[y] = f[y]
  PROVE  SumFunctionOnSet(g, S) = SumFunctionOnSet(f, S)
<1>1. \A y \in S : g[y] = 1 * f[y]
  OBVIOUS
<1>2. SumFunctionOnSet(g, S) = 1 * SumFunctionOnSet(f, S)
  BY <1>1, SumScales
<1>3. SumFunctionOnSet(f, S) \in Int
  BY SumType
<1> QED BY <1>2, <1>3

LEMMA SumPositive ==
  ASSUME NEW S, IsFiniteSet(S), NEW f, \A y \in S : f[y] \in Int /\ f[y] > 0
  PROVE  SumFunctionOnSet(f, S) \in Nat /\ (S # {} => SumFunctionOnSet(f, S) > 0)
<1>1. SumFunctionOnSet(f, S) \in Int /\ SumFunctionOnSet(f, S) >= 0
  BY SumType
<1>2. ASSUME NEW x \in S PROVE SumFunctionOnSet(f, S) > 0
  <2> DEFINE R == S \ {x}
  <2>1. IsFiniteSet(R) /\ x \notin R /\ R \cup {x} = S /\ \A y \in R \cup {x} : f[y] \in Int
    BY FS_RemoveElement
  <2>2. \A y \in R : f[y] \in Int /\ f[y] >= 0
    OBVIOUS
  <2> HIDE DEF R
  <2>3. SumFunctionOnSet(f, R) \in Int /\ SumFunctionOnSet(f, R) >= 0
    BY <2>1, <2>2, SumType
  <2>4. SumFunctionOnSet(f, R \cup {x}) = SumFunctionOnSet(f, R) + f[x]
    BY <2>1, SumAdd
  <2> QED BY <2>1, <2>3, <2>4
<1> QED BY <1>1, <1>2

(* The members of S among V, counted one by one.                           *)
LEMMA CountIsSum ==
  ASSUME NEW V, IsFiniteSet(V), NEW A
  PROVE  Cardinality({i \in V : i \in A}) = SumFunctionOnSet([i \in V |-> IF i \in A THEN 1 ELSE 0], V)
<1> DEFINE f == [i \in V |-> IF i \in A THEN 1 ELSE 0]
           D == {T \in SUBSET V : Cardinality(T \cap A) = SumFunctionOnSet(f, T)}
<1>0. \A i \in V : f[i] \in Int /\ f[i] = IF i \in A THEN 1 ELSE 0
  OBVIOUS
<1> HIDE DEF f
<1>1. {} \in D
  <2>1. {} \cap A = {} /\ Cardinality({}) = 0
    BY FS_EmptySet
  <2> QED BY <2>1, SumOfNone
<1>2. ASSUME NEW T \in SUBSET V, NEW x \in V \ T, T \in D PROVE T \cup {x} \in D
  <2>1. IsFiniteSet(T) /\ x \notin T /\ \A y \in T \cup {x} : f[y] \in Int
    BY <1>0, FS_Subset
  <2>2. SumFunctionOnSet(f, T \cup {x}) = SumFunctionOnSet(f, T) + f[x] /\ SumFunctionOnSet(f, T) \in Int
    BY <2>1, SumAdd
  <2>3. IsFiniteSet(T \cap A)
    BY <2>1, FS_Intersection
  <2>4. CASE x \in A
    <3>1. (T \cup {x}) \cap A = (T \cap A) \cup {x} /\ x \notin T \cap A
      BY <2>4
    <3>2. Cardinality((T \cap A) \cup {x}) = Cardinality(T \cap A) + 1
      BY <2>3, <3>1, FS_AddElement
    <3>3. Cardinality((T \cup {x}) \cap A) = Cardinality(T \cap A) + 1
      BY <3>1, <3>2
    <3>4. SumFunctionOnSet(f, T \cup {x}) = Cardinality(T \cap A) + 1
      BY <1>0, <1>2, <2>2, <2>4
    <3>5. T \cup {x} \in SUBSET V
      OBVIOUS
    <3> QED BY <3>3, <3>4, <3>5
  <2>5. CASE x \notin A
    <3>1. (T \cup {x}) \cap A = T \cap A
      BY <2>5
    <3>2. Cardinality((T \cup {x}) \cap A) = Cardinality(T \cap A)
      BY <3>1
    <3>3. f[x] = 0 /\ Cardinality(T \cap A) = SumFunctionOnSet(f, T)
      BY <1>0, <1>2, <2>5
    <3>4. SumFunctionOnSet(f, T \cup {x}) = Cardinality(T \cap A)
      BY <2>2, <3>3
    <3>5. T \cup {x} \in SUBSET V
      OBVIOUS
    <3> QED BY <3>2, <3>4, <3>5
  <2> QED BY <2>4, <2>5
<1>3. V \in D
  <2> HIDE DEF D
  <2> QED BY <1>1, <1>2, FiniteInduction
<1>4. V \cap A = {i \in V : i \in A}
  OBVIOUS
<1> QED BY <1>3, <1>4 DEF f

(* Terms that are all the same                                             *)
LEMMA SumOfEqual ==
  ASSUME NEW S, IsFiniteSet(S), NEW k \in Int, NEW f, \A y \in S : f[y] = k
  PROVE  SumFunctionOnSet(f, S) = Cardinality(S) * k
<1> DEFINE one == [i \in S |-> IF i \in S THEN 1 ELSE 0]
<1>1. {i \in S : i \in S} = S
  OBVIOUS
<1>2. Cardinality(S) = SumFunctionOnSet(one, S)
  BY <1>1, CountIsSum
<1>3. \A y \in S : one[y] \in Int /\ f[y] = k * one[y]
  OBVIOUS
<1> HIDE DEF one
<1>4. SumFunctionOnSet(f, S) = k * SumFunctionOnSet(one, S)
  BY <1>3, SumScales
<1>5. SumFunctionOnSet(one, S) \in Int
  BY <1>3, SumType
<1> QED BY <1>2, <1>4, <1>5

(* A sum taken part by part                                                *)
LEMMA SumOfParts ==
  ASSUME NEW R, IsFiniteSet(R), NEW S, IsFiniteSet(S), NEW P \in [R -> SUBSET S],
         \A x, y \in R : x # y => P[x] \cap P[y] = {},
         NEW f, \A y \in S : f[y] \in Int,
         NEW g, \A x \in R : g[x] = SumFunctionOnSet(f, P[x])
  PROVE  SumFunctionOnSet(g, R) = SumFunctionOnSet(f, UNION {P[x] : x \in R})
<1> DEFINE D == {T \in SUBSET R : SumFunctionOnSet(g, T) = SumFunctionOnSet(f, UNION {P[x] : x \in T})}
<1>0. ASSUME NEW x \in R PROVE IsFiniteSet(P[x]) /\ g[x] \in Int
  <2>1. IsFiniteSet(P[x])
    BY FS_Subset
  <2> QED BY <2>1, SumType
<1>1. {} \in D
  <2>1. UNION {P[x] : x \in {}} = {}
    OBVIOUS
  <2> QED BY <2>1, SumOfNone
<1>2. ASSUME NEW T \in SUBSET R, NEW x \in R \ T, T \in D PROVE T \cup {x} \in D
  <2> DEFINE U == UNION {P[y] : y \in T}
  <2>1. U \cup P[x] = UNION {P[y] : y \in T \cup {x}} /\ U \in SUBSET S /\ U \cap P[x] = {}
    OBVIOUS
  <2> HIDE DEF U
  <2>2. IsFiniteSet(U) /\ IsFiniteSet(P[x]) /\ IsFiniteSet(T) /\ x \notin T
    BY <1>0, <2>1, FS_Subset
  <2>3. \A y \in U \cup P[x] : f[y] \in Int
    BY <2>1
  <2>4. SumFunctionOnSet(f, U \cup P[x]) = SumFunctionOnSet(f, U) + SumFunctionOnSet(f, P[x])
    BY <2>1, <2>2, <2>3, SumUnion
  <2>5. \A y \in T \cup {x} : g[y] \in Int
    BY <1>0
  <2>6. SumFunctionOnSet(g, T \cup {x}) = SumFunctionOnSet(g, T) + g[x]
    BY <2>2, <2>5, SumAdd
  <2>7. SumFunctionOnSet(g, T) = SumFunctionOnSet(f, U)
    BY <1>2 DEF U
  <2>8. g[x] = SumFunctionOnSet(f, P[x]) /\ T \cup {x} \in SUBSET R
    OBVIOUS
  <2> HIDE DEF D
  <2>9. SumFunctionOnSet(g, T \cup {x}) = SumFunctionOnSet(f, U \cup P[x])
    BY <2>4, <2>6, <2>7, <2>8
  <2>10. SumFunctionOnSet(g, T \cup {x}) = SumFunctionOnSet(f, UNION {P[y] : y \in T \cup {x}})
    BY <2>1, <2>9, Zenon
  <2> QED BY <2>8, <2>10 DEF D
<1>3. R \in D
  <2> HIDE DEF D
  <2> QED BY <1>1, <1>2, FiniteInduction
<1> QED BY <1>3

-----------------------------------------------------------------------------
(* Powers of two                                                           *)

LEMMA TwoNext ==
  ASSUME NEW n \in Nat PROVE 2^(n+1) = 2^n + 2^n
<1> DEFINE S == 1..n
           A == SUBSET S
           B == {T \cup {n+1} : T \in A}
           up == [T \in A |-> T \cup {n+1}]
<1>1. /\ IsFiniteSet(S) /\ Cardinality(S) = n
      /\ IsFiniteSet(1..n+1) /\ Cardinality(1..n+1) = n + 1
  <2>1. n + 1 \in Int /\ ~(1 > n + 1) /\ (n + 1) - 1 + 1 = n + 1
    OBVIOUS
  <2>2. IsFiniteSet(1..n+1) /\ Cardinality(1..n+1) = IF 1 > n + 1 THEN 0 ELSE (n + 1) - 1 + 1
    BY <2>1, FS_Interval
  <2>3. IsFiniteSet(S) /\ Cardinality(S) = IF 1 > n THEN 0 ELSE n - 1 + 1
    BY FS_Interval
  <2> QED BY <2>1, <2>2, <2>3
<1>2. IsFiniteSet(A) /\ Cardinality(A) = 2^n
  BY <1>1, FS_SUBSET
<1>3. up \in Bijection(A, B)
  <2>1. up \in [A -> B]
    OBVIOUS
  <2>2. ASSUME NEW T \in A, NEW U \in A, up[T] = up[U] PROVE T = U
    <3>1. n + 1 \notin T /\ n + 1 \notin U
      OBVIOUS
    <3> QED BY <2>2, <3>1
  <2>3. \A b \in B : \E T \in A : up[T] = b
    OBVIOUS
  <2> HIDE DEF up, A, B
  <2>4. up \in Injection(A, B)
    BY <2>1, <2>2 DEF Injection, IsInjective
  <2>5. up \in Surjection(A, B)
    BY <2>1, <2>3 DEF Surjection
  <2> QED BY <2>4, <2>5 DEF Bijection
<1>4. IsFiniteSet(B) /\ Cardinality(B) = Cardinality(A)
  <2>1. ExistsBijection(A, B)
    BY <1>3 DEF ExistsBijection
  <2> HIDE DEF A, B
  <2> QED BY <1>2, <2>1, FS_Bijection
<1>5. SUBSET (1..n+1) = A \cup B /\ A \cap B = {}
  <2>1. 1..n+1 = S \cup {n+1} /\ n+1 \notin S
    OBVIOUS
  <2>2. ASSUME NEW T \in SUBSET (1..n+1), n + 1 \in T PROVE T \in B
    <3>1. T \ {n+1} \in A /\ (T \ {n+1}) \cup {n+1} = T
      BY <2>1, <2>2
    <3> QED BY <3>1
  <2> QED BY <2>1, <2>2
<1>6. Cardinality(SUBSET (1..n+1)) = 2^(n+1)
  BY <1>1, FS_SUBSET
<1>7. Cardinality(A \cup B) = Cardinality(A) + Cardinality(B) - Cardinality(A \cap B)
  <2> HIDE DEF A, B
  <2> QED BY <1>2, <1>4, FS_Union
<1>8. Cardinality(A \cap B) = 0 /\ Cardinality(A) \in Nat
  <2> HIDE DEF A, B
  <2> QED BY <1>2, <1>5, FS_EmptySet, FS_CardinalityType
<1> HIDE DEF A, B
<1> QED BY <1>2, <1>4, <1>5, <1>6, <1>7, <1>8

LEMMA TwoType == \A n \in Nat : 2^n \in Nat /\ 2^n > 0
<1> DEFINE D == {n \in Nat : 2^n \in Nat /\ 2^n > 0}
<1>1. 0 \in D
  <2>1. 2^0 = 1
    OBVIOUS
  <2> QED BY <2>1
<1>2. ASSUME NEW n \in Nat, n \in D PROVE n + 1 \in D
  <2>1. 2^(n+1) = 2^n + 2^n
    BY TwoNext
  <2> QED BY <1>2, <2>1
<1>3. Nat \subseteq D
  <2> HIDE DEF D
  <2> QED BY <1>1, <1>2, SetInduction
<1> QED BY <1>3

LEMMA TwoSum ==
  ASSUME NEW m \in Nat PROVE \A n \in Nat : 2^(m+n) = 2^m * 2^n
<1> DEFINE D == {n \in Nat : 2^(m+n) = 2^m * 2^n}
<1>1. 0 \in D
  <2>1. 2^0 = 1 /\ m + 0 = m /\ 2^m \in Nat
    BY TwoType
  <2>2. 2^(m+0) = 2^m
    BY <2>1
  <2> QED BY <2>1, <2>2
<1>2. ASSUME NEW n \in Nat, n \in D PROVE n + 1 \in D
  <2>1. 2^(n+1) = 2^n + 2^n /\ 2^((m+n)+1) = 2^(m+n) + 2^(m+n)
    BY TwoNext
  <2>2. 2^m \in Nat /\ 2^n \in Nat /\ m + (n + 1) = (m + n) + 1
    BY TwoType
  <2>3. 2^m * (2^n + 2^n) = 2^m * 2^n + 2^m * 2^n
    BY <2>2
  <2>4. 2^(m + (n+1)) = 2^((m+n)+1)
    BY <2>2
  <2> QED BY <1>2, <2>1, <2>3, <2>4
<1>3. Nat \subseteq D
  <2> HIDE DEF D
  <2> QED BY <1>1, <1>2, SetInduction
<1> QED BY <1>3

-----------------------------------------------------------------------------
(* Division                                                                *)

LEMMA DivideBounds ==
  ASSUME NEW a \in Int, NEW b \in Nat \ {0}
  PROVE  a \div b \in Int /\ (a \div b) * b <= a /\ a < (a \div b) * b + b
  OBVIOUS

LEMMA DivideUnique ==
  ASSUME NEW a \in Int, NEW b \in Nat \ {0}, NEW q \in Int, q * b <= a, a < q * b + b
  PROVE  a \div b = q
  OBVIOUS

LEMMA DivideExact ==
  ASSUME NEW a \in Int, NEW b \in Nat \ {0} PROVE (a * b) \div b = a
  OBVIOUS

-----------------------------------------------------------------------------
(* The search                                                              *)

LEMMA PowersAre ==
  ASSUME NEW n \in Nat
  PROVE  /\ Powers(n) \in [0..n -> Nat \ {0}] /\ Powers(n)[0] = 1
         /\ \A k \in 1..n : Powers(n)[k] = 2 * Powers(n)[k-1]
         /\ \A k \in 0..n : k < Powers(n)[k]
<1> DEFINE N == Nat \ {0}
           step == [k \in 1..n |-> [v \in N |-> 2 * v]]
           Body(g) == [k \in 0..n |-> IF k = 0 THEN 1 ELSE 2 * g[k-1]]
           two == Powers(n)
<1>1. step \in [1..n -> [N -> N]] /\ 1 \in N
  OBVIOUS
<1>2. \E g : g = Body(g)
  <2> DEFINE one == 1
  <2>0. one \in N
    OBVIOUS
  <2>1. PICK g \in [0..n -> N] : Recursion(g, n, one, step)
    <3> HIDE DEF step, N, one
    <3> QED BY <1>1, <2>0, RecursionExists
  <2>2. \A k \in 1..n : step[k][g[k-1]] = 2 * g[k-1]
    <3>1. \A k \in 1..n : k - 1 \in 0..n
      OBVIOUS
    <3> QED BY <2>1, <3>1
  <2> HIDE DEF step
  <2>3. \A k \in 0..n : g[k] = IF k = 0 THEN 1 ELSE 2 * g[k-1]
    BY <2>1, <2>2 DEF Recursion
  <2>4. g = Body(g)
    BY <2>1, <2>3
  <2> QED BY <2>4
<1>3. two = CHOOSE g : g = Body(g)
  BY DEF Powers
<1> HIDE DEF two
<1>4. two = Body(two)
  <2> HIDE DEF Body
  <2> QED BY <1>2, <1>3
<1>5. two = [k \in 0..n |-> two[k]] /\ two[0] = 1 /\ \A k \in 1..n : two[k] = 2 * two[k-1]
  BY <1>4
<1>6. two \in [0..n -> N]
  <2> DEFINE one == 1
  <2>1. \A k \in 1..n : two[k-1] \in N => two[k] = step[k][two[k-1]]
    BY <1>5
  <2>2. one \in N /\ StepsWithin(two, n, N, one, step)
    <3>1. one \in N /\ two[0] = one
      BY <1>5
    <3> HIDE DEF step, N, one, Body
    <3> QED BY <2>1, <3>1 DEF StepsWithin
  <2>3. \A k \in 0..n : two[k] \in N
    <3> HIDE DEF step, N, Body, one
    <3> QED BY <1>1, <2>2, RecursionIs
  <2> QED BY <1>5, <2>3
<1>7. \A k \in 0..n : k < two[k]
  <2> DEFINE D == {k \in 0..n : k < two[k]}
  <2>1. 0 \in D
    BY <1>5
  <2>2. ASSUME NEW k \in 1..n, k - 1 \in D PROVE k \in D
    <3>1. two[k-1] \in Nat /\ k - 1 < two[k-1] /\ two[k] = 2 * two[k-1]
      BY <1>5, <1>6, <2>2
    <3> QED BY <3>1
  <2>3. \A k \in 0..n : k \in D
    <3> HIDE DEF D
    <3> QED BY <2>1, <2>2, IntervalInduction
  <2> QED BY <2>3
<1> QED BY <1>5, <1>6, <1>7 DEF two

LEMMA BitLengthIs ==
  ASSUME NEW n \in Nat
  PROVE  BitLength(n) \in 0..n /\ n < Powers(n)[BitLength(n)]
<1> DEFINE two == Powers(n)
           D == {b \in 0..n : n >= two[b]}
           E == {b \in 0..n : n < two[b] /\ (b > 0 => two[b-1] <= n)}
<1>1. two \in [0..n -> Nat \ {0}] /\ n < two[n] /\ two[0] = 1
  BY PowersAre
<1> HIDE DEF two
<1>2. E # {}
  <2>1. SUFFICES ASSUME E = {} PROVE FALSE
    OBVIOUS
  <2>2. 0 \in D
    BY <1>1, <2>1
  <2>3. ASSUME NEW k \in 1..n, k - 1 \in D PROVE k \in D
    <3>1. k \in 0..n /\ k - 1 \in 0..n /\ n >= two[k-1] /\ two[k] \in Nat /\ two[k-1] \in Nat
      BY <1>1, <2>3
    <3>2. ~(n < two[k])
      BY <2>1, <3>1
    <3> QED BY <3>1, <3>2
  <2>4. n \in D
    <3> HIDE DEF D
    <3> QED BY <2>2, <2>3, IntervalInduction
  <2> QED BY <1>1, <2>4
<1>3. BitLength(n) = CHOOSE b \in E : TRUE
  <2>1. BitLength(n) = CHOOSE b \in 0..n : n < two[b] /\ (b > 0 => two[b-1] <= n)
    BY DEF BitLength, two
  <2>2. PICK b \in 0..n : n < two[b] /\ (b > 0 => two[b-1] <= n)
    BY <1>2
  <2> QED BY <2>1, <2>2
<1> QED BY <1>2, <1>3 DEF two

(* What bisection knows of the requests before lo and of those from hi on  *)
Ranges == [lo : Nat, hi : Nat]

Bracket(starts, n, t, range) ==
  /\ range \in Ranges
  /\ 1 <= range.lo /\ range.hi <= n + 1
  /\ range.lo <= range.hi \/ (range.lo = n + 2 /\ range.hi = n + 1)
  /\ \A i \in 0..n : /\ i < range.lo => starts[i] <= t
                     /\ i >= range.hi => t < starts[i]

LEMMA BisectKeeps ==
  ASSUME NEW n \in Nat \ {0}, NEW starts, \A i \in 0..n : starts[i] \in Nat, Layout(starts, n),
         NEW t \in Nat, NEW range, Bracket(starts, n, t, range), NEW w \in Nat, range.hi - range.lo < 2 * w
  PROVE  LET next == Bisect(starts, n, t, range)
         IN  Bracket(starts, n, t, next) /\ next.hi - next.lo < w
<1> DEFINE lo == range.lo
           hi == range.hi
           mid == (lo + hi) \div 2
           next == Bisect(starts, n, t, range)
<1>1. /\ lo \in Nat /\ hi \in Nat /\ 1 <= lo /\ hi <= n + 1 /\ range = [lo |-> lo, hi |-> hi]
      /\ lo <= hi \/ (lo = n + 2 /\ hi = n + 1)
      /\ \A i \in 0..n : (i < lo => starts[i] <= t) /\ (i >= hi => t < starts[i])
  BY DEF Bracket, Ranges
<1>2. hi - lo < 2 * w
  OBVIOUS
<1>3. mid \in Nat /\ 2 * mid <= lo + hi /\ lo + hi < 2 * mid + 2
  BY <1>1
<1>4. next = IF (IF mid <= n THEN starts[mid] ELSE 0) <= t THEN [range EXCEPT !.lo = mid + 1]
                                                          ELSE [range EXCEPT !.hi = mid]
  BY DEF Bisect
<1> HIDE DEF lo, hi, mid, next
<1>5. \A i, j \in 0..n : i <= j => starts[i] <= starts[j]
  BY DEF Layout
<1>6. CASE (IF mid <= n THEN starts[mid] ELSE 0) <= t
  <2>1. next = [lo |-> mid + 1, hi |-> hi]
    BY <1>1, <1>4, <1>6
  <2>2. next \in Ranges /\ next.lo = mid + 1 /\ next.hi = hi
    BY <1>1, <1>3, <2>1 DEF Ranges
  <2>3. ASSUME NEW i \in 0..n, i < mid + 1 PROVE starts[i] <= t
    <3>1. CASE mid <= n
      <4>1. mid \in 0..n /\ i <= mid
        BY <1>3, <2>3, <3>1
      <4>2. starts[i] <= starts[mid] /\ starts[mid] <= t /\ starts[i] \in Nat /\ starts[mid] \in Nat
        BY <1>5, <1>6, <3>1, <4>1
      <4> QED BY <4>2
    <3>2. CASE ~(mid <= n)
      <4>1. i < lo
        BY <1>1, <1>3, <2>3, <3>2
      <4> QED BY <1>1, <4>1
    <3> QED BY <3>1, <3>2
  <2>4. (mid + 1 <= hi \/ (mid + 1 = n + 2 /\ hi = n + 1)) /\ hi - (mid + 1) < w /\ 1 <= mid + 1
    <3>1. CASE lo < hi
      BY <1>1, <1>2, <1>3, <3>1
    <3>2. CASE ~(lo < hi)
      <4>1. mid = hi
        BY <1>1, <1>3, <3>2
      <4>2. hi = n + 1
        <5>1. SUFFICES ASSUME hi <= n PROVE FALSE
          BY <1>1
        <5>2. hi \in 0..n /\ starts[hi] <= t /\ t < starts[hi] /\ starts[hi] \in Nat
          BY <1>1, <2>3, <4>1, <5>1
        <5> QED BY <5>2
      <4>3. ~(w = 0 /\ ~(hi - lo < 0)) /\ (hi - lo < 0 => hi - lo = -1)
        BY <1>1, <1>2, <3>2
      <4> QED BY <1>1, <1>2, <4>1, <4>2
    <3> QED BY <3>1, <3>2
  <2> QED BY <1>1, <2>2, <2>3, <2>4 DEF Bracket, next
<1>7. CASE ~((IF mid <= n THEN starts[mid] ELSE 0) <= t)
  <2>1. mid <= n /\ t < starts[mid] /\ mid \in 0..n
    BY <1>3, <1>7
  <2>2. next = [lo |-> lo, hi |-> mid]
    BY <1>1, <1>4, <1>7
  <2>3. next \in Ranges /\ next.lo = lo /\ next.hi = mid
    BY <1>1, <1>3, <2>2 DEF Ranges
  <2>4. ASSUME NEW i \in 0..n, i >= mid PROVE t < starts[i]
    <3>1. starts[mid] <= starts[i] /\ starts[i] \in Nat /\ starts[mid] \in Nat
      BY <1>5, <2>1, <2>4
    <3> QED BY <2>1, <3>1
  <2>5. lo <= mid /\ mid - lo < w
    <3>1. ~(mid < lo)
      <4>1. SUFFICES ASSUME mid < lo PROVE FALSE
        OBVIOUS
      <4>2. starts[mid] <= t /\ starts[mid] \in Nat
        BY <1>1, <2>1, <4>1
      <4> QED BY <2>1, <4>2
    <3> QED BY <1>1, <1>2, <1>3, <3>1
  <2> QED BY <1>1, <2>1, <2>3, <2>4, <2>5 DEF Bracket, next
<1> QED BY <1>6, <1>7

(* ple_ngram_ids and the convolution kernels, for every batch: the search  *)
(* ends at the request of the token after as many steps as the number of   *)
(* requests has bits, and at the last request for a token of padding.      *)
THEOREM FindsTheRequestHolds ==
  ASSUME NEW n \in Nat \ {0}, NEW starts, \A i \in 0..n : starts[i] \in Nat, Layout(starts, n),
         NEW t \in Nat
  PROVE  FindsTheRequest(starts, n, t)
<1> DEFINE b == BitLength(n)
           two == Powers(n)
           first == [lo |-> 1, hi |-> n + 1]
           Body(g) == [k \in 0..b |-> IF k = 0 THEN first ELSE Bisect(starts, n, t, g[k-1])]
           step == [k \in 1..b |-> [v \in Ranges |-> Bisect(starts, n, t, v)]]
           range == CHOOSE g : g = Body(g)
           last == range[b]
<1>1. /\ b \in Nat /\ b \in 0..n /\ n < two[b] /\ two[0] = 1
      /\ \A k \in 0..b : two[k] \in Nat
      /\ \A k \in 1..b : two[k] = 2 * two[k-1]
  <2>1. b \in 0..n /\ n < two[b]
    BY BitLengthIs
  <2>2. two \in [0..n -> Nat \ {0}] /\ two[0] = 1 /\ \A k \in 1..n : two[k] = 2 * two[k-1]
    BY PowersAre
  <2> HIDE DEF b, two
  <2> QED BY <2>1, <2>2, SMTT(60)
<1> HIDE DEF b, two
<1>2. range = Body(range)
  <2>1. first \in Ranges
    BY DEF Ranges
  <2>2. step \in [1..b -> [Ranges -> Ranges]]
    <3>1. ASSUME NEW v \in Ranges PROVE Bisect(starts, n, t, v) \in Ranges
      <4>1. v.lo \in Nat /\ v.hi \in Nat /\ v = [lo |-> v.lo, hi |-> v.hi]
        BY DEF Ranges
      <4>2. (v.lo + v.hi) \div 2 \in Nat
        BY <4>1
      <4> DEFINE mid == (v.lo + v.hi) \div 2
      <4>3. Bisect(starts, n, t, v) \in {[v EXCEPT !.lo = mid + 1], [v EXCEPT !.hi = mid]}
        BY DEF Bisect
      <4> HIDE DEF mid
      <4>4. mid \in Nat /\ mid + 1 \in Nat
        BY <4>2 DEF mid
      <4> QED BY <4>1, <4>3, <4>4 DEF Ranges
    <3> QED BY <3>1
  <2>3. PICK g \in [0..b -> Ranges] : Recursion(g, b, first, step)
    <3> HIDE DEF step, first
    <3> QED BY <1>1, <2>1, <2>2, RecursionExists
  <2>4. \A k \in 1..b : step[k][g[k-1]] = Bisect(starts, n, t, g[k-1])
    <3>1. \A k \in 1..b : k - 1 \in 0..b
      BY <1>1
    <3> QED BY <2>3, <3>1
  <2> HIDE DEF step
  <2>5. \A k \in 0..b : g[k] = IF k = 0 THEN first ELSE Bisect(starts, n, t, g[k-1])
    BY <1>1, <2>3, <2>4 DEF Recursion
  <2>6. g = Body(g)
    BY <2>3, <2>5
  <2> HIDE DEF Body
  <2> QED BY <2>6
<1> HIDE DEF range
<1>3. range[0] = first /\ \A k \in 1..b : range[k] = Bisect(starts, n, t, range[k-1])
  BY <1>1, <1>2
<1> DEFINE D == {k \in 0..b : Bracket(starts, n, t, range[k]) /\ range[k].hi - range[k].lo < two[b-k]}
<1>4. 0 \in D
  <2>1. Bracket(starts, n, t, first)
    <3>1. first \in Ranges
      BY DEF Ranges
    <3>2. starts[0] = 0
      BY DEF Layout
    <3> QED BY <3>1, <3>2 DEF Bracket
  <2>2. first.hi - first.lo < two[b-0]
    BY <1>1
  <2> QED BY <1>1, <1>3, <2>1, <2>2
<1>5. ASSUME NEW k \in 1..b, k - 1 \in D PROVE k \in D
  <2> DEFINE w == two[b - k]
  <2>1. w \in Nat /\ two[b - (k - 1)] = 2 * w
    <3>1. b - k \in 0..b /\ b - (k - 1) \in 1..b /\ (b - (k - 1)) - 1 = b - k
      BY <1>1
    <3> QED BY <1>1, <3>1
  <2>2. Bracket(starts, n, t, range[k-1]) /\ range[k-1].hi - range[k-1].lo < 2 * w
    BY <1>5, <2>1
  <2> DEFINE r == range[k-1]
             next == Bisect(starts, n, t, r)
  <2> HIDE DEF w
  <2>3. Bracket(starts, n, t, next) /\ next.hi - next.lo < w
    <3> HIDE DEF r
    <3>1. Bracket(starts, n, t, r) /\ r.hi - r.lo < 2 * w
      BY <2>2 DEF r
    <3> QED BY <2>1, <3>1, BisectKeeps
  <2>4. range[k] = next
    BY <1>3
  <2> QED BY <2>3, <2>4 DEF w
<1>6. b \in D
  <2>1. \A k \in 0..b : k \in D
    <3> HIDE DEF D
    <3> QED BY <1>1, <1>4, <1>5, IntervalInduction
  <2>2. b \in 0..b
    BY <1>1
  <2> QED BY <2>1, <2>2
<1>7. Bracket(starts, n, t, last) /\ last.hi - last.lo < 1
  BY <1>1, <1>6
<1> DEFINE i == IF last.lo - 1 < n - 1 THEN last.lo - 1 ELSE n - 1
<1>8. FindRequest(starts, n, BitLength(n), t) = i
  BY DEF FindRequest, b, range
<1> HIDE DEF last
<1> DEFINE lo == last.lo
           hi == last.hi
<1>9. /\ lo \in Nat /\ hi \in Nat /\ 1 <= lo /\ hi <= n + 1 /\ hi <= lo
      /\ \A j \in 0..n : (j < lo => starts[j] <= t) /\ (j >= hi => t < starts[j])
  BY <1>7 DEF Bracket, Ranges
<1>10. i = IF lo - 1 < n - 1 THEN lo - 1 ELSE n - 1
  OBVIOUS
<1> HIDE DEF lo, hi, i
<1>11. CASE t < starts[n]
  <2>1. lo <= n
    <3>1. SUFFICES ASSUME n < lo PROVE FALSE
      BY <1>9
    <3>2. n \in 0..n /\ starts[n] <= t /\ starts[n] \in Nat
      BY <1>9, <3>1
    <3> QED BY <1>11, <3>2
  <2>2. i = lo - 1 /\ i \in 0..n-1 /\ i \in 0..n /\ i + 1 \in 0..n /\ i + 1 = lo
    BY <1>9, <1>10, <2>1
  <2>3. starts[i] <= t /\ t < starts[i+1]
    BY <1>9, <2>2
  <2> QED BY <1>8, <1>11, <2>2, <2>3 DEF FindsTheRequest
<1>12. CASE ~(t < starts[n])
  <2>1. hi = n + 1
    <3>1. SUFFICES ASSUME hi <= n PROVE FALSE
      BY <1>9
    <3>2. n \in 0..n /\ t < starts[n]
      BY <1>9, <3>1
    <3> QED BY <1>12, <3>2
  <2>2. i = n - 1 /\ i \in 0..n-1
    BY <1>9, <1>10, <2>1
  <2> QED BY <1>8, <1>12, <2>2 DEF FindsTheRequest
<1> QED BY <1>11, <1>12
=============================================================================
