---------------------------- MODULE TokenSearch ----------------------------
(***************************************************************************)
(* The search both kernels of ops_ple.py use to find the request a token   *)
(* of the flattened batch belongs to: a fixed number of bisection steps    *)
(* over the query starts, so that every thread runs the same instructions. *)
(*                                                                         *)
(* starts[i] is the first token of request i for i in 0..n-1, and          *)
(* starts[n] the number of real tokens.                                    *)
(***************************************************************************)
EXTENDS Integers

Powers(n) == LET two[k \in 0..n] == IF k = 0 THEN 1 ELSE 2 * two[k-1] IN two

(* Seeded fault: one bisection step too few when n is a power of two.      *)
BitLengthBelow(n) ==
  IF n = 0 THEN 0 ELSE CHOOSE b \in 0..n : n <= Powers(n)[b] /\ (b > 0 => Powers(n)[b-1] < n)

(* int.bit_length(): the powers of two n is less than begin there.         *)
BitLength(n) == CHOOSE b \in 0..n : n < Powers(n)[b] /\ (b > 0 => Powers(n)[b-1] <= n)

(* One iteration: the load past the last request is masked to 0.           *)
Bisect(starts, n, t, range) ==
  LET mid  == (range.lo + range.hi) \div 2
      qmid == IF mid <= n THEN starts[mid] ELSE 0
  IN  IF qmid <= t THEN [range EXCEPT !.lo = mid + 1] ELSE [range EXCEPT !.hi = mid]

(* The request of token t after `iters` iterations.                        *)
FindRequest(starts, n, iters, t) ==
  LET range[k \in 0..iters] ==
        IF k = 0 THEN [lo |-> 1, hi |-> n + 1] ELSE Bisect(starts, n, t, range[k-1])
      lo == range[iters].lo
  IN  IF lo - 1 < n - 1 THEN lo - 1 ELSE n - 1

-----------------------------------------------------------------------------
(* Where requests begin: one after another, the empty ones too.            *)
Layout(starts, n) == starts[0] = 0 /\ \A i, j \in 0..n : i <= j => starts[i] <= starts[j]

(* The iterations the kernels run (num_reqs.bit_length()) are enough: the  *)
(* bisection ends at the one request that holds token t, and at the last   *)
(* request when t is padding, however many requests are empty.             *)
FindsTheRequest(starts, n, t) ==
  LET i == FindRequest(starts, n, BitLength(n), t)
  IN  /\ i \in 0..n-1
      /\ IF t < starts[n] THEN starts[i] <= t /\ t < starts[i+1] ELSE i = n - 1
=============================================================================
