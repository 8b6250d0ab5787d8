----------------------------- MODULE MCShortConv -----------------------------
(* Two instances of ShortConv, one after the other over the same           *)
(* variables, with three taps, two apart.                                  *)
(*   two: two requests in a batch, in every mix of spec, decode, prefill.  *)
(*   one: one request at a time, its slot reused, four steps with two      *)
(*        drafts each.                                                     *)
(* What is said of outputs and windows depends on no bound the instances   *)
(* differ in.                                                              *)
EXTENDS ShortConv, TLC

VARIABLE scope

One == INSTANCE ShortConv WITH Slots <- {"only"}, NumSpec <- 2, MaxChunk <- 5, MaxPad <- 0, MaxSteps <- 4

ASSUME ScopeAssumption == ConvAssumption /\ One!ConvAssumption

InitScope ==
  \/ scope = "two" /\ Init
  \/ scope = "one" /\ One!Init

NextScope ==
  /\ scope' = scope
  /\ \/ scope = "two" /\ Next
     \/ scope = "one" /\ One!Next

(* A slot is told from another by who owns it only.                        *)
SlotsAlike == Permutations(Slots)

SpecScope == InitScope /\ [][NextScope]_<<vars, scope>>
=============================================================================
