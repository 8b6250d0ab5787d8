----------------------------- MODULE MCNgramIds -----------------------------
(* Two instances of NgramIds, one after the other over the same variables. *)
(*   two: two requests in a batch, padded by a request and a token.        *)
(*   one: a request index, chunked, decoded with two drafts, and reused.   *)
(* Token 0 is EOS; three tokens make an n-gram.  What is said of n-grams   *)
(* depends on neither bound the instances differ in.                       *)
EXTENDS NgramIds

VARIABLE scope

One == INSTANCE NgramIds WITH MaxReqs <- 1, NumSpec <- 2, MaxLen <- 5, MaxPrompt <- 4, MaxPad <- 0

ASSUME ScopeAssumption == NgramAssumption /\ One!NgramAssumption

InitScope ==
  \/ scope = "two" /\ Init
  \/ scope = "one" /\ One!Init

NextScope ==
  /\ scope' = scope
  /\ \/ scope = "two" /\ Next
     \/ scope = "one" /\ One!Next

SpecScope == InitScope /\ [][NextScope]_<<vars, scope>>
=============================================================================
