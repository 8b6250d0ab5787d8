---------------------------- MODULE MCAlgorithms ----------------------------
(* The algorithms over inputs few enough for TLC.                          *)
EXTENDS Algorithms

ASSUME AlgorithmsAreAskedSensibly == AlgorithmsAssumption

MCTokens  == {-1, 0, 2, 5, 9}
MCFactors == {1, 45, 127, -77}

(* The sizes the heads of the second layer get of a small table            *)
MCHeadRows == Hash!HeadSizes(5, Hash!Heads, 1)
=============================================================================
