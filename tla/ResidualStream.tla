--------------------------- MODULE ResidualStream ---------------------------
(***************************************************************************)
(* What the layers of the target model promise of a batch: the state x of  *)
(* the residual streams takes every part of every layer in turn, each part *)
(* reading the state that has all the parts before it.                     *)
(*                                                                         *)
(* What a part computes is left open.                                      *)
(***************************************************************************)
EXTENDS Naturals

CONSTANTS
  Layers,            \* number of decoder layers
  Embed(_),          \* streams of a batch before the first layer
  Plus(_, _),        \* the state and something added to all of it
  Combine(_, _, _),  \* the state, the output of a block and its injection
  Ple(_, _),         \* layer, state -> output of the n-gram embedding
  Block(_, _, _),    \* layer, part, state -> output of attention or MLP
  Inject(_, _, _),   \* layer, part, state -> how it enters the streams
  Deep(_, _)         \* layer, images -> features added behind the layer

VARIABLES
  batch,   \* the batch in the model, 0 before the first
  images,  \* what pictures the batch shows
  ple,     \* layers with an n-gram embedding
  levels,  \* layers behind which image features are added
  x,       \* the state of the streams
  layer,   \* the layer that is next
  part,    \* its part that is next
  result   \* what the last batch that came through has delivered

vars == <<batch, images, ple, levels, x, layer, part, result>>

Init ==
  /\ batch = 0 /\ layer = Layers /\ part = "ple" /\ result = <<>>

Begin(shown) ==
  /\ layer = Layers
  /\ batch' = batch + 1
  /\ images' = shown
  /\ x' = Embed(batch')
  /\ layer' = 0
  /\ UNCHANGED <<ple, levels, part, result>>

AddPle ==
  /\ layer < Layers /\ part = "ple"
  /\ x' = IF layer \in ple THEN Plus(x, Ple(layer, x)) ELSE x
  /\ part' = "attn"
  /\ UNCHANGED <<batch, images, ple, levels, layer, result>>

AddBlock(p, after) ==
  /\ layer < Layers /\ part = p
  /\ x' = Combine(x, Block(layer, p, x), Inject(layer, p, x))
  /\ part' = after
  /\ UNCHANGED <<batch, images, ple, levels, layer, result>>

AddDeep ==
  /\ layer < Layers /\ part = "deep"
  /\ x' = IF layer < levels THEN Plus(x, Deep(layer, images)) ELSE x
  /\ layer' = layer + 1
  /\ part' = "ple"
  /\ UNCHANGED <<batch, images, ple, levels, result>>

Deliver ==
  /\ layer = Layers /\ batch > 0
  /\ result' = <<batch, x>>
  /\ UNCHANGED <<batch, images, ple, levels, x, layer, part>>

Next ==
  \/ \E shown \in {"none", "some"} : Begin(shown)
  \/ AddPle
  \/ AddBlock("attn", "mlp")
  \/ AddBlock("mlp", "deep")
  \/ AddDeep
  \/ Deliver

Spec == Init /\ [][Next]_vars
=============================================================================
