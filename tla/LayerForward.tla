---------------------------- MODULE LayerForward ----------------------------
(***************************************************************************)
(* The forward of the target model over the stages of a pipeline.  A block *)
(* does not add its output to the streams: the output and its injection    *)
(* stay pending until the next hyper-connection combines them while it     *)
(* mixes its own input.  Three things need the streams complete earlier:   *)
(* the n-gram embedding, the image features, and the end of a stage.       *)
(*                                                                         *)
(* Hyper-connections are external.  The code combines with whichever of    *)
(* them is at hand, so Combine does not depend on the module it is called  *)
(* on.                                                                     *)
(***************************************************************************)
EXTENDS Naturals, Sequences

CONSTANTS
  Layers, Stages, MaxBatches,
  Embed(_), Plus(_, _), Combine(_, _, _), Ple(_, _), Block(_, _, _), Inject(_, _, _), Deep(_, _)

ASSUME LayerAssumption ==
  /\ Layers \in Nat \ {0} /\ Stages \in Nat \ {0} /\ MaxBatches \in Nat

VARIABLES
  ple,      \* layers with an n-gram embedding
  levels,   \* levels of image features the model adds
  first,    \* first[s] = first layer of stage s; the last stage ends at Layers
  batch, images,
  buffer,   \* deepstack_input_embeds: what pictures the buffer holds
  hidden,   \* hidden_states
  pending,  \* <<block_output, injection>>, or <<>> while both are None
  stage, layer, part,
  pc,       \* "idle", "run", "done" or "failed"
  kept      \* _mtp_hidden_buffer: the batch and the streams it ended with

plan == <<ple, levels, first>>
vars == <<ple, levels, first, batch, images, buffer, hidden, pending, stage, layer, part, pc, kept>>

-----------------------------------------------------------------------------
End(s)    == IF s = Stages THEN Layers ELSE first[s + 1]
LastStage == stage = Stages
OnePicture == {"none", "some"}

(* make_layers cuts the layers into consecutive runs, which may be empty.  *)
(* A stage that is not the first refuses to start below the levels.        *)
Init ==
  /\ ple \in SUBSET (0..Layers-1)
  /\ levels \in 0..Layers
  /\ first \in [1..Stages -> 0..Layers]
  /\ first[1] = 0
  /\ \A s \in 1..Stages-1 : first[s] <= first[s + 1]
  /\ \A s \in 2..Stages : first[s] >= levels
  /\ batch = 0 /\ images = "none" /\ buffer = "none"
  /\ hidden = Embed(0) /\ pending = <<>>
  /\ stage = 1 /\ layer = Layers /\ part = "ple"
  /\ pc = "idle" /\ kept = <<>>

(* The forward of the first stage begins: the embedding, once per stream,  *)
(* and nothing pending.                                                    *)
Enter(b) ==
  /\ hidden' = Embed(b)
  /\ pending' = <<>>
  /\ stage' = 1 /\ layer' = 0 /\ part' = "ple"

(* embed_input_ids of the first stage: pictures go into the buffer, a      *)
(* batch without them leaves it as it is.                                  *)
EmbedInputs(shown) ==
  /\ pc \in {"idle", "done"} /\ batch < MaxBatches
  /\ batch' = batch + 1
  /\ images' = shown
  /\ buffer' = IF shown = "none" \/ levels = 0 THEN buffer ELSE shown
  /\ Enter(batch')
  /\ pc' = "run"
  /\ UNCHANGED <<ple, levels, first, kept>>

(* The streams with what is pending                                        *)
Materialized == IF pending = <<>> THEN hidden ELSE Combine(hidden, pending[1], pending[2])

(* A layer of the plan has an n-gram embedding.                            *)
HasPle(l) == l \in ple

InStage == pc = "run" /\ layer < End(stage)

(* Seeded fault: the pending output is kept pending past the embedding.    *)
AfterPleLate ==
  /\ hidden' = Plus(hidden, Ple(layer, hidden))
  /\ UNCHANGED pending

AfterPle ==
  /\ hidden' = Plus(Materialized, Ple(layer, Materialized))
  /\ pending' = <<>>

(* Qwen4ExpDecoderLayer.forward, up to the n-gram embedding.  Its inputs   *)
(* may not have been prepared.                                             *)
RunPle(prepared) ==
  /\ InStage /\ part = "ple"
  /\ IF ~HasPle(layer) THEN part' = "attn" /\ UNCHANGED <<hidden, pending, pc>>
     ELSE IF prepared THEN AfterPle /\ part' = "attn" /\ UNCHANGED pc
     ELSE pc' = "failed" /\ UNCHANGED <<hidden, pending, part>>
  /\ UNCHANGED <<ple, levels, first, batch, images, buffer, stage, layer, kept>>

(* A hyper-connection combines what is pending and mixes; the block it     *)
(* feeds leaves its output pending.                                        *)
MixAndRun(p) ==
  /\ hidden' = Materialized
  /\ pending' = <<Block(layer, p, Materialized), Inject(layer, p, Materialized)>>

RunAttention ==
  /\ InStage /\ part = "attn"
  /\ MixAndRun("attn")
  /\ part' = "mlp"
  /\ UNCHANGED <<ple, levels, first, batch, images, buffer, stage, layer, pc, kept>>

RunMlp ==
  /\ InStage /\ part = "mlp"
  /\ MixAndRun("mlp")
  /\ part' = "deep"
  /\ UNCHANGED <<ple, levels, first, batch, images, buffer, stage, layer, pc, kept>>

AfterDeep ==
  /\ hidden' = Plus(Materialized, Deep(layer, buffer))
  /\ pending' = <<>>

(* Seeded fault: features are taken as given behind every layer.           *)
LeavesFeaturesAlways == TRUE

(* There are features for the layer: only the first stage is given any.    *)
LeavesFeatures == stage = 1 /\ layer < levels

(* Qwen4ExpModel.forward behind a layer.                                   *)
LeaveLayer ==
  /\ InStage /\ part = "deep"
  /\ IF LeavesFeatures THEN AfterDeep ELSE UNCHANGED <<hidden, pending>>
  /\ layer' = layer + 1
  /\ part' = "ple"
  /\ UNCHANGED <<ple, levels, first, batch, images, buffer, stage, pc, kept>>

(* _clear_deepstack_input_embeds, on the first stage                       *)
Cleared == IF stage = 1 THEN "none" ELSE buffer

(* The one tensor a stage sends to the next.                               *)
Sent == IF first[stage] < End(stage) THEN Materialized ELSE hidden

SendOn ==
  /\ pc = "run" /\ layer = End(stage) /\ ~LastStage
  /\ hidden' = Sent
  /\ pending' = <<>>
  /\ stage' = stage + 1
  /\ buffer' = Cleared
  /\ UNCHANGED <<ple, levels, first, batch, images, layer, part, pc, kept>>

(* The final mixer combines what is pending, and cannot without it.  The   *)
(* streams it read are kept for the draft model.                           *)
Finish ==
  /\ pc = "run" /\ layer = End(stage) /\ LastStage
  /\ IF pending = <<>>
     THEN pc' = "failed" /\ UNCHANGED <<kept, buffer>>
     ELSE /\ kept' = <<batch, Materialized>>
          /\ pc' = "done"
          /\ buffer' = Cleared
  /\ UNCHANGED <<ple, levels, first, batch, images, hidden, pending, stage, layer, part>>

Next ==
  \/ \E shown \in OnePicture : EmbedInputs(shown)
  \/ \E prepared \in BOOLEAN : RunPle(prepared)
  \/ RunAttention
  \/ RunMlp
  \/ LeaveLayer
  \/ SendOn
  \/ Finish

Spec == Init /\ [][Next]_vars

-----------------------------------------------------------------------------
(* Whatever is still pending, the streams are those of the layers that     *)
(* add each output at once: every output enters once, with its own         *)
(* injection, before the next part reads, whichever layers have an n-gram  *)
(* embedding, wherever the pipeline is cut, and a batch is shown its own   *)
(* pictures only.                                                          *)
Stream == INSTANCE ResidualStream WITH x <- Materialized, result <- kept

StreamSpec == Stream!Spec

(* Where the last stage has a layer and the levels end below the last      *)
(* layer, the final mixer always has an output to combine.                 *)
MixerHasItsInput ==
  pc = "run" /\ LastStage /\ layer = Layers /\ levels < Layers /\ first[Stages] < Layers
    => pending # <<>>

=============================================================================
