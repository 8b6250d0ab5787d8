--------------------------- MODULE Forward_proofs ---------------------------
(***************************************************************************)
(* A forward, whatever its configuration, its buffers and the steps it     *)
(* runs.                                                                   *)
(*                                                                         *)
(* Keeping the output of a block pending until the next hyper-connection   *)
(* needs it changes nothing: the forward implements the residual streams   *)
(* that take every output at once, for every number of layers, every cut   *)
(* of the pipeline and every plan of embeddings and image features.        *)
(*                                                                         *)
(* In its sparse attention rows read what the index selected for them, a   *)
(* query finds its KV head, draft steps reuse the selection of their own   *)
(* request, pooled keys are of their own group's tokens, and what the      *)
(* split kernel and its merge put out is the softmax over the selection.   *)
(***************************************************************************)
EXTENDS LayerForward, SparseForward, TokenSearch_proofs

-----------------------------------------------------------------------------
(* The plan of the layers and the cut of the pipeline.                     *)
PlanInv ==
  /\ levels \in 0..Layers
  /\ first \in [1..Stages -> 0..Layers] /\ first[1] = 0
  /\ \A s \in 1..Stages-1 : first[s] <= first[s + 1]
  /\ \A s \in 2..Stages : first[s] >= levels

(* Where the forward is: in its stage, with nothing pending at the start   *)
(* of the stage, and between layers at the end of it.                      *)
PlaceInv ==
  /\ stage \in 1..Stages /\ layer \in 0..Layers /\ batch \in Nat
  /\ pc \in {"idle", "run", "done", "failed"}
  /\ pc = "run" => /\ batch > 0
                   /\ first[stage] <= layer /\ layer <= End(stage)
                   /\ layer = first[stage] /\ part = "ple" => pending = <<>>
  /\ part # "ple" => pc = "run" /\ layer < End(stage)
  /\ pc \in {"idle", "done"} => layer = Layers

(* The buffer has the pictures of this batch while the first stage runs,   *)
(* and none in between.                                                    *)
BufferInv ==
  /\ pc \in {"idle", "done"} => buffer = "none"
  /\ pc = "run" /\ stage = 1 /\ levels > 0 => buffer = images
  /\ pc = "run" /\ (stage > 1 \/ levels = 0) => buffer = "none"

IInv == PlanInv /\ PlaceInv /\ BufferInv

-----------------------------------------------------------------------------
LEMMA ConstTypes == Layers \in Nat /\ Layers > 0 /\ Stages \in Nat /\ Stages > 0
  BY LayerAssumption

LEMMA EndBounds ==
  ASSUME PlanInv, NEW s \in 1..Stages
  PROVE  /\ End(s) \in 0..Layers /\ first[s] \in 0..Layers /\ first[s] <= End(s)
         /\ s # Stages => s + 1 \in 1..Stages /\ s \in 1..Stages-1 /\ End(s) = first[s + 1]
<1>1. first[s] \in 0..Layers
  BY DEF PlanInv
<1>2. CASE s = Stages
  BY <1>1, <1>2, ConstTypes DEF End
<1>3. CASE s # Stages
  <2>1. s + 1 \in 1..Stages /\ s \in 1..Stages-1
    BY <1>3, ConstTypes
  <2>2. first[s + 1] \in 0..Layers /\ first[s] <= first[s + 1]
    BY <2>1 DEF PlanInv
  <2> QED BY <1>1, <1>3, <2>1, <2>2 DEF End
<1> QED BY <1>2, <1>3

THEOREM InitIInv == Init => IInv
<1> SUFFICES ASSUME Init PROVE IInv
  OBVIOUS
<1>1. PlanInv
  BY DEF Init, PlanInv
<1>2. PlaceInv
  BY ConstTypes DEF Init, PlaceInv
<1>3. BufferInv
  BY DEF Init, BufferInv
<1> QED BY <1>1, <1>2, <1>3 DEF IInv

-----------------------------------------------------------------------------
(* The invariant, action by action.                                        *)

LEMMA PlanStep ==
  ASSUME PlanInv, [Next]_vars
  PROVE  PlanInv'
  BY DEF PlanInv, Next, vars, EmbedInputs, RunPle, RunAttention, RunMlp, LeaveLayer, SendOn, Finish

LEMMA EmbedStep ==
  ASSUME IInv, NEW shown \in OnePicture, EmbedInputs(shown)
  PROVE  PlaceInv' /\ BufferInv'
<1>1. PlaceInv'
  <2>1. 1 \in 1..Stages /\ 0 \in 0..Layers
    BY ConstTypes
  <2>2. End(1) \in 0..Layers /\ End(1)' = End(1)
    BY <2>1, EndBounds DEF IInv, EmbedInputs, End
  <2>3. first[1] = 0 /\ first' = first
    BY DEF IInv, PlanInv, EmbedInputs
  <2> QED BY <2>1, <2>2, <2>3 DEF IInv, PlaceInv, EmbedInputs, Enter
<1>2. BufferInv'
  BY DEF IInv, BufferInv, PlanInv, EmbedInputs, Enter, OnePicture
<1> QED BY <1>1, <1>2

LEMMA RunPleStep ==
  ASSUME IInv, NEW prepared \in BOOLEAN, RunPle(prepared)
  PROVE  PlaceInv' /\ BufferInv'
<1>1. End(stage)' = End(stage)
  BY DEF RunPle, End
<1>2. PlaceInv'
  BY <1>1 DEF IInv, PlaceInv, RunPle, InStage, AfterPle
<1>3. BufferInv'
  BY DEF IInv, BufferInv, RunPle, InStage
<1> QED BY <1>2, <1>3

LEMMA MixStep ==
  ASSUME IInv, RunAttention \/ RunMlp
  PROVE  PlaceInv' /\ BufferInv'
<1>1. End(stage)' = End(stage)
  BY DEF RunAttention, RunMlp, End
<1>2. PlaceInv'
  <2>1. part' # "ple" /\ pc' = "run" /\ layer < End(stage)
    BY DEF RunAttention, RunMlp, InStage
  <2>2. UNCHANGED <<stage, layer, batch, pc, first>>
    BY DEF RunAttention, RunMlp
  <2> QED BY <1>1, <2>1, <2>2 DEF IInv, PlaceInv
<1>3. BufferInv'
  BY DEF IInv, BufferInv, RunAttention, RunMlp, InStage
<1> QED BY <1>2, <1>3

LEMMA LeaveStep ==
  ASSUME IInv, LeaveLayer
  PROVE  PlaceInv' /\ BufferInv'
<1>1. End(stage)' = End(stage) /\ first' = first /\ stage' = stage
  BY DEF LeaveLayer, End
<1>2. End(stage) \in 0..Layers /\ first[stage] \in 0..Layers
  BY EndBounds DEF IInv, PlaceInv
<1>3. PlaceInv'
  <2>1. /\ layer \in Nat /\ layer < End(stage) /\ first[stage] <= layer /\ stage \in 1..Stages
        /\ pc = "run" /\ batch \in Nat /\ batch > 0
    BY ConstTypes DEF IInv, PlaceInv, LeaveLayer, InStage
  <2>2. layer' = layer + 1 /\ part' = "ple" /\ pc' = pc /\ batch' = batch
    BY DEF LeaveLayer
  <2>3. layer' \in 0..Layers /\ layer' <= End(stage) /\ layer' > first[stage]
    BY <1>2, <2>1, <2>2, ConstTypes
  <2>4. first[stage] <= layer' /\ layer' # first[stage]
    BY <1>2, <2>3
  <2> QED BY <1>1, <2>1, <2>2, <2>3, <2>4 DEF PlaceInv
<1>4. BufferInv'
  BY DEF IInv, BufferInv, LeaveLayer, InStage
<1> QED BY <1>3, <1>4

LEMMA SendStep ==
  ASSUME IInv, SendOn
  PROVE  PlaceInv' /\ BufferInv'
<1>1. stage \in 1..Stages /\ stage # Stages
  BY DEF IInv, PlaceInv, SendOn, LastStage
<1>2. stage + 1 \in 1..Stages /\ End(stage) = first[stage + 1]
  BY <1>1, EndBounds DEF IInv
<1>3. first[stage + 1] <= End(stage + 1) /\ End(stage + 1) \in 0..Layers
  BY <1>2, EndBounds DEF IInv
<1>4. End(stage)' = End(stage + 1)
  BY DEF SendOn, End
<1>5. PlaceInv'
  BY <1>1, <1>2, <1>3, <1>4 DEF IInv, PlaceInv, SendOn
<1>6. BufferInv'
  BY <1>1 DEF IInv, PlaceInv, BufferInv, SendOn, Cleared
<1> QED BY <1>5, <1>6

LEMMA FinishStep ==
  ASSUME IInv, Finish
  PROVE  PlaceInv' /\ BufferInv'
<1>1. End(stage) = Layers
  BY DEF Finish, LastStage, End
<1>2. PlaceInv'
  BY <1>1 DEF IInv, PlaceInv, Finish, End
<1>3. BufferInv'
  BY DEF IInv, PlaceInv, BufferInv, Finish, Cleared
<1> QED BY <1>2, <1>3

THEOREM StepIInv == IInv /\ [Next]_vars => IInv'
<1> SUFFICES ASSUME IInv, [Next]_vars PROVE IInv'
  OBVIOUS
<1>1. PlanInv'
  BY PlanStep DEF IInv
<1>2. ASSUME NEW shown \in OnePicture, EmbedInputs(shown) PROVE PlaceInv' /\ BufferInv'
  BY <1>2, EmbedStep
<1>3. ASSUME NEW prepared \in BOOLEAN, RunPle(prepared) PROVE PlaceInv' /\ BufferInv'
  BY <1>3, RunPleStep
<1>4. CASE RunAttention \/ RunMlp
  BY <1>1, <1>4, MixStep DEF IInv
<1>5. CASE LeaveLayer
  BY <1>1, <1>5, LeaveStep DEF IInv
<1>6. CASE SendOn
  BY <1>1, <1>6, SendStep DEF IInv
<1>7. CASE Finish
  BY <1>1, <1>7, FinishStep DEF IInv
<1>8. CASE UNCHANGED vars
  BY <1>1, <1>8 DEF vars, IInv, PlaceInv, BufferInv, End
<1> QED BY <1>1, <1>2, <1>3, <1>4, <1>5, <1>6, <1>7, <1>8 DEF Next, IInv

-----------------------------------------------------------------------------
(* The refinement                                                          *)

LEMMA NotEmpty == ASSUME NEW a, NEW b PROVE <<a, b>> # <<>>
  BY SMT

LEMMA BeginRefined ==
  ASSUME IInv, NEW shown \in OnePicture, EmbedInputs(shown)
  PROVE  Stream!Begin(shown)
<1>1. Materialized' = Embed(batch + 1)
  BY DEF EmbedInputs, Enter, Materialized
<1>2. layer = Layers /\ part = "ple"
  BY DEF IInv, PlaceInv, EmbedInputs
<1> QED BY <1>1, <1>2 DEF EmbedInputs, Enter, Stream!Begin

LEMMA PleRefined ==
  ASSUME IInv, NEW prepared \in BOOLEAN, RunPle(prepared)
  PROVE  Stream!AddPle \/ UNCHANGED Stream!vars
<1>1. layer < Layers
  BY EndBounds, ConstTypes DEF IInv, PlaceInv, RunPle, InStage
<1>2. CASE ~HasPle(layer)
  <2>1. Materialized' = Materialized
    BY <1>2 DEF RunPle, Materialized
  <2> QED BY <1>1, <1>2, <2>1 DEF RunPle, HasPle, Stream!AddPle
<1>3. CASE HasPle(layer) /\ prepared
  <2>1. Materialized' = Plus(Materialized, Ple(layer, Materialized))
    BY <1>3 DEF RunPle, AfterPle, Materialized
  <2> QED BY <1>1, <1>3, <2>1 DEF RunPle, HasPle, Stream!AddPle
<1>4. CASE HasPle(layer) /\ ~prepared
  <2>1. Materialized' = Materialized
    BY <1>4 DEF RunPle, Materialized
  <2> QED BY <1>4, <2>1 DEF RunPle, Stream!vars
<1> QED BY <1>2, <1>3, <1>4

LEMMA MixAdds ==
  ASSUME NEW p, MixAndRun(p), UNCHANGED layer
  PROVE  Materialized' = Combine(Materialized, Block(layer, p, Materialized), Inject(layer, p, Materialized))
<1> DEFINE o == Block(layer, p, Materialized)
           i == Inject(layer, p, Materialized)
<1>1. hidden' = Materialized /\ pending' = <<o, i>>
  BY DEF MixAndRun
<1>2. pending' # <<>> /\ pending'[1] = o /\ pending'[2] = i
  <2> HIDE DEF o, i
  <2> QED BY <1>1, NotEmpty
<1>3. Materialized' = Combine(hidden', pending'[1], pending'[2])
  BY <1>2 DEF Materialized
<1> QED BY <1>1, <1>2, <1>3

LEMMA MixRefined ==
  ASSUME IInv, RunAttention \/ RunMlp
  PROVE  Stream!AddBlock("attn", "mlp") \/ Stream!AddBlock("mlp", "deep")
<1>1. layer < Layers
  BY EndBounds, ConstTypes DEF IInv, PlaceInv, RunAttention, RunMlp, InStage
<1>2. CASE RunAttention
  <2>1. MixAndRun("attn") /\ UNCHANGED layer
    BY <1>2 DEF RunAttention
  <2> QED BY <1>1, <1>2, <2>1, MixAdds DEF RunAttention, Stream!AddBlock
<1>3. CASE RunMlp
  <2>1. MixAndRun("mlp") /\ UNCHANGED layer
    BY <1>3 DEF RunMlp
  <2> QED BY <1>1, <1>3, <2>1, MixAdds DEF RunMlp, Stream!AddBlock
<1> QED BY <1>2, <1>3

LEMMA DeepRefined ==
  ASSUME IInv, LeaveLayer
  PROVE  Stream!AddDeep
<1>1. layer < Layers
  BY EndBounds, ConstTypes DEF IInv, PlaceInv, LeaveLayer, InStage
<1>2. stage \in 1..Stages /\ layer \in 0..Layers /\ levels \in 0..Layers /\ pc = "run"
  BY DEF IInv, PlaceInv, PlanInv, LeaveLayer, InStage
<1>3. CASE LeavesFeatures
  <2>1. buffer = images /\ layer < levels
    BY <1>2, <1>3 DEF IInv, BufferInv, LeavesFeatures
  <2>2. Materialized' = Plus(Materialized, Deep(layer, images))
    BY <1>3, <2>1 DEF LeaveLayer, AfterDeep, Materialized
  <2> QED BY <1>1, <2>1, <2>2 DEF LeaveLayer, Stream!AddDeep
<1>4. CASE ~LeavesFeatures
  <2>1. ~(layer < levels)
    <3> SUFFICES ASSUME layer < levels PROVE FALSE
      OBVIOUS
    <3>1. stage \in 2..Stages
      BY <1>2, <1>4, ConstTypes DEF LeavesFeatures
    <3>2. first[stage] >= levels /\ first[stage] <= layer /\ first[stage] \in 0..Layers
      BY <1>2, <3>1 DEF IInv, PlanInv, PlaceInv
    <3> QED BY <1>2, <3>2
  <2>2. Materialized' = Materialized
    BY <1>4 DEF LeaveLayer, Materialized
  <2> QED BY <1>1, <2>1, <2>2, <1>4 DEF LeaveLayer, Stream!AddDeep
<1> QED BY <1>3, <1>4

LEMMA SendRefined ==
  ASSUME IInv, SendOn
  PROVE  UNCHANGED Stream!vars
<1>1. Materialized' = Sent
  BY DEF SendOn, Materialized
<1>2. Sent = Materialized
  <2>1. CASE first[stage] < End(stage)
    BY <2>1 DEF Sent
  <2>2. CASE ~(first[stage] < End(stage))
    <3>1. layer = first[stage] /\ part = "ple"
      BY <2>2, EndBounds DEF IInv, PlaceInv, SendOn
    <3>2. pending = <<>>
      BY <3>1 DEF IInv, PlaceInv, SendOn
    <3> QED BY <2>2, <3>2 DEF Sent, Materialized
  <2> QED BY <2>1, <2>2
<1> QED BY <1>1, <1>2 DEF SendOn, Stream!vars

LEMMA FinishRefined ==
  ASSUME IInv, Finish
  PROVE  Stream!Deliver \/ UNCHANGED Stream!vars
<1>1. layer = Layers /\ batch > 0
  BY DEF IInv, PlaceInv, Finish, LastStage, End
<1>2. Materialized' = Materialized
  BY DEF Finish, Materialized
<1>3. CASE pending = <<>>
  BY <1>2, <1>3 DEF Finish, Stream!vars
<1>4. CASE pending # <<>>
  BY <1>1, <1>2, <1>4 DEF Finish, Stream!Deliver
<1> QED BY <1>3, <1>4

LEMMA StepRefined == IInv /\ [Next]_vars => [Stream!Next]_(Stream!vars)
<1> SUFFICES ASSUME IInv, [Next]_vars PROVE [Stream!Next]_(Stream!vars)
  OBVIOUS
<1>1. ASSUME NEW shown \in OnePicture, EmbedInputs(shown) PROVE Stream!Next
  <2>1. Stream!Begin(shown)
    BY <1>1, BeginRefined
  <2>2. shown \in {"none", "some"}
    BY DEF OnePicture
  <2> QED BY <2>1, <2>2 DEF Stream!Next
<1>2. ASSUME NEW prepared \in BOOLEAN, RunPle(prepared) PROVE [Stream!Next]_(Stream!vars)
  BY <1>2, PleRefined DEF Stream!Next
<1>3. CASE RunAttention \/ RunMlp
  BY <1>3, MixRefined DEF Stream!Next
<1>4. CASE LeaveLayer
  BY <1>4, DeepRefined DEF Stream!Next
<1>5. CASE SendOn
  BY <1>5, SendRefined
<1>6. CASE Finish
  BY <1>6, FinishRefined DEF Stream!Next
<1>7. CASE UNCHANGED vars
  BY <1>7 DEF vars, plan, Stream!vars, Materialized
<1> QED BY <1>1, <1>2, <1>3, <1>4, <1>5, <1>6, <1>7 DEF Next

(* The forward of the target model implements the residual streams: every  *)
(* output enters once, with its own injection, before the next part reads. *)
THEOREM ForwardImplementsStreams == Spec => StreamSpec
<1>1. Init => IInv
  BY InitIInv
<1>2. IInv /\ [Next]_vars => IInv'
  BY StepIInv
<1>3. Init => Stream!Init
  BY DEF Init, Stream!Init
<1>4. IInv /\ [Next]_vars => [Stream!Next]_(Stream!vars)
  BY StepRefined
<1> QED BY <1>1, <1>2, <1>3, <1>4, PTL DEF Spec, StreamSpec, Stream!Spec

-----------------------------------------------------------------------------
(* The final mixer                                                         *)

(* From the first block of a layer to its end an output is pending, and    *)
(* past the layers with image features it stays.                           *)
PendingInv ==
  /\ part \in {"mlp", "deep"} => pending # <<>>
  /\ MixerHasItsInput

LEMMA PendingStep ==
  ASSUME IInv, IInv', PendingInv, Next
  PROVE  PendingInv'
<1>1. ASSUME NEW shown \in OnePicture, EmbedInputs(shown) PROVE PendingInv'
  BY <1>1, ConstTypes DEF EmbedInputs, Enter, PendingInv, MixerHasItsInput
<1>2. ASSUME NEW prepared \in BOOLEAN, RunPle(prepared) PROVE PendingInv'
  <2>1. layer < Layers /\ layer' = layer /\ part' \in {"ple", "attn"}
    BY <1>2, EndBounds, ConstTypes DEF IInv, PlaceInv, RunPle, InStage
  <2> QED BY <2>1, ConstTypes DEF PendingInv, MixerHasItsInput, IInv, PlaceInv
<1>3. CASE RunAttention \/ RunMlp
  <2>1. layer < Layers /\ layer' = layer
    BY <1>3, EndBounds, ConstTypes DEF IInv, PlaceInv, RunAttention, RunMlp, InStage
  <2>2. pending' # <<>>
    BY <1>3, NotEmpty DEF RunAttention, RunMlp, MixAndRun
  <2> QED BY <2>2 DEF PendingInv, MixerHasItsInput
<1>4. CASE LeaveLayer
  <2>1. part' = "ple" /\ layer' = layer + 1 /\ UNCHANGED <<levels, first, stage, pc>> /\ part = "deep"
    BY <1>4 DEF LeaveLayer
  <2>2. layer \in Nat /\ levels \in Nat
    BY ConstTypes DEF IInv, PlaceInv, PlanInv
  <2>3. layer + 1 = Layers /\ levels < Layers => ~LeavesFeatures
    BY <2>2, ConstTypes DEF LeavesFeatures
  <2>4. ~LeavesFeatures => pending' = pending
    BY <1>4 DEF LeaveLayer
  <2>5. pending # <<>>
    BY <2>1 DEF PendingInv
  <2> QED BY <2>1, <2>3, <2>4, <2>5 DEF PendingInv, MixerHasItsInput
<1>5. CASE SendOn
  <2>1. stage \in 1..Stages /\ stage # Stages /\ layer = End(stage) /\ stage' = stage + 1
    BY <1>5 DEF IInv, PlaceInv, SendOn, LastStage
  <2>2. layer' = first'[stage']
    BY <2>1, <1>5, EndBounds DEF IInv, SendOn
  <2>3. part' = "ple"
    BY <1>5 DEF IInv, PlaceInv, SendOn
  <2>4. LastStage' /\ layer' = Layers => ~(first[Stages] < Layers)'
    BY <2>2, ConstTypes DEF LastStage
  <2> QED BY <2>3, <2>4 DEF PendingInv, MixerHasItsInput
<1>6. CASE Finish
  BY <1>6 DEF Finish, PendingInv, MixerHasItsInput, LastStage
<1> QED BY <1>1, <1>2, <1>3, <1>4, <1>5, <1>6 DEF Next

(* Where the last stage has a layer and the levels end below the last      *)
(* layer, the final mixer has an output to combine.                        *)
THEOREM MixerHasItsInputHolds == Spec => []MixerHasItsInput
<1>1. Init => IInv
  BY InitIInv
<1>2. IInv /\ [Next]_vars => IInv'
  BY StepIInv
<1>3. Init => PendingInv
  BY DEF Init, PendingInv, MixerHasItsInput
<1>4. IInv /\ IInv' /\ PendingInv /\ [Next]_vars => PendingInv'
  <2> SUFFICES ASSUME IInv, IInv', PendingInv, UNCHANGED vars PROVE PendingInv'
    BY PendingStep
  <2> QED BY DEF vars, plan, PendingInv, MixerHasItsInput, LastStage
<1>5. PendingInv => MixerHasItsInput
  BY DEF PendingInv
<1> QED BY <1>1, <1>2, <1>3, <1>4, <1>5, PTL DEF Spec

-----------------------------------------------------------------------------
(* Division, for divisors the provers know nothing of                      *)

LEMMA QuotientBounds ==
  ASSUME NEW n \in Nat, NEW d \in Nat \ {0}
  PROVE  /\ n \div d \in Nat /\ d * (n \div d) <= n /\ n < d * (n \div d) + d
         /\ n % d \in 0..d-1 /\ n = d * (n \div d) + (n % d)
  BY SMT

LEMMA Divisible ==
  ASSUME NEW n \in Nat, NEW d \in Nat \ {0}, n % d = 0
  PROVE  n \div d \in Nat /\ n = d * (n \div d)
<1>1. n \div d \in Nat /\ n = d * (n \div d) + 0
  BY QuotientBounds
<1>2. d * (n \div d) \in Nat
  BY <1>1
<1> QED BY <1>1, <1>2

LEMMA ProductMonotone ==
  ASSUME NEW a \in Int, NEW b \in Int, NEW p \in Nat, a <= b
  PROVE  p * a <= p * b
  BY SMT

LEMMA FactorCancels ==
  ASSUME NEW p \in Nat \ {0}, NEW a \in Nat, NEW b \in Nat, p * a = p * b
  PROVE  a = b
<1>1. ASSUME NEW x \in Nat, NEW y \in Nat, x < y PROVE p * x < p * y
  <2>1. p * (x + 1) <= p * y
    BY <1>1, ProductMonotone
  <2>2. p * (x + 1) = p * x + p /\ p * x \in Nat /\ p * y \in Nat
    BY SMT
  <2> QED BY <2>1, <2>2
<1>2. p * a \in Nat
  BY SMT
<1> QED BY <1>1, <1>2

LEMMA QuotientUnique ==
  ASSUME NEW d \in Nat \ {0}, NEW c \in Nat, NEW r \in 0..d-1
  PROVE  (d * c + r) \div d = c
<1> DEFINE n == d * c + r
           q == n \div d
<1>1. n \in Nat /\ n >= d * c /\ n < d * c + d
  <2>1. d * c \in Nat BY SMT
  <2> QED BY <2>1
<1>2. q \in Nat /\ d * q <= n /\ n < d * q + d
  BY <1>1, QuotientBounds
<1>3. d * c \in Nat /\ d * q \in Nat
  BY <1>2, SMT
<1>4. d * (c + 1) = d * c + d /\ d * (q + 1) = d * q + d
  BY <1>2, SMT
<1> HIDE DEF n, q
<1>5. ~(c + 1 <= q)
  <2>1. SUFFICES ASSUME c + 1 <= q PROVE FALSE OBVIOUS
  <2>2. d * (c + 1) <= d * q BY <2>1, <1>2, ProductMonotone
  <2> QED BY <2>2, <1>1, <1>2, <1>3, <1>4
<1>6. ~(q + 1 <= c)
  <2>1. SUFFICES ASSUME q + 1 <= c PROVE FALSE OBVIOUS
  <2>2. d * (q + 1) <= d * c BY <2>1, <1>2, ProductMonotone
  <2> QED BY <2>2, <1>1, <1>2, <1>3, <1>4
<1>7. q = c
  BY <1>2, <1>5, <1>6
<1> QED BY <1>7 DEF q, n
-----------------------------------------------------------------------------
(* One of the parts runs, by steps of its own.                             *)
LEMMA StepOfOne ==
  ASSUME [NextSparse]_sparseVars
  PROVE  /\ UNCHANGED scope
         /\ scope = "kernel" => [Kernel!Next]_(Kernel!vars)
         /\ scope = "drafts" => [Draft!Next]_(Draft!vars)
         /\ scope = "layer"  => [Layer!Next]_(Layer!vars)
         /\ scope = "index"  => [Index!Next]_(Index!vars)
<1>1. CASE UNCHANGED sparseVars
  BY <1>1 DEF sparseVars, draftVars, layerVars, indexVars, kernelVars, Draft!vars, Layer!vars, Index!vars, Kernel!vars
<1>2. CASE NextSparse
  BY <1>2 DEF NextSparse, draftVars, layerVars, indexVars, kernelVars, Draft!vars, Layer!vars, Index!vars, Kernel!vars
<1> QED BY <1>1, <1>2
-----------------------------------------------------------------------------
(* QsaLayer: heads                                                         *)

LEMMA MaxOfOne == ASSUME NEW n \in Nat PROVE Layer!Max({1, n}) = IF n = 0 THEN 1 ELSE n
<1>1. \E x \in {1, n} : \A y \in {1, n} : x >= y
  BY SMT
<1>2. Layer!Max({1, n}) \in {1, n} /\ \A y \in {1, n} : Layer!Max({1, n}) >= y
  BY <1>1 DEF Layer!Max
<1> QED BY <1>2

(* A layer that is not refused deals queries and KV heads out alike: g     *)
(* queries to a KV head, and a KV heads to a rank or b ranks to a KV head. *)
LEMMA HeadsAreDealt ==
  ASSUME Layer!LayerAssumption, config \in LayerConfigs, Layer!HeadsFit, config.heads % config.kv = 0
  PROVE  Layer!QueriesFindTheirHead
<1> DEFINE h == config.heads
           k == config.kv
           t == config.tp
           g == h \div k
           H == h \div t
<1>1. h \in Nat \ {0} /\ k \in Nat \ {0} /\ t \in Nat \ {0}
  BY DEF Layer!LayerAssumption
<1>2. g \in Nat /\ h = k * g /\ H \in Nat /\ h = t * H
  <2>1. h % k = 0 /\ h % t = 0
    BY DEF Layer!HeadsFit
  <2> HIDE DEF h, k, t
  <2> QED BY <1>1, <2>1, Divisible
<1>3. Layer!Heads = H
  BY DEF Layer!Heads
<1>4. k \div t \in Nat /\ Layer!KvHeads = IF k \div t = 0 THEN 1 ELSE k \div t
  BY <1>1, QuotientBounds, MaxOfOne DEF Layer!KvHeads
<1>5. SUFFICES ASSUME NEW rank \in 0..t-1, NEW q \in 0..H-1
      PROVE  LET whole == (rank * H + q) \div g
                 kv    == IF k >= t THEN rank * Layer!KvHeads ELSE rank \div (t \div k)
             IN  H % Layer!KvHeads = 0 /\ kv + (q \div (H \div Layer!KvHeads)) = whole
  BY <1>3 DEF Layer!QueriesFindTheirHead
<1>6. (k >= t => k % t = 0) /\ (k < t => t % k = 0)
  BY <1>1 DEF Layer!HeadsFit
<1> HIDE DEF h, k, t, g, H
<1>7. H \in Nat \ {0}
  BY <1>5, <1>2
<1>8. g \in Nat \ {0}
  <2>1. k * 0 = 0 BY <1>1
  <2> QED BY <1>1, <1>2, <2>1
<1>9. CASE k >= t
  <2> DEFINE a == k \div t
  <2>1. a \in Nat /\ k = t * a
    BY <1>1, <1>6, <1>9, Divisible
  <2>2. a # 0
    <3>1. t * 0 = 0 BY <1>1
    <3> QED BY <1>1, <2>1, <3>1
  <2>3. Layer!KvHeads = a
    BY <1>4, <2>2
  <2> HIDE DEF a
  <2>4. H = a * g
    <3>1. t * H = t * (a * g)
      BY <1>1, <1>2, <2>1, SMT
    <3>2. a * g \in Nat
      BY <1>2, <2>1, SMT
    <3> QED BY <3>1, <3>2, <1>1, <1>2, FactorCancels
  <2>5. H \div a = g
    <3>1. (a * g + 0) \div a = g
      BY <1>2, <2>1, <2>2, QuotientUnique
    <3>2. a * g + 0 = a * g
      BY <1>2, <2>1, SMT
    <3> QED BY <3>1, <3>2, <2>4
  <2>6. H % a = 0
    <3>1. H = a * (H \div a) + (H % a) /\ H % a \in 0..a-1
      BY <1>2, <2>1, <2>2, QuotientBounds
    <3>2. H = H + (H % a)
      BY <3>1, <2>4, <2>5
    <3> QED BY <3>1, <3>2, <1>2, <2>1
  <2>7. (rank * H + q) \div g = rank * a + (q \div g)
    <3> DEFINE c == q \div g
               r == q % g
    <3>1. q \in Nat
      BY <1>7
    <3>2. c \in Nat /\ r \in 0..g-1 /\ q = g * c + r
      BY <3>1, <1>8, QuotientBounds
    <3>3. rank \in Nat /\ rank * a \in Nat
      BY <1>1, <2>1, SMT
    <3> HIDE DEF c, r
    <3>4. rank * H + q = g * (rank * a + c) + r
      BY <2>4, <1>8, <2>1, <3>1, <3>2, <3>3, SMT
    <3>5. (g * (rank * a + c) + r) \div g = rank * a + c
      BY <3>2, <3>3, <1>8, QuotientUnique
    <3> QED BY <3>4, <3>5 DEF c
  <2> QED BY <1>9, <2>3, <2>5, <2>6, <2>7
<1>10. CASE k < t
  <2> DEFINE b == t \div k
  <2>1. b \in Nat /\ t = k * b
    BY <1>1, <1>6, <1>10, Divisible
  <2>2. b # 0
    <3>1. k * 0 = 0 BY <1>1
    <3> QED BY <1>1, <2>1, <3>1
  <2>3. Layer!KvHeads = 1
    <3>1. (t * 0 + k) \div t = 0
      BY <1>1, <1>10, QuotientUnique
    <3>2. t * 0 + k = k
      BY <1>1
    <3> QED BY <3>1, <3>2, <1>4
  <2> HIDE DEF b
  <2>4. g = b * H
    <3>1. k * g = k * (b * H)
      BY <1>1, <1>2, <2>1, SMT
    <3>2. b * H \in Nat
      BY <1>2, <2>1, SMT
    <3> QED BY <3>1, <3>2, <1>1, <1>2, FactorCancels
  <2>5. H \div 1 = H /\ H % 1 = 0
    BY <1>7
  <2>6. q \div H = 0
    <3>1. (H * 0 + q) \div H = 0
      BY <1>7, QuotientUnique
    <3>2. H * 0 + q = q
      BY <1>7
    <3> QED BY <3>1, <3>2
  <2>7. (rank * H + q) \div g = rank \div b
    <3> DEFINE c == rank \div b
               d == rank % b
    <3>1. rank \in Nat
      BY <1>1
    <3>2. c \in Nat /\ d \in 0..b-1 /\ rank = b * c + d
      BY <3>1, <2>1, <2>2, QuotientBounds
    <3> HIDE DEF c, d
    <3>3. d * H + q \in 0..g-1
      <4>1. H * d <= H * (b - 1)
        BY <3>2, <2>1, <1>7, ProductMonotone
      <4>2. H * (b - 1) = g - H /\ H * d = d * H /\ d * H \in Nat
        BY <2>4, <2>1, <1>7, <3>2, SMT
      <4> QED BY <4>1, <4>2, <1>7, <1>8
    <3>4. rank * H + q = g * c + (d * H + q)
      BY <2>4, <3>2, <2>1, <1>7, SMT
    <3>5. (g * c + (d * H + q)) \div g = c
      BY <3>2, <3>3, <1>8, QuotientUnique
    <3> QED BY <3>4, <3>5 DEF c
  <2>8. rank \div b \in Nat
    BY <2>1, <2>2, <1>1, QuotientBounds
  <2>9. ~(k >= t) /\ t \div k = b
    BY <1>1, <1>10 DEF b
  <2> QED BY <2>3, <2>5, <2>6, <2>7, <2>8, <2>9
<1> QED BY <1>9, <1>10, <1>1
-----------------------------------------------------------------------------
(* QsaLayer: what rows read                                                *)

(* The cells of the tokens there are hold them, in the format of the       *)
(* layer, on pages the buffer has.                                         *)
CellsHoldTokens(b, n) ==
  /\ b = [addr |-> b.addr, pages |-> b.pages, cells |-> b.cells]
  /\ b.addr \in Addresses /\ b.pages \in {1, Pages}
  /\ n <= b.pages * PageSize
  /\ DOMAIN b.cells = 0..b.pages * PageSize - 1
  /\ \A t \in 0..n-1 : b.cells[t] = [token |-> t, format |-> Layer!ReadAs(impl.path)]

(* Views that are kept have an address that was handed out, and where that *)
(* is the buffer's they are its views: addresses are handed out once.      *)
ViewsAreKept ==
  /\ views = Layer!None \/ views.addr \in handedOut
  /\ state = "bound" /\ views.addr = bound.addr => views.pages = bound.pages

LayerInv ==
  /\ config \in LayerConfigs
  /\ handedOut \subseteq Addresses
  /\ state \in {"new", "refused", "built", "bound"}
  /\ state \in {"built", "bound"} => Layer!Accepted /\ impl = Layer!ImplOf(config.dtype)
  /\ state \in {"new", "refused"} => impl = Layer!Plain
  /\ tokens \in Nat
  /\ state = "bound" => bound.addr \in handedOut /\ CellsHoldTokens(bound, tokens)
  /\ state # "bound" => selected = <<>>
  /\ ViewsAreKept
  /\ Layer!RowsReadTheirSelection
  /\ Layer!ViewsAreOfTheBuffer

LEMMA FormatIsRead == ASSUME NEW dtype PROVE Layer!Format(dtype) = Layer!ReadAs(Layer!ImplOf(dtype).path)
  BY DEF Layer!Format, Layer!ReadAs, Layer!ImplOf

LEMMA InitLayer == ASSUME Layer!LayerAssumption, Layer!Init PROVE LayerInv
  BY DEF LayerInv, Layer!Init, Layer!LayerAssumption, ViewsAreKept, Layer!RowsReadTheirSelection,
         Layer!ViewsAreOfTheBuffer, Layer!Plain, Layer!None, Layer!NoBuffer

LEMMA BuildKeeps == ASSUME LayerInv, Layer!Build PROVE LayerInv'
<1>1. /\ UNCHANGED <<config, bound, handedOut, views, tokens, selected, read>>
      /\ state = "new"
      /\ \/ state' = "refused" /\ impl' = impl
         \/ state' = "built" /\ Layer!Accepted /\ impl' = Layer!ImplOf(config.dtype)
  BY DEF Layer!Build
<1>2. Layer!Accepted' <=> Layer!Accepted
  BY <1>1 DEF Layer!Accepted, Layer!HeadsFit
<1>3. ViewsAreKept'
  BY <1>1 DEF LayerInv, ViewsAreKept
<1>4. selected = <<>> /\ \A i \in DOMAIN read : read[i] = {}
  BY <1>1 DEF LayerInv, Layer!RowsReadTheirSelection
<1>5. Layer!RowsReadTheirSelection' /\ Layer!ViewsAreOfTheBuffer'
  BY <1>1, <1>4 DEF Layer!RowsReadTheirSelection, Layer!ViewsAreOfTheBuffer
<1>6. Layer!ImplOf(config.dtype)' = Layer!ImplOf(config.dtype)
  BY <1>1 DEF Layer!ImplOf
<1> QED
  BY <1>1, <1>2, <1>3, <1>5, <1>6 DEF LayerInv

LEMMA BindKeeps == ASSUME Layer!LayerAssumption, LayerInv, Layer!Bind PROVE LayerInv'
<1>1. PICK addr \in Addresses \ handedOut, pages \in {1, Pages} :
        /\ bound' = [addr |-> addr, pages |-> pages,
                      cells |-> [t \in 0..pages*PageSize-1 |-> [token |-> -1, format |-> "none"]]]
        /\ handedOut' = handedOut \union {addr}
  BY DEF Layer!Bind
<1>2. /\ state \in {"built", "bound"} /\ state' = "bound" /\ tokens' = 0 /\ selected' = <<>> /\ read' = <<>>
      /\ UNCHANGED <<config, impl, views>>
  BY DEF Layer!Bind
<1>3. CellsHoldTokens(bound, tokens)'
  <2>1. pages * PageSize \in Nat
    BY DEF Layer!LayerAssumption
  <2> QED BY <1>1, <1>2, <2>1 DEF CellsHoldTokens
<1>4. ViewsAreKept'
  <2>1. views.addr # addr
    BY DEF LayerInv, ViewsAreKept, Layer!LayerAssumption, Layer!None
  <2> QED BY <1>1, <1>2, <2>1 DEF LayerInv, ViewsAreKept, Layer!None
<1>5. Layer!Accepted' /\ (impl = Layer!ImplOf(config.dtype))'
  BY <1>2 DEF LayerInv, Layer!Accepted, Layer!HeadsFit, Layer!ImplOf
<1>6. Layer!RowsReadTheirSelection' /\ Layer!ViewsAreOfTheBuffer'
  BY <1>2 DEF Layer!RowsReadTheirSelection, Layer!ViewsAreOfTheBuffer
<1> QED
  BY <1>1, <1>2, <1>3, <1>4, <1>5, <1>6 DEF LayerInv

LEMMA RunQsaKeeps == ASSUME Layer!LayerAssumption, LayerInv, Layer!RunQsa PROVE LayerInv'
<1>0. PICK n \in 0..StepRows, pad \in 0..Pad : \E picked \in [1..n -> SUBSET (0..tokens+n-1)] :
        /\ tokens + n <= bound.pages * PageSize
        /\ \A i \in 1..n : picked[i] \subseteq 0..tokens+i-1
        /\ bound' = [bound EXCEPT !.cells = Layer!Updated(@, n)]
        /\ selected' = picked
        /\ read' = [i \in 1..n+pad |->
             IF i <= n THEN Layer!Attended(Layer!ReadFrom(bound.cells, n), picked[i]) ELSE {}]
        /\ views' = IF n = 0 THEN views ELSE Layer!ViewsFor(bound)
        /\ tokens' = tokens + n
  BY DEF Layer!RunQsa
<1>1. PICK picked \in [1..n -> SUBSET (0..tokens+n-1)] :
        /\ tokens + n <= bound.pages * PageSize
        /\ \A i \in 1..n : picked[i] \subseteq 0..tokens+i-1
        /\ bound' = [bound EXCEPT !.cells = Layer!Updated(@, n)]
        /\ selected' = picked
        /\ read' = [i \in 1..n+pad |->
             IF i <= n THEN Layer!Attended(Layer!ReadFrom(bound.cells, n), picked[i]) ELSE {}]
        /\ views' = IF n = 0 THEN views ELSE Layer!ViewsFor(bound)
        /\ tokens' = tokens + n
  BY <1>0
<1>2. state = "bound" /\ UNCHANGED <<config, state, impl, handedOut>>
  BY DEF Layer!RunQsa
<1>3. n \in Nat /\ pad \in Nat /\ tokens \in Nat /\ PageSize \in Nat \ {0} /\ bound.pages \in Nat \ {0}
  BY <1>2 DEF Layer!LayerAssumption, LayerInv, CellsHoldTokens
<1> DEFINE cells == Layer!Updated(bound.cells, n)
<1>4. bound' = [addr |-> bound.addr, pages |-> bound.pages, cells |-> cells]
  BY <1>1, <1>2 DEF LayerInv, CellsHoldTokens
<1>5. /\ DOMAIN cells = 0..bound.pages * PageSize - 1
      /\ \A t \in 0..tokens+n-1 : cells[t] = [token |-> t, format |-> Layer!ReadAs(impl.path)]
  <2>1. DOMAIN cells = DOMAIN bound.cells
    BY DEF Layer!Updated
  <2>2. DOMAIN bound.cells = 0..bound.pages * PageSize - 1
    BY <1>2 DEF LayerInv, CellsHoldTokens
  <2>3. Layer!Format(impl.dtype) = Layer!ReadAs(impl.path)
    <3>1. impl = Layer!ImplOf(config.dtype) BY <1>2 DEF LayerInv
    <3>2. impl.dtype = config.dtype BY <3>1 DEF Layer!ImplOf
    <3> QED BY <3>1, <3>2, FormatIsRead
  <2>4. \A t \in 0..tokens-1 : bound.cells[t] = [token |-> t, format |-> Layer!ReadAs(impl.path)]
    BY <1>2 DEF LayerInv, CellsHoldTokens
  <2>5. bound.pages * PageSize \in Nat
    BY <1>3
  <2>6. ASSUME NEW t \in 0..tokens+n-1
        PROVE  cells[t] = [token |-> t, format |-> Layer!ReadAs(impl.path)]
    <3>1. t \in DOMAIN bound.cells
      BY <1>1, <1>3, <2>2, <2>5, SMTT(60)
    <3>2. cells[t] = IF t \in tokens..tokens+n-1
                     THEN [token |-> t, format |-> Layer!Format(impl.dtype)] ELSE bound.cells[t]
      BY <3>1 DEF Layer!Updated
    <3>3. CASE t \in tokens..tokens+n-1 BY <3>2, <3>3, <2>3
    <3>4. CASE t \notin tokens..tokens+n-1
      <4>1. t \in 0..tokens-1 BY <3>4, <1>3
      <4> QED BY <3>2, <3>4, <4>1, <2>4
    <3> QED BY <3>3, <3>4
  <2> QED BY <2>1, <2>2, <2>6
<1> HIDE DEF cells
<1>6. CellsHoldTokens(bound, tokens)'
  <2>1. bound.addr \in Addresses /\ bound.pages \in {1, Pages}
    BY <1>2 DEF LayerInv, CellsHoldTokens
  <2>2. Layer!ReadAs(impl.path)' = Layer!ReadAs(impl.path)
    BY <1>2 DEF Layer!ReadAs
  <2>3. /\ bound'.addr = bound.addr /\ bound'.pages = bound.pages /\ bound'.cells = cells
    BY <1>4
  <2>4. tokens' = tokens + n /\ tokens + n <= bound.pages * PageSize
    BY <1>1
  <2>5. bound' = [addr |-> bound'.addr, pages |-> bound'.pages, cells |-> bound'.cells]
    BY <1>4, <2>3
  <2>6. \A t \in 0..tokens'-1 : bound'.cells[t] = [token |-> t, format |-> Layer!ReadAs(impl.path)']
    <3>1. tokens' - 1 = tokens + n - 1
      BY <1>3, <2>4
    <3>2. bound'.cells = cells
      BY <2>3
    <3> QED BY <1>5, <2>2, <3>1, <3>2
  <2>7. DOMAIN bound'.cells = 0..bound'.pages * PageSize - 1
    BY <1>5, <2>3
  <2> QED BY <2>1, <2>3, <2>4, <2>5, <2>6, <2>7 DEF CellsHoldTokens
<1>7. Layer!PagesSeen(bound) = bound.pages
  BY <1>2 DEF Layer!PagesSeen, Layer!ViewsFor, LayerInv, ViewsAreKept
<1>8. ViewsAreKept' /\ (impl.path = "nvfp4" /\ n # 0 => views'.pages = bound.pages)
  <2>1. bound'.addr = bound.addr /\ bound'.pages = bound.pages /\ bound.addr \in handedOut
    BY <1>2, <1>4 DEF LayerInv
  <2>2. CASE views' = views
    <3>1. views' = Layer!ViewsFor(bound) \/ n = 0
      BY <1>1
    <3>2. impl.path = "nvfp4" /\ n # 0 => views.pages = bound.pages
      BY <2>2, <3>1, <1>2, <1>7 DEF Layer!PagesSeen, Layer!ViewsFor, LayerInv, ViewsAreKept
    <3> QED BY <1>2, <2>1, <2>2, <3>2 DEF LayerInv, ViewsAreKept, Layer!None
  <2>3. CASE views' = [addr |-> bound.addr, pages |-> bound.pages]
    BY <1>2, <2>1, <2>3 DEF ViewsAreKept
  <2> QED BY <2>2, <2>3, <1>1 DEF Layer!ViewsFor
<1>9. ASSUME NEW i \in 1..n
      PROVE  read'[i] = {[token |-> t, format |-> Layer!ReadAs(impl.path)] : t \in picked[i]}
  <2>1. read'[i] = Layer!Attended(cells, picked[i])
    BY <1>1, <1>3 DEF Layer!ReadFrom, cells
  <2>2. \A t \in picked[i] : t \in 0..tokens+n-1 /\ t \div PageSize < bound.pages
    <3>1. SUFFICES ASSUME NEW t \in picked[i]
          PROVE  t \in 0..tokens+n-1 /\ t \div PageSize < bound.pages
      OBVIOUS
    <3>2. t \in 0..tokens+n-1
      BY <1>1, <1>3
    <3>3. t \in Nat /\ t < PageSize * bound.pages
      BY <3>2, <1>1, <1>3
    <3>4. t \div PageSize \in Nat /\ PageSize * (t \div PageSize) <= t
      BY <3>3, <1>3, QuotientBounds
    <3>5. ~(bound.pages <= t \div PageSize)
      <4>1. SUFFICES ASSUME bound.pages <= t \div PageSize PROVE FALSE OBVIOUS
      <4>2. PageSize * bound.pages <= PageSize * (t \div PageSize)
        BY <4>1, <3>4, <1>3, ProductMonotone
      <4>3. PageSize * bound.pages \in Nat /\ PageSize * (t \div PageSize) \in Nat
        BY <3>4, <1>3
      <4> QED BY <4>2, <4>3, <3>3, <3>4
    <3> QED BY <3>2, <3>4, <3>5, <1>3
  <2>3. Layer!Attended(cells, picked[i]) = {cells[t] : t \in picked[i]}
    BY <1>7, <2>2 DEF Layer!Attended
  <2> QED BY <2>1, <2>2, <2>3, <1>5
<1>10. Layer!RowsReadTheirSelection'
  <2>1. DOMAIN read' = 1..n+pad /\ DOMAIN selected' = 1..n
    BY <1>1
  <2>2. ASSUME NEW i \in 1..n+pad, i \notin 1..n PROVE read'[i] = {}
    BY <1>1, <1>3, <2>2
  <2>3. Layer!ReadAs(impl.path)' = Layer!ReadAs(impl.path)
    BY <1>2 DEF Layer!ReadAs
  <2>4. selected' = picked
    BY <1>1
  <2> QED BY <1>9, <2>1, <2>2, <2>3, <2>4 DEF Layer!RowsReadTheirSelection
<1>11. Layer!ViewsAreOfTheBuffer'
  <2>1. n = 0 => selected' = <<>>
    BY <1>1
  <2> QED BY <1>2, <1>4, <1>8, <2>1 DEF Layer!ViewsAreOfTheBuffer
<1>12. Layer!Accepted' /\ (impl = Layer!ImplOf(config.dtype))'
  BY <1>2 DEF LayerInv, Layer!Accepted, Layer!HeadsFit, Layer!ImplOf
<1>13. bound'.addr \in handedOut' /\ tokens' \in Nat
  BY <1>1, <1>2, <1>3, <1>4 DEF LayerInv
<1> QED
  BY <1>2, <1>6, <1>8, <1>10, <1>11, <1>12, <1>13 DEF LayerInv

LEMMA RunWithoutKeeps == ASSUME Layer!LayerAssumption, LayerInv, Layer!RunWithout PROVE LayerInv'
<1>1. PICK rows \in 1..StepRows : read' = [i \in 1..rows |-> {}]
  BY DEF Layer!RunWithout
<1>2. selected' = <<>> /\ UNCHANGED <<config, state, impl, bound, handedOut, views, tokens>>
  BY DEF Layer!RunWithout
<1>3. Layer!RowsReadTheirSelection' /\ Layer!ViewsAreOfTheBuffer'
  BY <1>1, <1>2 DEF Layer!RowsReadTheirSelection, Layer!ViewsAreOfTheBuffer
<1>4. /\ Layer!Accepted' <=> Layer!Accepted /\ Layer!ImplOf(config.dtype)' = Layer!ImplOf(config.dtype)
      /\ ViewsAreKept' <=> ViewsAreKept
      /\ CellsHoldTokens(bound, tokens)' <=> CellsHoldTokens(bound, tokens)
  BY <1>2 DEF Layer!Accepted, Layer!HeadsFit, Layer!ImplOf, ViewsAreKept, CellsHoldTokens, Layer!ReadAs
<1> QED
  BY <1>2, <1>3, <1>4 DEF LayerInv

LEMMA LayerKeeps ==
  ASSUME Layer!LayerAssumption, LayerInv, [Layer!Next]_(Layer!vars) PROVE LayerInv'
<1>1. CASE UNCHANGED Layer!vars
  BY <1>1 DEF Layer!vars, LayerInv, Layer!Accepted, Layer!HeadsFit, Layer!ImplOf, ViewsAreKept,
      CellsHoldTokens, Layer!ReadAs, Layer!RowsReadTheirSelection, Layer!ViewsAreOfTheBuffer
<1> QED BY <1>1, BuildKeeps, BindKeeps, RunQsaKeeps, RunWithoutKeeps DEF Layer!Next

LEMMA LayerInvHolds ==
  ASSUME Layer!LayerAssumption PROVE SpecSparse => [](scope = "layer" => LayerInv)
<1>1. InitSparse => (scope = "layer" => LayerInv)
  BY InitLayer DEF InitSparse
<1>2. (scope = "layer" => LayerInv) /\ [NextSparse]_sparseVars => (scope = "layer" => LayerInv)'
  BY StepOfOne, LayerKeeps
<1> QED BY <1>1, <1>2, PTL DEF SpecSparse

(* _run_qsa, whatever buffers were bound before and however rows are cut   *)
(* into steps: every row reads the tokens the index selected for it, in    *)
(* the format they were written in, and padding reads nothing; views that  *)
(* were made once for a buffer are that buffer's (qsa.py:282).             *)
THEOREM RowsReadTheirSelectionHolds ==
  ASSUME Layer!LayerAssumption PROVE SpecSparse => []RowsReadTheirSelection
<1>1. (scope = "layer" => LayerInv) => RowsReadTheirSelection
  BY DEF LayerInv, RowsReadTheirSelection
<1> QED BY <1>1, LayerInvHolds, PTL

(* Qwen4ExpQSAAttention.__init__, for every number of heads and ranks: a   *)
(* split that is not refused puts the KV head of every query on its rank,  *)
(* where the kernel looks for it.                                          *)
THEOREM QueriesFindTheirHeadHolds ==
  ASSUME Layer!LayerAssumption PROVE SpecSparse => []QueriesFindTheirHead
<1>1. (scope = "layer" => LayerInv) => QueriesFindTheirHead
  <2>1. SUFFICES ASSUME LayerInv, state = "built", config.heads % config.kv = 0
        PROVE  Layer!QueriesFindTheirHead
    BY DEF QueriesFindTheirHead, Layer!QueriesFindTheirHead
  <2>2. config \in LayerConfigs /\ Layer!HeadsFit
    BY <2>1 DEF LayerInv, Layer!Accepted
  <2> QED BY <2>1, <2>2, HeadsAreDealt
<1> QED BY <1>1, LayerInvHolds, PTL
-----------------------------------------------------------------------------
(* Recursion over 1..n                                                     *)

LEMMA PrefixSumsExist ==
  ASSUME NEW n \in Nat, NEW c \in [1..n -> Nat]
  PROVE  \E g : g = [q \in 0..n |-> IF q = 0 THEN 0 ELSE g[q - 1] + c[q]]
<1> DEFINE Upto(m, g) == g[0] = 0 /\ \A k \in 1..m : g[k] = g[k-1] + c[k]
           P(m) == m <= n => \E g \in [0..m -> Nat] : Upto(m, g)
           S == {m \in Nat : P(m)}
<1>1. P(0)
  <2> DEFINE g == [k \in 0..0 |-> 0]
  <2>1. g \in [0..0 -> Nat] /\ Upto(0, g)
    OBVIOUS
  <2> QED BY <2>1
<1>2. ASSUME NEW m \in Nat, P(m) PROVE P(m + 1)
  <2>1. SUFFICES ASSUME m + 1 <= n PROVE \E g \in [0..m+1 -> Nat] : Upto(m + 1, g)
    OBVIOUS
  <2>2. m <= n
    BY <2>1
  <2>9. PICK f \in [0..m -> Nat] : Upto(m, f)
    <3> HIDE DEF Upto
    <3> QED BY <1>2, <2>2, Zenon
  <2> DEFINE g == [k \in 0..m+1 |-> IF k <= m THEN f[k] ELSE f[m] + c[m+1]]
  <2>3. f[m] + c[m+1] \in Nat
    BY <2>1
  <2>4. g \in [0..m+1 -> Nat]
    BY <2>3
  <2>5. \A k \in 0..m : g[k] = f[k]
    OBVIOUS
  <2>6. g[m+1] = f[m] + c[m+1]
    OBVIOUS
  <2> HIDE DEF g
  <2>7. g[0] = 0
    BY <2>9, <2>5
  <2>8. ASSUME NEW k \in 1..m+1 PROVE g[k] = g[k-1] + c[k]
    <3>1. CASE k = m + 1
      BY <2>5, <2>6, <3>1
    <3>2. CASE k # m + 1
      <4>1. k \in 1..m /\ k - 1 \in 0..m /\ k \in 0..m
        BY <3>2
      <4> QED BY <4>1, <2>9, <2>5
    <3> QED BY <3>1, <3>2
  <2> QED BY <2>4, <2>7, <2>8
<1>3. \A m \in Nat : m \in S <=> P(m)
  <2> HIDE DEF P
  <2> QED OBVIOUS
<1>4. P(n)
  <2> HIDE DEF P, S
  <2>1. Nat \subseteq S
    BY <1>1, <1>2, <1>3, SetInduction
  <2> QED BY <1>3, <2>1
<1>5. PICK g \in [0..n -> Nat] : Upto(n, g)
  <2>1. n <= n
    OBVIOUS
  <2> HIDE DEF Upto
  <2> QED BY <1>4, <2>1, Zenon
<1>6. \A k \in 0..n : g[k] = IF k = 0 THEN 0 ELSE g[k-1] + c[k]
  BY <1>5
<1> QED BY <1>6

AreSums(s, n, c) == s = [q \in 0..n |-> IF q = 0 THEN 0 ELSE s[q - 1] + c[q]]

LEMMA PrefixSums ==
  ASSUME NEW n \in Nat, NEW c \in [1..n -> Nat], NEW s, AreSums(s, n, c)
  PROVE  /\ s \in [0..n -> Nat] /\ s[0] = 0 /\ \A q \in 1..n : s[q] = s[q - 1] + c[q]
         /\ \A p, q \in 0..n : p <= q => s[p] <= s[q]
<1> USE DEF AreSums
<1>1. s \in [0..n -> Nat]
  <2> DEFINE P(m) == m <= n => s[m] \in Nat
             S == {m \in Nat : P(m)}
  <2>1. P(0)
    OBVIOUS
  <2>2. \A m \in Nat : P(m) => P(m + 1)
    OBVIOUS
  <2>3. \A m \in Nat : m \in S <=> P(m)
    <3> HIDE DEF P
    <3> QED OBVIOUS
  <2>4. \A m \in 0..n : s[m] \in Nat
    <3>1. \A m \in Nat : P(m)
      <4> HIDE DEF P, S
      <4>1. 0 \in S
        BY <2>1, <2>3
      <4>2. \A k \in Nat : k \in S => k + 1 \in S
        <5>1. \A k \in Nat : k + 1 \in Nat
          OBVIOUS
        <5> QED BY <2>2, <2>3, <5>1, Zenon
      <4>3. Nat \subseteq S
        BY <4>1, <4>2, SetInduction, Zenon
      <4> QED BY <2>3, <4>3
    <3>2. \A m \in 0..n : m \in Nat /\ m <= n
      OBVIOUS
    <3> QED BY <3>1, <3>2, Zenon
  <2>5. DOMAIN s = 0..n /\ s = [m \in DOMAIN s |-> s[m]]
    OBVIOUS
  <2> QED BY <2>4, <2>5
<1>2. s[0] = 0 /\ \A q \in 1..n : s[q] = s[q - 1] + c[q]
  OBVIOUS
<1>3. ASSUME NEW p \in 0..n, NEW q \in 0..n, p <= q PROVE s[p] <= s[q]
  <2> DEFINE S == {m \in Nat : p + m <= n => s[p] <= s[p + m]}
  <2>1. 0 \in S
    BY <1>1
  <2>2. ASSUME NEW m \in Nat, m \in S PROVE m + 1 \in S
    <3>1. SUFFICES ASSUME p + (m + 1) <= n PROVE s[p] <= s[p + (m + 1)]
      OBVIOUS
    <3>2. s[p] <= s[p + m]
      BY <2>2, <3>1
    <3>3. p + (m + 1) \in 1..n /\ p + (m + 1) - 1 = p + m /\ p + m \in 0..n /\ p \in 0..n
      BY <3>1
    <3>4. s[p + (m + 1)] = s[p + m] + c[p + (m + 1)] /\ c[p + (m + 1)] \in Nat
      BY <1>2, <3>3
    <3>5. s[p] \in Nat /\ s[p + m] \in Nat
      BY <1>1, <3>3
    <3> QED BY <3>2, <3>4, <3>5, SMTT(60)
  <2>3. Nat \subseteq S
    <3> HIDE DEF S
    <3> QED BY <2>1, <2>2, SetInduction
  <2>4. q - p \in Nat /\ p + (q - p) = q
    BY <1>3
  <2>5. q - p \in S
    BY <2>3, <2>4
  <2> QED BY <2>4, <2>5
<1> QED BY <1>1, <1>2, <1>3

-----------------------------------------------------------------------------
(* DraftSteps: the rows of a request are among those of the batch.         *)
LEMMA RowsOfBatch ==
  ASSUME NEW n \in Nat, NEW c \in [1..n -> Nat]
  PROVE  /\ Draft!RowsUpTo(c) \in [0..n -> Nat]
         /\ \A q \in 1..n : Draft!RowsUpTo(c)[q] <= Draft!RowsUpTo(c)[n]
<1> DEFINE Body(g) == [q \in 0..n |-> IF q = 0 THEN 0 ELSE g[q - 1] + c[q]]
           rows == Draft!RowsUpTo(c)
<1>1. \E g : g = Body(g)
  BY PrefixSumsExist
<1>2. Len(c) = n
  OBVIOUS
<1>3. rows = CHOOSE f : f = Body(f)
  BY <1>2 DEF Draft!RowsUpTo
<1> HIDE DEF rows
<1>4. rows = Body(rows)
  <2> HIDE DEF Body
  <2> QED BY <1>1, <1>3
<1>5. rows \in [0..n -> Nat] /\ \A p, q \in 0..n : p <= q => rows[p] <= rows[q]
  <2>1. AreSums(rows, n, c)
    BY <1>4 DEF AreSums
  <2> HIDE DEF Body
  <2> QED BY <2>1, PrefixSums
<1>6. \A q \in 1..n : rows[q] <= rows[n]
  BY <1>5
<1> QED BY <1>5, <1>6 DEF rows

(* In a round every request has an accepted row of its own batch, and its  *)
(* selection of this round is in the first layer's buffer: at that row     *)
(* until the buffer is compacted, then at the request's.                   *)
DraftInv ==
  /\ phase # "round" =>
       /\ \E n \in 0..DraftRequests : count \in [1..n -> 1..DraftRows]
       /\ DOMAIN chosen = DOMAIN count
       /\ \A q \in DOMAIN count : chosen[q] \in Draft!Rows /\ chosen[q] <= Draft!Total(count)
  /\ phase \in {"round", "first", "compact", "later"}
  /\ DOMAIN topk = Draft!Layer /\ \A l \in Draft!Layer : DOMAIN topk[l] = Draft!Rows
  /\ phase = "compact" => \A q \in DOMAIN count : topk[0][chosen[q]] = <<round, chosen[q]>>
  /\ phase = "later" => /\ \A q \in DOMAIN count : topk[0][q] = <<round, chosen[q]>>
                        /\ skip = [l \in Draft!Layer |-> TRUE]
  /\ step \in Nat
  /\ Draft!SelectionIsReused

LEMMA InitDraft == ASSUME Draft!DraftStepsAssumption, Draft!Init PROVE DraftInv
  BY DEF DraftInv, Draft!Init, Draft!DraftStepsAssumption, Draft!SelectionIsReused

(* The rows the batch may have are enough for a row to a request.          *)
LEMMA RequestHasRow ==
  ASSUME Draft!DraftStepsAssumption, NEW n \in 0..DraftRequests, NEW c \in [1..n -> 1..DraftRows],
         NEW q \in 1..n
  PROVE  q \in Draft!Rows
<1>1. DraftRows \in Nat \ {0} /\ DraftRequests \in Nat
  <2>1. c[q] \in 1..DraftRows OBVIOUS
  <2> QED BY <2>1 DEF Draft!DraftStepsAssumption
<1>2. DraftRequests * 1 <= DraftRequests * DraftRows
  BY <1>1, ProductMonotone
<1>3. DraftRequests * DraftRows \in Nat
  BY <1>1
<1> QED BY <1>1, <1>2, <1>3 DEF Draft!Rows

LEMMA VerifyKeeps ==
  ASSUME Draft!DraftStepsAssumption, DraftInv,
         NEW c \in Draft!Batches, NEW rows \in [DOMAIN c -> Draft!Rows], Draft!Verify(c, rows)
  PROVE  DraftInv'
<1>1. PICK n \in 1..DraftRequests : c \in [1..n -> 1..DraftRows]
  BY DEF Draft!Batches
<1>2. n \in 0..DraftRequests /\ c \in [1..n -> Nat] /\ Len(c) = n /\ DOMAIN c = 1..n
  BY <1>1 DEF Draft!DraftStepsAssumption
<1>3. \A q \in 1..n : rows[q] \in Draft!FirstRow(c, q)..Draft!LastRow(c, q)
  BY <1>2 DEF Draft!Verify
<1>4. \A q \in 1..n : rows[q] \in Draft!Rows /\ rows[q] <= Draft!Total(c)
  <2>1. SUFFICES ASSUME NEW q \in 1..n PROVE rows[q] \in Draft!Rows /\ rows[q] <= Draft!Total(c)
    OBVIOUS
  <2>2. Draft!RowsUpTo(c) \in [0..n -> Nat] /\ Draft!RowsUpTo(c)[q] <= Draft!RowsUpTo(c)[n]
    BY <1>2, RowsOfBatch
  <2>3. Draft!RowsUpTo(c)[q] \in Nat /\ Draft!RowsUpTo(c)[n] \in Nat /\ rows[q] \in Int
    BY <2>2, <1>3
  <2> QED BY <1>2, <1>3, <2>2, <2>3 DEF Draft!LastRow, Draft!Total
<1>5. /\ count' = c /\ chosen' = rows /\ phase' = "first" /\ used' = <<>> /\ step' = 0
      /\ UNCHANGED <<skip, topk>>
  BY DEF Draft!Verify
<1>6. Draft!Total(count)' = Draft!Total(c)
  BY <1>5 DEF Draft!Total, Draft!RowsUpTo
<1> QED BY <1>1, <1>2, <1>4, <1>5, <1>6 DEF DraftInv, Draft!SelectionIsReused

LEMMA FirstForwardKeeps == ASSUME Draft!DraftStepsAssumption, DraftInv, Draft!FirstForward PROVE DraftInv'
<1>1. /\ phase = "first" /\ phase' = "compact" /\ step' = 1 /\ UNCHANGED <<round, count, chosen>>
      /\ skip' = Draft!SetSkip(FALSE)
      /\ topk' = [topk EXCEPT ![Draft!LayerOf(0)] =
                   [i \in Draft!Rows |-> IF i <= Draft!Total(count) /\ ~skip'[Draft!LayerOf(0)]
                                         THEN <<round, i>> ELSE topk[Draft!LayerOf(0)][i]]]
      /\ used' = [q \in DOMAIN count |-> topk'[Draft!LayerOf(0)][chosen[q]]]
  BY DEF Draft!FirstForward
<1>2. MtpLayers \in Nat \ {0} /\ 0 \in Draft!Layer /\ Draft!LayerOf(0) = 0
  BY DEF Draft!DraftStepsAssumption, Draft!Layer, Draft!LayerOf
<1>3. skip'[0] = FALSE
  BY <1>1, <1>2 DEF Draft!SetSkip
<1>4. DOMAIN topk = Draft!Layer
  BY DEF DraftInv
<1>5. DOMAIN topk' = Draft!Layer /\ \A l \in Draft!Layer : DOMAIN topk'[l] = Draft!Rows
  BY <1>1, <1>2, <1>4 DEF DraftInv
<1>6. \A i \in Draft!Rows : i <= Draft!Total(count) => topk'[0][i] = <<round, i>>
  BY <1>1, <1>2, <1>3, <1>4
<1>7. \A q \in DOMAIN count : topk'[0][chosen[q]] = <<round, chosen[q]>>
  BY <1>1, <1>6 DEF DraftInv
<1>8. Draft!Total(count)' = Draft!Total(count)
  BY <1>1 DEF Draft!Total, Draft!RowsUpTo
<1>9. Draft!SelectionIsReused'
  BY <1>1, <1>2, <1>7 DEF Draft!SelectionIsReused
<1> QED BY <1>1, <1>5, <1>7, <1>8, <1>9 DEF DraftInv

LEMMA CompactKeeps == ASSUME Draft!DraftStepsAssumption, DraftInv, Draft!CompactTopk PROVE DraftInv'
<1>1. /\ phase = "compact" /\ phase' \in {"round", "later"}
      /\ topk' = [l \in Draft!Layer |-> Draft!Compact(topk[l])]
      /\ skip' = Draft!SetSkip(TRUE) /\ UNCHANGED <<round, count, chosen, step, used>>
  BY DEF Draft!CompactTopk
<1>2. 0 \in Draft!Layer
  BY DEF Draft!DraftStepsAssumption, Draft!Layer
<1>3. ASSUME NEW q \in DOMAIN count PROVE topk'[0][q] = <<round, chosen[q]>>
  <2>1. PICK n \in 0..DraftRequests : count \in [1..n -> 1..DraftRows]
    BY <1>1 DEF DraftInv
  <2>2. q \in Draft!Rows
    BY <2>1, RequestHasRow
  <2>3. q \in DOMAIN chosen
    BY <1>1 DEF DraftInv
  <2>4. topk'[0][q] = topk[0][chosen[q]]
    BY <1>1, <1>2, <2>2, <2>3 DEF Draft!Compact
  <2> QED BY <1>1, <2>4 DEF DraftInv
<1>4. DOMAIN topk' = Draft!Layer /\ \A l \in Draft!Layer : DOMAIN topk'[l] = Draft!Rows
  BY <1>1 DEF Draft!Compact
<1>5. Draft!Total(count)' = Draft!Total(count)
  BY <1>1 DEF Draft!Total, Draft!RowsUpTo
<1>6. skip' = [l \in Draft!Layer |-> TRUE]
  BY <1>1 DEF Draft!SetSkip
<1>7. Draft!SelectionIsReused'
  BY <1>1 DEF DraftInv, Draft!SelectionIsReused
<1> QED BY <1>1, <1>3, <1>4, <1>5, <1>6, <1>7 DEF DraftInv

LEMMA LaterForwardKeeps ==
  ASSUME Draft!DraftStepsAssumption, MtpLayers = 1, DraftInv, Draft!LaterForward
  PROVE  DraftInv'
<1>1. 0 \in Draft!Layer /\ Draft!LayerOf(step) = 0
  BY DEF DraftInv, Draft!Layer, Draft!LayerOf
<1>2. skip[0] = TRUE
  BY <1>1 DEF Draft!LaterForward, DraftInv
<1>3. /\ phase = "later" /\ phase' \in {"later", "round"}
      /\ topk' = topk /\ used' = [q \in DOMAIN count |-> topk[0][q]]
      /\ step' = step + 1 /\ UNCHANGED <<round, count, chosen, skip>>
  BY <1>1, <1>2 DEF Draft!LaterForward
<1>4. Draft!SelectionIsReused'
  BY <1>3 DEF DraftInv, Draft!SelectionIsReused
<1>5. Draft!Total(count)' = Draft!Total(count)
  BY <1>3 DEF Draft!Total, Draft!RowsUpTo
<1> QED BY <1>3, <1>4, <1>5 DEF DraftInv

(* The speculator's rounds, with the one layer the released drafts have,   *)
(* whatever the batches and the accepted rows: every step attends to what  *)
(* its own request selected in this round, for the row it was accepted at. *)
(* A second layer would be run in a later step with a buffer no step of    *)
(* the round has filled.                                                   *)
THEOREM SelectionIsReusedHolds ==
  ASSUME Draft!DraftStepsAssumption, MtpLayers = 1
  PROVE  SpecSparse => []SelectionIsReused
<1>1. InitSparse => (scope = "drafts" => DraftInv)
  BY InitDraft DEF InitSparse, AtRest
<1>2. DraftInv /\ [Draft!Next]_(Draft!vars) => DraftInv'
  <2>1. SUFFICES ASSUME DraftInv, [Draft!Next]_(Draft!vars) PROVE DraftInv'
    OBVIOUS
  <2>2. CASE UNCHANGED Draft!vars
    BY <2>1, <2>2 DEF Draft!vars, DraftInv, Draft!Total, Draft!RowsUpTo, Draft!SelectionIsReused
  <2> QED
    BY <2>1, <2>2, VerifyKeeps, FirstForwardKeeps, CompactKeeps, LaterForwardKeeps DEF Draft!Next
<1>3. (scope = "drafts" => DraftInv) /\ [NextSparse]_sparseVars => (scope = "drafts" => DraftInv)'
  BY <1>2, StepOfOne
<1>4. (scope = "drafts" => DraftInv) => SelectionIsReused
  BY DEF DraftInv, SelectionIsReused
<1> QED BY <1>1, <1>3, <1>4, PTL DEF SpecSparse
-----------------------------------------------------------------------------
(* QsaCompress: rows of a batch                                            *)

Batch == [Index!Reqs -> Seq(Keys)]

LEMMA RowsAreCounted ==
  ASSUME Index!CompressAssumption, NEW rows \in Batch
  PROVE  /\ Index!RowsUpTo(rows) \in [0..Requests -> Nat]
         /\ \A r \in Index!Reqs : Index!RowsUpTo(rows)[r] = Index!RowsUpTo(rows)[r - 1] + Len(rows[r])
         /\ \A p, q \in 0..Requests : p <= q => Index!RowsUpTo(rows)[p] <= Index!RowsUpTo(rows)[q]
<1> DEFINE c == [r \in 1..Requests |-> Len(rows[r])]
           Body(g) == [r \in 0..Requests |-> IF r = 0 THEN 0 ELSE g[r - 1] + Len(rows[r])]
           s == Index!RowsUpTo(rows)
<1>1. Requests \in Nat /\ c \in [1..Requests -> Nat] /\ Index!Reqs = 1..Requests
  BY DEF Index!CompressAssumption, Index!Reqs, Batch
<1>2. PICK g : g = [q \in 0..Requests |-> IF q = 0 THEN 0 ELSE g[q - 1] + c[q]]
  <2> HIDE DEF c
  <2> QED BY <1>1, PrefixSumsExist
<1>3. \A f : [q \in 0..Requests |-> IF q = 0 THEN 0 ELSE f[q - 1] + c[q]] = Body(f)
  OBVIOUS
<1>4. g = Body(g)
  BY <1>2, <1>3
<1>5. s = CHOOSE f : f = Body(f)
  BY DEF Index!RowsUpTo
<1> HIDE DEF s
<1>6. s = Body(s)
  <2> HIDE DEF Body
  <2> QED BY <1>4, <1>5
<1>7. AreSums(s, Requests, c)
  BY <1>3, <1>6 DEF AreSums
<1>8. \A r \in 1..Requests : c[r] = Len(rows[r])
  OBVIOUS
<1>9. /\ s \in [0..Requests -> Nat] /\ \A q \in 1..Requests : s[q] = s[q - 1] + c[q]
      /\ \A p, q \in 0..Requests : p <= q => s[p] <= s[q]
  <2> HIDE DEF c, Body
  <2>1. Requests \in Nat /\ c \in [1..Requests -> Nat]
    BY <1>1
  <2> QED BY <2>1, <1>7, PrefixSums
<1> QED BY <1>1, <1>8, <1>9 DEF s

(* Every row of a request is found to be that request's, and the row after *)
(* the last to be nobody's.                                                *)
LEMMA RequestOfRow ==
  ASSUME Index!CompressAssumption, NEW rows \in Batch
  PROVE  /\ \A r \in Index!Reqs : \A i \in 1..Len(rows[r]) :
              Index!RequestOf(rows, Index!QueryStart(rows, r) + i - 1) = r
         /\ Index!RequestOf(rows, Index!NumRows(rows)) = 0
<1> DEFINE s == Index!RowsUpTo(rows)
<1>1. /\ Requests \in Nat \ {0} /\ Index!Reqs = 1..Requests
      /\ \A r \in 1..Requests : r - 1 \in 0..Requests /\ r \in 0..Requests /\ (r + 1) - 1 = r /\ Len(rows[r]) \in Nat
  BY DEF Index!CompressAssumption, Index!Reqs, Batch
<1>2. /\ s \in [0..Requests -> Nat]
      /\ \A r \in 1..Requests : s[r] = s[r - 1] + Len(rows[r])
      /\ \A p, q \in 0..Requests : p <= q => s[p] <= s[q]
  BY <1>1, RowsAreCounted
<1>3. \A r \in 1..Requests : Index!QueryStart(rows, r) = s[r - 1] /\ Index!QueryStart(rows, r + 1) = s[r]
  BY <1>1 DEF Index!QueryStart
<1>4. Index!NumRows(rows) = s[Requests]
  BY <1>1 DEF Index!NumRows, Index!QueryStart
<1> HIDE DEF s
<1>5. ASSUME NEW row
      PROVE  Index!RequestOf(rows, row) =
               LET owners == {r \in 1..Requests : s[r - 1] <= row /\ row < s[r]}
               IN  IF owners = {} THEN 0 ELSE CHOOSE r \in owners : TRUE
  <2> DEFINE A == {r \in Index!Reqs : Index!QueryStart(rows, r) <= row /\ row < Index!QueryStart(rows, r + 1)}
             B == {r \in 1..Requests : s[r - 1] <= row /\ row < s[r]}
  <2>1. A = B
    BY <1>1, <1>3
  <2>2. Index!RequestOf(rows, row) = IF A = {} THEN 0 ELSE CHOOSE r \in A : TRUE
    BY DEF Index!RequestOf
  <2>3. Index!RequestOf(rows, row) = IF B = {} THEN 0 ELSE CHOOSE r \in B : TRUE
    <3> HIDE DEF A, B
    <3> QED BY <2>1, <2>2
  <2> QED BY <2>3
<1>6. ASSUME NEW r \in 1..Requests, NEW i \in 1..Len(rows[r])
      PROVE  Index!RequestOf(rows, s[r - 1] + i - 1) = r
  <2> DEFINE row == s[r - 1] + i - 1
             owners == {q \in 1..Requests : s[q - 1] <= row /\ row < s[q]}
  <2>1. row \in Nat /\ s[r - 1] \in Nat /\ s[r] \in Nat /\ s[r - 1] <= row /\ row < s[r]
    <3> DEFINE a == s[r - 1]
               b == s[r]
               n == Len(rows[r])
    <3>1. a \in Nat /\ b \in Nat /\ n \in Nat /\ b = a + n
      BY <1>1, <1>2, SMTT(60)
    <3> HIDE DEF a, b, n
    <3>2. i \in 1..n
      BY DEF n
    <3>3. a + i - 1 \in Nat /\ a <= a + i - 1 /\ a + i - 1 < b
      BY <3>1, <3>2
    <3> QED BY <3>1, <3>3 DEF a, b
  <2> HIDE DEF row
  <2>2. ASSUME NEW q \in owners PROVE q = r
    <3>1. q \in 1..Requests /\ s[q - 1] \in Nat /\ s[q] \in Nat /\ s[q - 1] <= row /\ row < s[q]
      BY <1>1, <1>2
    <3>2. CASE q < r
      <4>1. s[q] <= s[r - 1]
        BY <1>1, <1>2, <3>1, <3>2
      <4> QED BY <4>1, <2>1, <3>1
    <3>3. CASE r < q
      <4>1. s[r] <= s[q - 1]
        BY <1>1, <1>2, <3>1, <3>3
      <4> QED BY <4>1, <2>1, <3>1
    <3> QED BY <3>1, <3>2, <3>3
  <2>3. r \in owners
    BY <2>1
  <2>4. (CHOOSE q \in owners : TRUE) = r
    <3> HIDE DEF owners
    <3> QED BY <2>2, <2>3
  <2> QED BY <1>5, <2>3, <2>4 DEF row
<1>7. Index!RequestOf(rows, s[Requests]) = 0
  <2>1. \A r \in 1..Requests : ~(s[Requests] < s[r])
    BY <1>1, <1>2
  <2> QED BY <1>5, <2>1
<1> QED BY <1>1, <1>3, <1>4, <1>6, <1>7, SMTT(60)

-----------------------------------------------------------------------------
(* QsaCompress: places in the ring and groups                              *)

LEMMA SlotsApart ==
  ASSUME NEW w \in Nat \ {0}, NEW p \in Nat, NEW q \in Nat, p < q, q < p + w
  PROVE  p % w # q % w
<1> DEFINE a == p \div w
           b == q \div w
<1>1. /\ a \in Nat /\ p = w * a + (p % w) /\ p % w \in 0..w-1
      /\ b \in Nat /\ q = w * b + (q % w) /\ q % w \in 0..w-1
  BY QuotientBounds
<1>2. SUFFICES ASSUME p % w = q % w PROVE FALSE
  OBVIOUS
<1> HIDE DEF a, b
<1>3. w * a \in Nat /\ w * b \in Nat /\ w * a < w * b /\ w * b < w * a + w
  <2>1. w * a \in Nat /\ w * b \in Nat
    BY <1>1
  <2> QED BY <2>1, <1>1, <1>2
<1>4. w * (a + 1) = w * a + w
  BY <1>1
<1>5. CASE a + 1 <= b
  <2>1. w * (a + 1) <= w * b
    BY <1>1, <1>5, ProductMonotone
  <2> QED BY <2>1, <1>3, <1>4
<1>6. CASE b <= a
  <2>1. w * b <= w * a
    BY <1>1, <1>6, ProductMonotone
  <2> QED BY <2>1, <1>3
<1> QED BY <1>1, <1>5, <1>6

(* The group that is being collected when there are n tokens begins no     *)
(* more than a group back, and not before it began when there were fewer.  *)
LEMMA GroupBegins ==
  ASSUME NEW R \in Nat \ {0}, NEW l \in Nat, NEW n \in Nat, l <= n
  PROVE  /\ l - (l % R) \in Nat /\ n - (n % R) \in Nat
         /\ l - (l % R) <= n - (n % R) /\ n - (n % R) > n - R
<1> DEFINE a == l \div R
           b == n \div R
<1>1. /\ a \in Nat /\ l = R * a + (l % R) /\ l % R \in 0..R-1
      /\ b \in Nat /\ n = R * b + (n % R) /\ n % R \in 0..R-1
  BY QuotientBounds
<1>2. R * a \in Nat /\ R * b \in Nat
  BY <1>1
<1>3. a <= b
  <2>1. SUFFICES ASSUME b + 1 <= a PROVE FALSE
    BY <1>1
  <2> HIDE DEF a, b
  <2>2. R * (b + 1) <= R * a
    BY <1>1, <2>1, ProductMonotone
  <2>3. R * (b + 1) = R * b + R
    BY <1>1
  <2> QED BY <2>2, <2>3, <1>1, <1>2
<1> HIDE DEF a, b
<1>4. R * a <= R * b
  BY <1>1, <1>3, ProductMonotone
<1> QED BY <1>1, <1>2, <1>4

(* The group a later token ends begins no earlier than that.               *)
LEMMA GroupEnds ==
  ASSUME NEW R \in Nat \ {0}, NEW l \in Nat, NEW n \in Nat, l < n, n % R = 0
  PROVE  n - R \in Nat /\ l - (l % R) <= n - R
<1> DEFINE a == l \div R
           c == n \div R
<1>1. /\ a \in Nat /\ l = R * a + (l % R) /\ l % R \in 0..R-1
      /\ c \in Nat /\ n = R * c + (n % R)
  BY QuotientBounds
<1>2. R * a \in Nat /\ R * c \in Nat /\ n = R * c
  BY <1>1
<1> HIDE DEF a, c
<1>3. a < c
  <2>1. SUFFICES ASSUME c <= a PROVE FALSE
    BY <1>1
  <2>2. R * c <= R * a
    BY <1>1, <2>1, ProductMonotone
  <2> QED BY <2>2, <1>1, <1>2
<1>4. R * (a + 1) <= R * c
  BY <1>1, <1>3, ProductMonotone
<1>5. R * (a + 1) = R * a + R
  BY <1>1
<1> QED BY <1>1, <1>2, <1>4, <1>5

-----------------------------------------------------------------------------
(* QsaCompress: a step                                                     *)

(* A draft that is rejected lies at most Drafts past the tokens that are   *)
(* kept, so it must not come around to the group that is being collected.  *)
RingIsWide == Ring >= Ratio + Drafts - 1

(* The first token of the group that is being collected after n tokens,    *)
(* whether the n-th has ended one, and the place of a token in the ring    *)
Begun(n) == n - (n % Ratio)
Ends(n) == n % Ratio = 0
Slot(p) == p % Ring

LEMMA Groups ==
  ASSUME Ratio \in Nat \ {0}, NEW l \in Nat, NEW n \in Nat
  PROVE  /\ Begun(l) \in Nat /\ Begun(l) <= l
         /\ l <= n => Begun(l) <= Begun(n) /\ Begun(n) > n - Ratio
         /\ l < n /\ Ends(n) => n - Ratio \in Nat /\ Begun(l) <= n - Ratio
<1>1. Begun(l) \in Nat /\ Begun(l) <= l
  <2>1. l % Ratio \in 0..Ratio-1
    BY QuotientBounds
  <2>2. l - (l % Ratio) \in Nat
    BY GroupBegins
  <2> QED BY <2>1, <2>2 DEF Begun
<1>2. ASSUME l <= n PROVE Begun(l) <= Begun(n) /\ Begun(n) > n - Ratio
  BY <1>2, GroupBegins DEF Begun
<1>3. ASSUME l < n, Ends(n) PROVE n - Ratio \in Nat /\ Begun(l) <= n - Ratio
  BY <1>3, GroupEnds DEF Begun, Ends
<1> QED BY <1>1, <1>2, <1>3

LEMMA Slots ==
  ASSUME Ring \in Nat \ {0}, NEW p \in Nat
  PROVE  /\ Slot(p) \in 0..Ring-1
         /\ \A q \in Nat : p < q /\ q < p + Ring => Slot(p) # Slot(q)
<1>1. Slot(p) \in 0..Ring-1
  BY QuotientBounds DEF Slot
<1>2. ASSUME NEW q \in Nat, p < q, q < p + Ring PROVE Slot(p) # Slot(q)
  BY <1>2, SlotsApart DEF Slot
<1> QED BY <1>1, <1>2

IndexInv ==
  /\ history \in Batch
  /\ DOMAIN ring = Index!Reqs /\ \A b \in Index!Reqs : DOMAIN ring[b] = 0..Ring-1
  /\ table \in [Index!Reqs -> Index!Reqs] /\ \A r, q \in Index!Reqs : table[r] = table[q] => r = q
  /\ Index!PooledIsHistory
  /\ Index!UnfinishedGroupIsHeld

LEMMA SubSeqIs ==
  ASSUME NEW S, NEW seq \in Seq(S), NEW m \in Nat \ {0}, NEW n \in Nat, m <= n + 1, n <= Len(seq)
  PROVE  SubSeq(seq, m, n) = [i \in 1..n-m+1 |-> seq[m + i - 1]]
  OBVIOUS

LEMMA ConcatIs ==
  ASSUME NEW S, NEW s \in Seq(S), NEW t \in Seq(S)
  PROVE  /\ s \o t \in Seq(S) /\ Len(s \o t) = Len(s) + Len(t)
         /\ \A k \in 1..Len(s)+Len(t) : (s \o t)[k] = IF k <= Len(s) THEN s[k] ELSE t[k - Len(s)]
  OBVIOUS

(* What was there, then the first a of what is added                       *)
LEMMA Extended ==
  ASSUME NEW S, NEW old \in Seq(S), NEW added \in Seq(S), NEW a \in 0..Len(added)
  PROVE  LET all == old \o SubSeq(added, 1, a)
         IN  /\ all \in Seq(S) /\ Len(all) = Len(old) + a
             /\ \A p \in 0..(Len(old)+a)-1 :
                  all[p + 1] = IF p < Len(old) THEN old[p + 1] ELSE added[(p - Len(old)) + 1]
<1> DEFINE new == SubSeq(added, 1, a)
           all == old \o new
<1>1. new \in Seq(S) /\ Len(new) = a /\ \A k \in 1..a : new[k] = added[k]
  OBVIOUS
<1> HIDE DEF new
<1>2. /\ all \in Seq(S) /\ Len(all) = Len(old) + a
      /\ \A k \in 1..Len(old)+a : all[k] = IF k <= Len(old) THEN old[k] ELSE new[k - Len(old)]
  <2>1. new \in Seq(S) /\ Len(new) = a
    BY <1>1
  <2> QED BY <2>1, ConcatIs
<1>3. ASSUME NEW p \in 0..(Len(old)+a)-1
      PROVE  all[p + 1] = IF p < Len(old) THEN old[p + 1] ELSE added[(p - Len(old)) + 1]
  <2>1. CASE p < Len(old)
    <3>1. p + 1 \in 1..Len(old)+a /\ p + 1 <= Len(old)
      BY <2>1
    <3> HIDE DEF all
    <3> QED BY <1>2, <2>1, <3>1
  <2>2. CASE p >= Len(old)
    <3> HIDE DEF all
    <3>1. (p - Len(old)) + 1 \in 1..a /\ (p + 1) - Len(old) = (p - Len(old)) + 1 /\ p + 1 > Len(old)
          /\ p + 1 \in 1..Len(old)+a /\ ~(p + 1 <= Len(old))
      BY <2>2
    <3>2. all[p + 1] = new[(p + 1) - Len(old)]
      BY <1>2, <3>1
    <3>3. new[(p - Len(old)) + 1] = added[(p - Len(old)) + 1]
      BY <1>1, <3>1
    <3>4. ~(p < Len(old))
      BY <2>2
    <3> QED BY <3>1, <3>2, <3>3, <3>4
  <2> HIDE DEF all
  <2> QED BY <2>1, <2>2
<1> HIDE DEF all
<1> QED BY <1>2, <1>3 DEF new, all

(* The tokens a request has, and its rows in a batch                       *)
Had(r) == Len(history[r])
Given(rows, r) == Len(rows[r])

LEMMA SizesOf ==
  ASSUME Index!CompressAssumption, IndexInv
  PROVE  /\ Ratio \in Nat \ {0} /\ Ring \in Nat \ {0} /\ Drafts \in Nat /\ Requests \in Nat \ {0}
         /\ \A r \in Index!Reqs : history[r] \in Seq(Keys) /\ Had(r) \in Nat
         /\ Index!Reqs = 1..Requests
<1>1. Ratio \in Nat \ {0} /\ Ring \in Nat \ {0} /\ Drafts \in Nat /\ Requests \in Nat \ {0}
  BY DEF Index!CompressAssumption
<1>2. \A r \in Index!Reqs : history[r] \in Seq(Keys) /\ Had(r) \in Nat
  BY DEF IndexInv, Batch, Had
<1> QED BY <1>1, <1>2 DEF Index!Reqs

LEMMA RowsOf ==
  ASSUME Index!CompressAssumption, NEW rows \in Batch, NEW r \in Index!Reqs
  PROVE  /\ rows[r] \in Seq(Keys) /\ Given(rows, r) \in Nat
         /\ Index!QueryStart(rows, r) \in Nat
         /\ Index!QueryStart(rows, r + 1) = Index!QueryStart(rows, r) + Given(rows, r)
         /\ Index!QueryStart(rows, r + 1) <= Index!NumRows(rows)
         /\ Index!NumRows(rows) \in Nat
<1>1. /\ r - 1 \in 0..Requests /\ (r + 1) - 1 = r /\ r \in 0..Requests /\ r <= Requests
      /\ Requests \in 0..Requests /\ (Requests + 1) - 1 = Requests
  BY DEF Index!CompressAssumption, Index!Reqs
<1>2. rows[r] \in Seq(Keys) /\ Given(rows, r) \in Nat
  BY DEF Batch, Given
<1>3. /\ Index!RowsUpTo(rows)[r] = Index!RowsUpTo(rows)[r - 1] + Given(rows, r)
      /\ Index!RowsUpTo(rows)[r - 1] \in Nat /\ Index!RowsUpTo(rows)[Requests] \in Nat
      /\ Index!RowsUpTo(rows)[r] <= Index!RowsUpTo(rows)[Requests]
  BY <1>1, RowsAreCounted DEF Given
<1> QED BY <1>1, <1>2, <1>3 DEF Index!QueryStart, Index!NumRows

(* The token the ring holds at a place of the group of a request           *)
LEMMA RingHolds ==
  ASSUME Index!CompressAssumption, IndexInv, NEW r \in Index!Reqs,
         NEW p \in Begun(Had(r))..Had(r)-1
  PROVE  ring[table[r]][Slot(p)] = [key |-> history[r][p + 1], position |-> p]
  BY DEF IndexInv, Index!UnfinishedGroupIsHeld, Begun, Slot, Had

LEMMA InitIndex == ASSUME Index!CompressAssumption, Index!Init PROVE IndexInv
<1>1. \A r \in Index!Reqs : history[r] = <<>> /\ Len(history[r]) = 0
  BY DEF Index!Init
<1>2. Index!UnfinishedGroupIsHeld
  <2>1. 0 % Ratio = 0
    BY DEF Index!CompressAssumption
  <2> QED BY <1>1, <2>1 DEF Index!UnfinishedGroupIsHeld
<1>3. Index!PooledIsHistory
  <2>1. \A r \in Index!Reqs : chunk[r].rows = <<>>
    BY DEF Index!Init, Index!NoBatch
  <2> QED BY <2>1 DEF Index!Init, Index!PooledIsHistory
<1>4. history \in Batch
  BY DEF Index!Init, Batch
<1> QED BY <1>2, <1>3, <1>4 DEF IndexInv, Index!Init

(* A member of a group that ends in this step is the token it stands for.  *)
Token(rows, r, p) ==
  IF p < Had(r) THEN history[r][p + 1] ELSE rows[r][(p - Had(r)) + 1]

LEMMA MemberIsToken ==
  ASSUME Index!CompressAssumption, IndexInv, NEW rows \in Batch,
         NEW r \in Index!Reqs, NEW i \in 1..Given(rows, r), NEW p \in Nat, NEW row,
         Ends(Had(r) + i), p >= (Had(r) + i) - Ratio, p < Had(r) + i
  PROVE  Index!Member(rows, row, r, p, Had(r)) = [key |-> Token(rows, r, p), position |-> p]
<1> DEFINE l == Had(r)
           start == Index!QueryStart(rows, r)
<1>1. /\ l \in Nat /\ Given(rows, r) \in Nat /\ start \in Nat /\ Ratio \in Nat \ {0}
      /\ Index!QueryStart(rows, r + 1) = start + Given(rows, r)
  BY SizesOf, RowsOf
<1>2. CASE p >= l
  <2> DEFINE raw == start + p - l
             j == (p - l) + 1
  <2>1. j \in 1..Given(rows, r) /\ raw = start + j - 1 /\ raw - start + 1 = j
    BY <1>1, <1>2
  <2>2. start <= raw /\ raw < start + Given(rows, r) /\ ~(p < l)
    BY <1>1, <1>2, <2>1
  <2>3. Index!RequestOf(rows, raw) = r /\ r # 0
    <3> HIDE DEF raw, j
    <3> QED BY <2>1, RequestOfRow DEF Index!Reqs, Given
  <2>4. Index!RawKey(rows, raw) = rows[r][j]
    <3> HIDE DEF raw, j
    <3>1. Index!RawKey(rows, raw) = rows[r][raw - start + 1]
      BY <2>3 DEF Index!RawKey
    <3> QED BY <2>1, <3>1
  <2>5. Index!Member(rows, row, r, p, l) = [key |-> Index!RawKey(rows, raw), position |-> p]
    BY <1>1, <1>2, <2>2 DEF Index!Member, Index!UseRaw, Index!RawRow
  <2>6. Token(rows, r, p) = rows[r][j]
    BY <2>2 DEF Token
  <2> QED BY <2>4, <2>5, <2>6
<1>3. CASE p < l
  <2>1. p \in Begun(l)..l-1
    <3>1. l < l + i /\ l + i \in Nat
      BY <1>1
    <3> DEFINE n == l + i
    <3>2. n \in Nat /\ l < n /\ p >= n - Ratio
      BY <1>1, <3>1
    <3>4. Ends(n)
      OBVIOUS
    <3> HIDE DEF n
    <3>3. Begun(l) <= n - Ratio /\ n - Ratio \in Nat /\ Begun(l) \in Nat
      BY <1>1, <3>2, <3>4, Groups
    <3> QED BY <1>1, <1>3, <3>2, <3>3
  <2>2. ring[table[r]][Slot(p)] = [key |-> history[r][p + 1], position |-> p]
    BY <2>1, RingHolds
  <2>3. ~(p >= l)
    BY <1>1, <1>3
  <2> QED BY <1>3, <2>2, <2>3 DEF Index!Member, Index!UseRaw, Index!RingSlot, Slot, Token
<1>4. p >= l \/ p < l
  BY <1>1
<1> QED BY <1>2, <1>3, <1>4

LEMMA GroupIsPooled ==
  ASSUME Index!CompressAssumption, IndexInv, NEW rows \in Batch,
         NEW r \in Index!Reqs, NEW i \in 1..Given(rows, r), Ends(Had(r) + i)
  PROVE  LET so_far == history[r] \o SubSeq(rows[r], 1, i)
             pool   == Index!Pool(rows, Index!QueryStart(rows, r) + i - 1)
         IN  /\ pool.members = SubSeq(so_far, (Had(r) + i) - Ratio + 1, Had(r) + i)
             /\ pool.first = (Had(r) + i) - Ratio
<1> DEFINE l == Had(r)
           n == l + i
           start == Index!QueryStart(rows, r)
           row == start + i - 1
           so_far == history[r] \o SubSeq(rows[r], 1, i)
           end == l + row - start
           first_row == end - (row - start)
           member(j) == Index!Member(rows, row, r, end - (Ratio - j), first_row)
<1>1. /\ l \in Nat /\ Given(rows, r) \in Nat /\ start \in Nat /\ Ratio \in Nat \ {0}
      /\ history[r] \in Seq(Keys) /\ rows[r] \in Seq(Keys) /\ i \in 0..Given(rows, r)
  BY SizesOf, RowsOf
<1>2. /\ so_far \in Seq(Keys) /\ Len(so_far) = n
      /\ \A p \in 0..n-1 : so_far[p + 1] = Token(rows, r, p)
  <2>1. history[r] \in Seq(Keys) /\ rows[r] \in Seq(Keys) /\ i \in 0..Len(rows[r])
    BY <1>1 DEF Given
  <2> DEFINE old == history[r]
             added == rows[r]
  <2>2. /\ old \o SubSeq(added, 1, i) \in Seq(Keys) /\ Len(old \o SubSeq(added, 1, i)) = Len(old) + i
        /\ \A p \in 0..(Len(old)+i)-1 :
             (old \o SubSeq(added, 1, i))[p + 1] = IF p < Len(old) THEN old[p + 1] ELSE added[(p - Len(old)) + 1]
    <3>1. old \in Seq(Keys) /\ added \in Seq(Keys) /\ i \in 0..Len(added)
      BY <2>1
    <3> HIDE DEF old, added
    <3> QED BY <3>1, Extended
  <2> QED BY <2>2, Zenon DEF Token, Had
<1>3. n \in Nat /\ l < n /\ Ends(n)
  BY <1>1
<1>4. n - Ratio \in Nat
  <2> HIDE DEF n, l
  <2> QED BY <1>1, <1>3, Groups
<1>5. Index!RequestOf(rows, row) = r /\ r # 0
  BY RequestOfRow DEF Index!Reqs, Given
<1>6. end = n - 1 /\ first_row = l /\ end >= Ratio - 1 /\ end + 1 = n
  BY <1>1, <1>4
<1>7. Index!Pool(rows, row) = [members |-> [j \in 1..Ratio |-> member(j).key], first |-> member(1).position]
  <2>1. (end + 1) % Ratio = 0
    BY <1>3, <1>6, Zenon DEF Ends
  <2> DEFINE valid == r # 0 /\ end >= Ratio - 1 /\ (end + 1) % Ratio = 0
  <2>2. valid
    BY <1>5, <1>6, <2>1
  <2>3. Index!Pool(rows, row) =
          IF ~valid THEN [members |-> <<>>, first |-> 0]
          ELSE [members |-> [j \in 1..Ratio |-> member(j).key], first |-> member(1).position]
    BY <1>5, Zenon DEF Index!Pool, Had
  <2> HIDE DEF valid, member
  <2> QED BY <2>2, <2>3
<1>8. ASSUME NEW j \in 1..Ratio
      PROVE  member(j).key = so_far[n - Ratio + j] /\ member(j).position = ((n - Ratio) + j) - 1
  <2> DEFINE p == ((n - Ratio) + j) - 1
  <2>1. p \in Nat /\ p >= n - Ratio /\ p < n /\ p + 1 = (n - Ratio) + j /\ p \in 0..n-1
    <3> DEFINE k == n - Ratio
    <3>1. k \in Nat /\ n \in Nat /\ n = k + Ratio /\ j \in 1..Ratio /\ Ratio \in Nat
      BY <1>1, <1>3, <1>4
    <3> HIDE DEF n, k
    <3>2. (k + j) - 1 \in Nat /\ (k + j) - 1 >= k /\ (k + j) - 1 < n
      BY <3>1
    <3>3. ((k + j) - 1) + 1 = k + j /\ (k + j) - 1 \in 0..n-1
      BY <3>1, <3>2
    <3> QED BY <3>2, <3>3 DEF k
  <2>2. end - (Ratio - j) = p
    BY <1>1, <1>6, <1>4, SMTT(60)
  <2>3. member(j) = Index!Member(rows, row, r, p, l)
    <3> HIDE DEF p, l
    <3> QED BY <1>6, <2>2
  <2> HIDE DEF p
  <2>4. Index!Member(rows, row, r, p, l) = [key |-> Token(rows, r, p), position |-> p]
    <3>1. p \in Nat /\ p >= (Had(r) + i) - Ratio /\ p < Had(r) + i
      BY <2>1
    <3> HIDE DEF row
    <3> QED BY <3>1, MemberIsToken, Zenon
  <2>5. so_far[p + 1] = Token(rows, r, p)
    BY <2>1, <1>2
  <2> HIDE DEF so_far, member, n
  <2> QED BY <2>1, <2>3, <2>4, <2>5 DEF p
<1>9. SubSeq(so_far, n - Ratio + 1, n) = [j \in 1..Ratio |-> so_far[n - Ratio + j]]
  <2> HIDE DEF so_far, n
  <2>1. n - Ratio + 1 \in Nat \ {0} /\ n - Ratio + 1 <= n + 1
    BY <1>1, <1>3, <1>4
  <2>2. SubSeq(so_far, n - Ratio + 1, n)
          = [j \in 1..n-(n - Ratio + 1)+1 |-> so_far[(n - Ratio + 1) + j - 1]]
    BY <1>2, <1>3, <2>1, SubSeqIs
  <2>3. n - (n - Ratio + 1) + 1 = Ratio
    BY <1>1, <1>3
  <2>4. \A j \in 1..Ratio : (n - Ratio + 1) + j - 1 = n - Ratio + j
    BY <1>1, <1>3
  <2> QED BY <2>2, <2>3, <2>4
<1>10. 1 \in 1..Ratio /\ ((n - Ratio) + 1) - 1 = n - Ratio
  BY <1>1, <1>3
<1> HIDE DEF so_far, member
<1>11. Index!Pool(rows, row).members = SubSeq(so_far, n - Ratio + 1, n)
       /\ Index!Pool(rows, row).first = n - Ratio
  <2> HIDE DEF n, row
  <2>1. [j \in 1..Ratio |-> member(j).key] = [j \in 1..Ratio |-> so_far[n - Ratio + j]]
    BY <1>8
  <2>2. member(1).position = n - Ratio
    BY <1>8, <1>10
  <2> QED BY <1>7, <1>9, <2>1, <2>2
<1> QED BY <1>11, Zenon DEF so_far, Had

(* After a step of which a rows are kept, the group that is being          *)
(* collected is in the ring: its older tokens are where they were, and no  *)
(* row, rejected or not, has taken the place of another of its tokens.     *)
LEMMA StoredHolds ==
  ASSUME Index!CompressAssumption, RingIsWide, IndexInv, NEW rows \in Batch,
         NEW r \in Index!Reqs, NEW a \in 0..Given(rows, r),
         rows[r] = <<>> \/ a >= 1,
         Given(rows, r) <= 1 + Drafts \/ a = Given(rows, r),
         NEW p \in Begun(Had(r) + a)..(Had(r) + a)-1
  PROVE  Index!Stored(rows, r)[Slot(p)] = [key |-> Token(rows, r, p), position |-> p]
<1> DEFINE l == Had(r)
           m == Given(rows, r)
           stored == {i \in 1..m : i > m - Ring}
<1>1. /\ l \in Nat /\ m \in Nat /\ a \in Nat /\ a <= m /\ Ratio \in Nat \ {0} /\ Ring \in Nat \ {0}
      /\ Ring >= Ratio /\ Ring >= Ratio + Drafts - 1 /\ Drafts \in Nat
  BY SizesOf, RowsOf DEF Index!CompressAssumption, RingIsWide
<1>2. p \in Nat /\ p > (l + a) - Ratio /\ p < l + a /\ p >= Begun(l)
  <2> DEFINE n == l + a
  <2>1. n \in Nat /\ l <= n /\ p \in Begun(n)..n-1
    BY <1>1
  <2> HIDE DEF n, l
  <2>2. Begun(n) \in Nat /\ Begun(l) \in Nat /\ Begun(l) <= Begun(n) /\ Begun(n) > n - Ratio
    BY <1>1, <2>1, Groups
  <2>3. p \in Nat /\ p > n - Ratio /\ p < n /\ p >= Begun(l)
    BY <1>1, <2>1, <2>2
  <2> QED BY <2>3 DEF n
<1>3. Slot(p) \in 0..Ring-1
  BY <1>1, <1>2, Slots
<1>4. (l + m) - 1 < p + Ring
  <2>1. CASE a = m
    BY <1>1, <1>2, <2>1
  <2>2. CASE a # m
    <3>1. m <= 1 + Drafts
      BY <2>2
    <3>2. a >= 1
      <4>1. CASE rows[r] = <<>>
        BY <1>1, <2>2, <4>1 DEF Given
      <4> QED BY <4>1
    <3> QED BY <1>1, <1>2, <3>1, <3>2
  <2> QED BY <2>1, <2>2
<1>5. Index!Stored(rows, r)[Slot(p)] =
        IF \E i \in stored : Slot(l + i - 1) = Slot(p)
        THEN LET i == CHOOSE i \in stored : Slot(l + i - 1) = Slot(p)
             IN  [key |-> rows[r][i], position |-> l + i - 1]
        ELSE ring[table[r]][Slot(p)]
  BY <1>3 DEF Index!Stored, Index!RingSlot, Slot, Had, Given
<1>6. ASSUME NEW i \in stored, Slot(l + i - 1) = Slot(p) PROVE p = l + i - 1
  <2> DEFINE q == l + i - 1
  <2>1. q \in Nat /\ q < p + Ring /\ q >= (l + m) - Ring
    <3>1. i \in Nat /\ i >= 1 /\ i <= m /\ i > m - Ring
      BY <1>1
    <3> HIDE DEF l, m, stored
    <3>2. q \in Nat /\ q <= (l + m) - 1 /\ q >= (l + m) - Ring
      BY <1>1, <3>1
    <3> QED BY <1>1, <1>2, <1>4, <3>2
  <2>2. Slot(q) = Slot(p)
    BY <1>6
  <2> HIDE DEF q
  <2>3. ~(p < q)
    BY <1>1, <1>2, <2>1, <2>2, Slots
  <2>4. p < q + Ring
    BY <1>1, <1>2, <2>1, SMTT(60)
  <2>5. ~(q < p)
    BY <1>1, <1>2, <2>1, <2>2, <2>4, Slots
  <2>6. p = q
    BY <1>2, <2>1, <2>3, <2>5
  <2> QED BY <2>6 DEF q
<1>7. CASE p < l
  <2>1. \A i \in stored : l + i - 1 >= l
    BY <1>1
  <2> HIDE DEF stored
  <2>2. ~\E i \in stored : Slot(l + i - 1) = Slot(p)
    BY <1>1, <1>2, <1>6, <1>7, <2>1
  <2>3. p \in Begun(l)..l-1
    <3>1. Begun(l) \in Nat
      BY <1>1, Groups
    <3> QED BY <1>1, <1>2, <1>7, <3>1
  <2>4. ring[table[r]][Slot(p)] = [key |-> history[r][p + 1], position |-> p]
    BY <2>3, RingHolds
  <2> QED BY <1>5, <1>7, <2>2, <2>4 DEF Token
<1>8. CASE p >= l
  <2> DEFINE j == (p - l) + 1
  <2>1. j \in stored /\ l + j - 1 = p /\ ~(p < l)
    BY <1>1, <1>2, <1>4, <1>8, SMTT(60)
  <2>2. ASSUME NEW i \in stored, Slot(l + i - 1) = Slot(p) PROVE i = j
    <3>1. p = l + i - 1 /\ i \in Int
      BY <1>6, <2>2
    <3> QED BY <1>1, <3>1
  <2>3. Token(rows, r, p) = rows[r][j]
    BY <2>1 DEF Token
  <2> HIDE DEF j, stored
  <2>4. (CHOOSE i \in stored : Slot(l + i - 1) = Slot(p)) = j
    BY <2>1, <2>2
  <2> QED BY <1>5, <2>1, <2>3, <2>4
<1>9. p < l \/ p >= l
  BY <1>1, <1>2
<1> QED BY <1>7, <1>8, <1>9

LEMMA StepKeeps == ASSUME Index!CompressAssumption, RingIsWide, IndexInv, Index!Step PROVE IndexInv'
<1> DEFINE Kept(rows, accepted) ==
             \A r \in Index!Reqs :
               IF rows[r] = <<>> THEN accepted[r] = 0
               ELSE /\ accepted[r] \in 1..Len(rows[r])
                    /\ Len(rows[r]) <= 1 + Drafts \/ accepted[r] = Len(rows[r])
           After(rows, accepted) == [r \in Index!Reqs |-> history[r] \o SubSeq(rows[r], 1, accepted[r])]
<1>1. PICK rows \in [Index!Reqs -> Index!BoundedSeq(Keys, ChunkRows)] :
        /\ chunk' = [r \in Index!Reqs |-> [base |-> history[r], rows |-> rows[r]]]
        /\ pooled' = [row \in 1..Index!NumRows(rows)+1 |-> Index!Pool(rows, row - 1)]
        /\ ring' = [b \in Index!Reqs |-> Index!Stored(rows, CHOOSE r \in Index!Reqs : table[r] = b)]
        /\ \E accepted \in [Index!Reqs -> 0..ChunkRows] : Kept(rows, accepted) /\ history' = After(rows, accepted)
  BY Zenon DEF Index!Step
<1>2. PICK accepted \in [Index!Reqs -> 0..ChunkRows] : Kept(rows, accepted) /\ history' = After(rows, accepted)
  <2> HIDE DEF Kept, After
  <2> QED BY <1>1, Zenon
<1>3. table' = table
  BY DEF Index!Step
<1>4. rows \in Batch
  <2>1. ASSUME NEW r \in Index!Reqs PROVE rows[r] \in Seq(Keys)
    <3>1. rows[r] \in Index!BoundedSeq(Keys, ChunkRows)
      OBVIOUS
    <3>2. PICK m \in 0..ChunkRows : rows[r] \in [1..m -> Keys]
      <4> DEFINE x == rows[r]
      <4>1. x \in Index!BoundedSeq(Keys, ChunkRows)
        BY <3>1
      <4> HIDE DEF x
      <4>2. \E m \in 0..ChunkRows : x \in [1..m -> Keys]
        BY <4>1 DEF Index!BoundedSeq, Index!SeqOf
      <4> QED BY <4>2 DEF x
    <3>3. m \in Nat
      BY DEF Index!CompressAssumption
    <3> QED BY <3>2, <3>3
  <2> QED BY <2>1 DEF Batch
<1>5. /\ Ratio \in Nat \ {0} /\ Drafts \in Nat
      /\ \A r \in Index!Reqs : /\ history[r] \in Seq(Keys) /\ rows[r] \in Seq(Keys)
                               /\ Had(r) \in Nat /\ Given(rows, r) \in Nat
  BY <1>4, SizesOf, RowsOf
<1>6. ASSUME NEW r \in Index!Reqs
      PROVE  /\ accepted[r] \in 0..Given(rows, r)
             /\ rows[r] = <<>> \/ accepted[r] >= 1
             /\ Given(rows, r) <= 1 + Drafts \/ accepted[r] = Given(rows, r)
  <2>1. CASE rows[r] = <<>>
    <3>1. accepted[r] = 0
      BY <1>2, <2>1
    <3>2. Given(rows, r) = 0
      BY <2>1 DEF Given
    <3> QED BY <1>5, <2>1, <3>1, <3>2
  <2>2. CASE rows[r] # <<>>
    <3>1. accepted[r] \in 1..Given(rows, r) /\ (Given(rows, r) <= 1 + Drafts \/ accepted[r] = Given(rows, r))
      BY <1>2, <2>2 DEF Given
    <3> QED BY <1>5, <3>1
  <2> QED BY <2>1, <2>2
<1>7. ASSUME NEW r \in Index!Reqs
      PROVE  /\ history'[r] \in Seq(Keys) /\ Len(history'[r]) = Had(r) + accepted[r]
             /\ \A p \in 0..(Had(r)+accepted[r])-1 : history'[r][p + 1] = Token(rows, r, p)
  <2> DEFINE old == history[r]
             added == rows[r]
             a == accepted[r]
  <2>1. old \in Seq(Keys) /\ added \in Seq(Keys) /\ a \in 0..Len(added)
    BY <1>5, <1>6 DEF Given
  <2>2. history'[r] = old \o SubSeq(added, 1, a)
    BY <1>2
  <2>3. /\ old \o SubSeq(added, 1, a) \in Seq(Keys) /\ Len(old \o SubSeq(added, 1, a)) = Len(old) + a
        /\ \A p \in 0..(Len(old)+a)-1 :
             (old \o SubSeq(added, 1, a))[p + 1] = IF p < Len(old) THEN old[p + 1] ELSE added[(p - Len(old)) + 1]
    <3> HIDE DEF old, added, a
    <3> QED BY <2>1, Extended
  <2>4. \A p : Token(rows, r, p) = IF p < Len(old) THEN old[p + 1] ELSE added[(p - Len(old)) + 1]
    BY DEF Token, Had
  <2>5. Len(old) = Had(r)
    BY DEF Had
  <2> HIDE DEF old, added, a
  <2>6. history'[r] \in Seq(Keys) /\ Len(history'[r]) = Had(r) + a
    BY <2>2, <2>3, <2>5
  <2>7. \A p \in 0..(Had(r)+a)-1 : history'[r][p + 1] = Token(rows, r, p)
    BY <2>2, <2>3, <2>4, <2>5, Zenon
  <2> QED BY <2>6, <2>7 DEF a
<1> HIDE DEF Kept, After
<1>8. history' \in Batch
  <2>1. history' = [r \in Index!Reqs |-> history'[r]]
    BY <1>2 DEF After
  <2> QED BY <1>7, <2>1 DEF Batch
<1>9. ASSUME NEW r \in Index!Reqs PROVE ring'[table[r]] = Index!Stored(rows, r)
  <2>1. (CHOOSE q \in Index!Reqs : table[q] = table[r]) = r
    BY DEF IndexInv
  <2>2. table[r] \in Index!Reqs
    BY DEF IndexInv
  <2> QED BY <1>1, <2>1, <2>2
<1>10. Index!UnfinishedGroupIsHeld'
  <2>1. SUFFICES ASSUME NEW r \in Index!Reqs,
                        NEW p \in (Len(history'[r]) - (Len(history'[r]) % Ratio))..Len(history'[r])-1
                 PROVE  ring'[table[r]][p % Ring] = [key |-> history'[r][p + 1], position |-> p]
    BY <1>3 DEF Index!UnfinishedGroupIsHeld, Index!Reqs
  <2> DEFINE n == Had(r) + accepted[r]
  <2>2. n \in Nat
    BY <1>5, <1>6
  <2>3. p \in Begun(n)..n-1
    BY <1>7, Zenon DEF Begun
  <2>4. p \in 0..n-1
    <3> HIDE DEF n
    <3>1. Begun(n) \in Nat
      BY <1>5, <2>2, Groups
    <3> QED BY <2>2, <2>3, <3>1
  <2>5. Index!Stored(rows, r)[Slot(p)] = [key |-> Token(rows, r, p), position |-> p]
    BY <1>4, <1>6, <2>3, StoredHolds
  <2>6. history'[r][p + 1] = Token(rows, r, p)
    BY <1>7, <2>4
  <2> QED BY <1>9, <2>5, <2>6 DEF Slot
<1>11. Index!PooledIsHistory'
  <2>1. \A r \in Index!Reqs : chunk'[r].base = history[r] /\ chunk'[r].rows = rows[r]
    BY <1>1
  <2>2. [q \in Index!Reqs |-> chunk'[q].rows] = rows
    <3>1. rows = [q \in Index!Reqs |-> rows[q]]
      OBVIOUS
    <3>2. [q \in Index!Reqs |-> chunk'[q].rows] = [q \in Index!Reqs |-> rows[q]]
      BY <2>1
    <3> QED BY <3>1, <3>2
  <2> DEFINE N == Index!NumRows(rows)
  <2>3. N \in Nat
    <3>1. 1 \in Index!Reqs
      BY DEF Index!CompressAssumption, Index!Reqs
    <3> QED BY <1>4, <3>1, RowsOf
  <2>4. ASSUME NEW r \in Index!Reqs, NEW i \in 1..Given(rows, r)
        PROVE  pooled'[Index!QueryStart(rows, r) + i] = Index!Pool(rows, Index!QueryStart(rows, r) + i - 1)
    <3> DEFINE start == Index!QueryStart(rows, r)
    <3>1. start \in Nat /\ start + Given(rows, r) <= N /\ Given(rows, r) \in Nat
      BY <1>4, RowsOf
    <3> HIDE DEF start, N
    <3>2. start + i \in 1..N+1 /\ (start + i) - 1 = start + i - 1
      BY <2>3, <3>1
    <3>3. \A row \in 1..N+1 : pooled'[row] = Index!Pool(rows, row - 1)
      BY <1>1 DEF N
    <3>4. pooled'[start + i] = Index!Pool(rows, (start + i) - 1)
      BY <3>2, <3>3
    <3> QED BY <3>2, <3>4 DEF start
  <2>5. ASSUME NEW r \in Index!Reqs, NEW i \in DOMAIN rows[r]
        PROVE  LET so_far == history[r] \o SubSeq(rows[r], 1, i)
                   row    == Index!QueryStart(rows, r) + i
               IN  Len(so_far) % Ratio = 0 =>
                     /\ pooled'[row].members = SubSeq(so_far, Len(so_far) - Ratio + 1, Len(so_far))
                     /\ pooled'[row].first = Len(so_far) - Ratio
    <3> DEFINE so_far == history[r] \o SubSeq(rows[r], 1, i)
               row    == Index!QueryStart(rows, r) + i
               n      == Had(r) + i
    <3>1. i \in 1..Len(rows[r]) /\ i \in 1..Given(rows, r)
      BY <1>5 DEF Given
    <3>2. Len(so_far) = n
      <4> DEFINE old == history[r]
                 added == rows[r]
      <4>1. old \in Seq(Keys) /\ added \in Seq(Keys) /\ i \in 0..Len(added)
        BY <1>5, <3>1
      <4>2. Len(old \o SubSeq(added, 1, i)) = Len(old) + i
        <5> HIDE DEF old, added
        <5> QED BY <4>1, Extended
      <4> QED BY <4>2 DEF Had
    <3>3. ASSUME n % Ratio = 0
          PROVE  pooled'[row].members = SubSeq(so_far, n - Ratio + 1, n) /\ pooled'[row].first = n - Ratio
      <4>1. Ends(Had(r) + i)
        BY <3>3, Zenon DEF Ends
      <4>2. LET pool == Index!Pool(rows, Index!QueryStart(rows, r) + i - 1)
            IN  pool.members = SubSeq(so_far, n - Ratio + 1, n) /\ pool.first = n - Ratio
        BY <1>4, <3>1, <4>1, GroupIsPooled
      <4> QED BY <2>4, <3>1, <4>2, Zenon
    <3> HIDE DEF so_far, row, n
    <3> QED BY <3>2, <3>3, Zenon DEF so_far, row
  <2>6. pooled'[Len(pooled')].members = <<>>
    <3>1. Len(pooled') = N + 1 /\ pooled'[N + 1] = Index!Pool(rows, N)
      <4>1. pooled' = [row \in 1..N+1 |-> Index!Pool(rows, row - 1)]
        BY <1>1
      <4> HIDE DEF N
      <4>2. N + 1 \in 1..N+1 /\ (N + 1) - 1 = N /\ N + 1 \in Nat
        BY <2>3
      <4>3. Len(pooled') = N + 1
        BY <4>1, <4>2
      <4> QED BY <4>1, <4>2, <4>3
    <3>2. Index!RequestOf(rows, N) = 0
      BY <1>4, RequestOfRow
    <3>3. Index!Pool(rows, N).members = <<>>
      BY <3>2 DEF Index!Pool
    <3> QED BY <3>1, <3>3
  <2> DEFINE Asked(g, r, i) ==
               LET so_far == chunk'[r].base \o SubSeq(chunk'[r].rows, 1, i)
                   row    == Index!QueryStart(g, r) + i
               IN  Len(so_far) % Ratio = 0 =>
                     /\ pooled'[row].members = SubSeq(so_far, Len(so_far) - Ratio + 1, Len(so_far))
                     /\ pooled'[row].first = Len(so_far) - Ratio
  <2>7. \A r \in Index!Reqs : \A i \in DOMAIN chunk'[r].rows : Asked(rows, r, i)
    BY <2>1, <2>5, ZenonT(60)
  <2>8. \A r \in Index!Reqs : \A i \in DOMAIN chunk'[r].rows :
          Asked([q \in Index!Reqs |-> chunk'[q].rows], r, i)
    <3> HIDE DEF Asked
    <3> QED BY <2>2, <2>7
  <2> QED BY <2>6, <2>8 DEF Index!PooledIsHistory, Index!QueryStart, Index!RowsUpTo, Index!Reqs
<1>12. DOMAIN ring' = Index!Reqs /\ \A b \in Index!Reqs : DOMAIN ring'[b] = 0..Ring-1
  BY <1>1 DEF Index!Stored
<1> QED
  <2>1. table' \in [Index!Reqs -> Index!Reqs] /\ \A r, q \in Index!Reqs : table'[r] = table'[q] => r = q
    BY <1>3 DEF IndexInv
  <2> QED BY <1>8, <1>10, <1>11, <1>12, <2>1, Zenon DEF IndexInv, Index!Reqs, Batch

LEMMA ReplaceKeeps ==
  ASSUME Index!CompressAssumption, IndexInv, NEW r \in Index!Reqs, Index!Replace(r) PROVE IndexInv'
<1>1. /\ history' = [history EXCEPT ![r] = <<>>] /\ chunk' = Index!NoBatch /\ pooled' = <<>>
      /\ UNCHANGED <<ring, table, rounds>>
  BY DEF Index!Replace
<1>2. history' \in Batch
  BY <1>1 DEF IndexInv, Batch
<1>3. Index!UnfinishedGroupIsHeld'
  <2>1. SUFFICES ASSUME NEW q \in Index!Reqs,
                        NEW p \in (Len(history'[q]) - (Len(history'[q]) % Ratio))..Len(history'[q])-1
                 PROVE  ring[table[q]][p % Ring] = [key |-> history'[q][p + 1], position |-> p]
    BY <1>1 DEF Index!UnfinishedGroupIsHeld, Index!Reqs
  <2>2. q # r
    <3>1. SUFFICES ASSUME q = r PROVE FALSE
      OBVIOUS
    <3>2. Len(history'[q]) = 0 /\ 0 % Ratio = 0
      BY <1>1, <3>1 DEF IndexInv, Batch, Index!CompressAssumption
    <3> QED BY <3>2
  <2>3. history'[q] = history[q]
    BY <1>1, <2>2 DEF IndexInv, Batch
  <2> QED BY <2>3 DEF IndexInv, Index!UnfinishedGroupIsHeld
<1>4. Index!PooledIsHistory'
  <2>1. \A q \in Index!Reqs : chunk'[q].rows = <<>>
    BY <1>1 DEF Index!NoBatch
  <2> QED BY <1>1, <2>1 DEF Index!PooledIsHistory, Index!Reqs
<1> QED BY <1>1, <1>2, <1>3, <1>4 DEF IndexInv, Index!Reqs

(* _compress_qsa_groups_kernel and _store_qsa_rows_kernel, for every batch,*)
(* ratio and number of drafts: with a ring that has Ratio + Drafts - 1     *)
(* places, which is what "wider than one group" comes to, every pooled key *)
(* is made of the tokens of its group, whatever was rejected, and the ring *)
(* holds the group that is being collected.                                *)
THEOREM PooledIsHistoryHolds ==
  ASSUME Index!CompressAssumption, RingIsWide
  PROVE  SpecSparse => []PooledIsHistory
<1>1. InitSparse => (scope = "index" => IndexInv)
  BY InitIndex DEF InitSparse
<1>2. IndexInv /\ [Index!Next]_(Index!vars) => IndexInv'
  <2>1. SUFFICES ASSUME IndexInv, [Index!Next]_(Index!vars) PROVE IndexInv'
    OBVIOUS
  <2>2. CASE UNCHANGED Index!vars
    <3> DEFINE Pooled(b, po) ==
                 /\ \A r \in Index!Reqs : \A i \in DOMAIN b[r].rows :
                      LET so_far == b[r].base \o SubSeq(b[r].rows, 1, i)
                          row    == Index!QueryStart([q \in Index!Reqs |-> b[q].rows], r) + i
                      IN  Len(so_far) % Ratio = 0 =>
                            /\ po[row].members = SubSeq(so_far, Len(so_far) - Ratio + 1, Len(so_far))
                            /\ po[row].first = Len(so_far) - Ratio
                 /\ po # <<>> => po[Len(po)].members = <<>>
    <3>1. Index!PooledIsHistory'
      <4>1. Pooled(chunk, pooled)
        BY <2>1, Zenon DEF IndexInv, Index!PooledIsHistory
      <4>2. chunk' = chunk /\ pooled' = pooled
        BY <2>2 DEF Index!vars
      <4>3. Pooled(chunk', pooled')
        <5> HIDE DEF Pooled
        <5> QED BY <4>1, <4>2
      <4> QED BY <4>3, Zenon DEF Index!PooledIsHistory, Index!QueryStart, Index!RowsUpTo, Index!Reqs
    <3>2. Index!UnfinishedGroupIsHeld'
      BY <2>1, <2>2, Zenon DEF Index!vars, IndexInv, Index!UnfinishedGroupIsHeld, Index!Reqs
    <3> QED BY <2>1, <2>2, <3>1, <3>2, Zenon DEF Index!vars, IndexInv, Index!Reqs, Batch
  <2> QED BY <2>1, <2>2, StepKeeps, ReplaceKeeps DEF Index!Next
<1>3. (scope = "index" => IndexInv) /\ [NextSparse]_sparseVars => (scope = "index" => IndexInv)'
  BY <1>2, StepOfOne
<1>4. (scope = "index" => IndexInv) => PooledIsHistory
  BY DEF IndexInv, PooledIsHistory
<1> QED BY <1>1, <1>3, <1>4, PTL DEF SpecSparse

-----------------------------------------------------------------------------
(* QsaAttention: the operators of the instance, and where the tiles are    *)

LEMMA KernelSum == ASSUME NEW f PROVE Kernel!SumFunction(f) = SumFunctionOnSet(f, DOMAIN f)
BY DEF Kernel!SumFunction, Kernel!SumFunctionOnSet, Kernel!FoldFunctionOnSet, Kernel!MapThenFoldSet,
       SumFunctionOnSet, FoldFunctionOnSet, MapThenFoldSet

LEMMA KernelCount == ASSUME NEW S PROVE Kernel!Cardinality(S) = Cardinality(S)
BY Zenon DEF Kernel!Cardinality, Cardinality

LEMMA KernelMax ==
  ASSUME NEW S \in SUBSET Int, IsFiniteSet(S), S # {}
  PROVE  /\ Kernel!Max(S) \in S /\ \A y \in S : Kernel!Max(S) >= y
         /\ Kernel!Min(S) \in S /\ \A y \in S : Kernel!Min(S) <= y
<1>1. (\E m \in S : \A y \in S : m >= y) /\ (\E m \in S : \A y \in S : m <= y)
  BY GreatestAndLeast
<1> QED BY <1>1 DEF Kernel!Max, Kernel!Min

LEMMA KernelMaxOfTwo ==
  ASSUME NEW a \in Int, NEW b \in Int
  PROVE  /\ Kernel!Max({a, b}) = IF a >= b THEN a ELSE b
         /\ Kernel!Min({a, b}) = IF a <= b THEN a ELSE b
<1>1. IsFiniteSet({a, b})
  <2>1. IsFiniteSet({a} \cup {b}) /\ {a} \cup {b} = {a, b}
    BY FS_Singleton, FS_Union
  <2> QED BY <2>1
<1>2. {a, b} \in SUBSET Int /\ {a, b} # {}
  OBVIOUS
<1>3. /\ Kernel!Max({a, b}) \in {a, b} /\ \A y \in {a, b} : Kernel!Max({a, b}) >= y
      /\ Kernel!Min({a, b}) \in {a, b} /\ \A y \in {a, b} : Kernel!Min({a, b}) <= y
  BY <1>1, <1>2, KernelMax
<1> QED BY <1>3

(* A configuration the caller may pass                                     *)
ConfigOK ==
  /\ Kernel!AttentionAssumption /\ cf \in Selections

Sel == 1..Len(cf.selected)

LEMMA ConfigTypes ==
  ASSUME ConfigOK
  PROVE  /\ PageSize \in Nat /\ PageSize > 0 /\ Blocks \in Nat /\ Blocks > 0 /\ KernelRequests \in Nat /\ MaxScore \in Nat
         /\ Len(cf.selected) \in Nat /\ Len(cf.selected) > 0 /\ Len(cf.table) \in Nat /\ Len(cf.table) > 0
         /\ DOMAIN cf.selected = Sel /\ \A i \in Sel : cf.selected[i] \in Int
         /\ \A i \in 1..Len(cf.table) : cf.table[i] \in Int
         /\ cf.request \in Int /\ cf.width \in Nat /\ cf.width > 0 /\ cf.target \in Nat /\ cf.target > 0
         /\ IsFiniteSet(Sel)
<1>1. IsFiniteSet(Sel)
  BY FS_Interval, LenProperties DEF Sel, ConfigOK, Kernel!AttentionAssumption
<1> QED BY <1>1, LenProperties DEF Sel, ConfigOK, Kernel!AttentionAssumption

LEMMA TilesOfPrograms ==
  ASSUME ConfigOK
  PROVE  /\ Kernel!NumTiles \in Nat /\ Kernel!NumTiles > 0 /\ Len(cf.selected) <= Kernel!NumTiles * cf.width
         /\ Kernel!NumSplits \in Nat /\ Kernel!NumSplits > 0 /\ Kernel!NumSplits <= Kernel!NumTiles
<1> DEFINE N == Len(cf.selected)
           T == Kernel!NumTiles
           P == {p \in {2^k : k \in 0..T} : p <= T}
<1>0. N \in Nat /\ N > 0 /\ cf.width \in Nat /\ cf.width > 0 /\ cf.target \in Nat /\ cf.target > 0
  BY ConfigTypes
<1>1. T \in Nat /\ T > 0 /\ N <= T * cf.width
  <2>1. T = (N + cf.width - 1) \div cf.width
    BY DEF Kernel!NumTiles, Kernel!CeilDiv
  <2>2. T \in Int /\ T * cf.width <= N + cf.width - 1 /\ N + cf.width - 1 < T * cf.width + cf.width
    <3> DEFINE a == N + cf.width - 1
    <3>1. a \in Int /\ cf.width \in Nat \ {0} /\ T = a \div cf.width
      BY <1>0, <2>1
    <3> HIDE DEF T, N, a
    <3>2. T \in Int /\ T * cf.width <= a /\ a < T * cf.width + cf.width
      BY <3>1, DivideBounds
    <3> QED BY <3>2 DEF a
  <2>3. T * cf.width > 0 /\ N <= T * cf.width
    <3> HIDE DEF T, N
    <3>1. T * cf.width \in Int
      BY <1>0, <2>2
    <3> QED BY <1>0, <2>2, <3>1
  <2>4. T > 0
    <3> HIDE DEF T, N
    <3> QED BY <1>0, <2>2, <2>3
  <2> QED BY <2>2, <2>3, <2>4
<1> HIDE DEF T
<1>2. P \in SUBSET Int /\ IsFiniteSet(P) /\ P # {} /\ \A p \in P : p > 0 /\ p <= T
  <2>1. \A k \in 0..T : 2^k \in Nat /\ 2^k > 0
    BY <1>1, TwoType
  <2>2. P \subseteq 1..T
    BY <1>1, <2>1
  <2>3. IsFiniteSet(1..T)
    BY <1>1, FS_Interval
  <2>4. IsFiniteSet(P)
    BY <2>2, <2>3, FS_Subset
  <2>5. 2^0 = 1 /\ 0 \in 0..T
    BY <1>1
  <2>6. 1 \in P
    <3>1. 1 \in {2^k : k \in 0..T}
      BY <2>5
    <3> QED BY <1>1, <3>1
  <2>7. \A p \in P : p > 0 /\ p <= T /\ p \in Int
    BY <1>1, <2>2
  <2> HIDE DEF P
  <2> QED BY <2>4, <2>6, <2>7
<1>3. Kernel!PowerBelow(T) \in Nat /\ Kernel!PowerBelow(T) > 0 /\ Kernel!PowerBelow(T) <= T
  <2>1. Kernel!PowerBelow(T) = Kernel!Max(P)
    BY DEF Kernel!PowerBelow
  <2>2. Kernel!Max(P) \in P
    <3> HIDE DEF P
    <3> QED BY <1>2, KernelMax
  <2> QED BY <1>1, <1>2, <2>1, <2>2
<1>4. Kernel!NumSplits = IF Kernel!PowerBelow(T) <= cf.target THEN Kernel!PowerBelow(T) ELSE cf.target
  <2>1. Kernel!NumSplits = Kernel!Min({Kernel!PowerBelow(T), cf.target})
    BY DEF Kernel!NumSplits, T
  <2> DEFINE b == Kernel!PowerBelow(T)
  <2>2. b \in Int /\ cf.target \in Int
    BY <1>0, <1>3
  <2> HIDE DEF b
  <2>3. Kernel!Min({b, cf.target}) = IF b <= cf.target THEN b ELSE cf.target
    BY <2>2, KernelMaxOfTwo
  <2> QED BY <2>1, <2>3 DEF b
<1> QED BY <1>0, <1>1, <1>3, <1>4 DEF T

(* The tiles of the programs follow one another.                           *)
LEMMA TilesFollow ==
  ASSUME ConfigOK
  PROVE  /\ Kernel!FirstTile(0) = 0 /\ Kernel!FirstTile(Kernel!NumSplits) = Kernel!NumTiles
         /\ \A s \in 0..Kernel!NumSplits : Kernel!FirstTile(s) \in Nat
         /\ \A s \in Kernel!Programs : /\ s \in Nat /\ s + 1 \in 0..Kernel!NumSplits /\ s \in 0..Kernel!NumSplits
                                       /\ Kernel!FirstTile(s) < Kernel!FirstTile(s + 1)
<1> DEFINE T == Kernel!NumTiles
           n == Kernel!NumSplits
<1>1. T \in Nat /\ T > 0 /\ n \in Nat /\ n > 0 /\ n <= T
  BY TilesOfPrograms
<1>2. \A s : Kernel!FirstTile(s) = (s * T) \div n
  BY DEF Kernel!FirstTile
<1>3. Kernel!Programs = 0..n-1
  BY DEF Kernel!Programs
<1> HIDE DEF T, n
<1>4. (0 * T) \div n = 0 /\ (n * T) \div n = T
  <2>1. n * T = T * n /\ 0 * T = 0 /\ 0 = 0 * n
    BY <1>1
  <2> QED BY <1>1, <2>1, DivideExact
<1>5. ASSUME NEW s \in 0..n PROVE (s * T) \div n \in Nat
  <2>1. s * T \in Nat
    BY <1>1
  <2> QED BY <1>1, <2>1
<1>6. ASSUME NEW s \in 0..n-1 PROVE (s * T) \div n < ((s + 1) * T) \div n
  <2> DEFINE a == s * T
             q == a \div n
             r == (a + T) \div n
  <2>1. (s + 1) * T = a + T /\ a \in Nat
    BY <1>1
  <2> HIDE DEF a
  <2>2. q \in Int /\ q * n <= a /\ a < q * n + n /\ r \in Int /\ r * n <= a + T /\ a + T < r * n + n
    BY <1>1, <2>1, DivideBounds
  <2> HIDE DEF q, r
  <2>3. (q + 1) * n < r * n + n
    BY <1>1, <2>1, <2>2
  <2>4. q < r
    BY <1>1, <2>2, <2>3
  <2> QED BY <2>1, <2>4 DEF q, r, a
<1>7. \A s \in 0..n-1 : s \in Nat /\ s + 1 \in 0..n /\ s \in 0..n
  BY <1>1
<1>8. Kernel!FirstTile(0) = 0 /\ Kernel!FirstTile(n) = T
  BY <1>2, <1>4
<1>9. \A s \in 0..n : Kernel!FirstTile(s) \in Nat
  BY <1>2, <1>5
<1>10. \A s \in 0..n-1 : Kernel!FirstTile(s) < Kernel!FirstTile(s + 1)
  BY <1>2, <1>6
<1> QED BY <1>3, <1>7, <1>8, <1>9, <1>10 DEF T, n

(* The cell of a selected token                                            *)
Cell(i) == Kernel!CellOf(cf.selected[i])
All == {i \in Sel : Cell(i) # Kernel!None}

LEMMA CellTypes ==
  ASSUME ConfigOK
  PROVE  /\ IsFiniteSet(All) /\ All \subseteq Sel /\ All \subseteq Nat \ {0} /\ \A i \in All : Cell(i) \in Kernel!Cells
         /\ \A c \in Kernel!Cells : Kernel!Score(c) \in 0..MaxScore /\ c # Kernel!None
         /\ IsFiniteSet(Kernel!Cells)
<1>0. /\ PageSize \in Nat /\ PageSize > 0 /\ Blocks \in Nat /\ MaxScore \in Nat /\ IsFiniteSet(Sel)
      /\ \A i \in Sel : cf.selected[i] \in Int
  BY ConfigTypes
<1>1. IsFiniteSet(All) /\ All \subseteq Sel /\ All \subseteq Nat \ {0}
  <2>1. All \subseteq Sel
    BY DEF All
  <2>2. IsFiniteSet(All)
    BY <1>0, <2>1, FS_Subset
  <2>3. Sel \subseteq Nat \ {0}
    BY DEF Sel
  <2> QED BY <2>1, <2>2, <2>3
<1>2. ASSUME NEW i \in All PROVE Cell(i) \in Kernel!Cells
  <2> DEFINE token == cf.selected[i]
             m == Kernel!Max({token, 0})
             page == cf.table[Kernel!Min({m \div PageSize, Len(cf.table) - 1}) + 1]
  <2>1. Cell(i) = <<page, m % PageSize>> /\ page \in 0..Blocks-1
    BY DEF All, Cell, Kernel!CellOf
  <2>2. token \in Int
    BY <1>0, <1>1
  <2>3. m \in Int
    <3> HIDE DEF token
    <3> QED BY <2>2, KernelMaxOfTwo
  <2> HIDE DEF m, page
  <2>4. m % PageSize \in 0..PageSize-1
    BY <1>0, <2>3
  <2> QED BY <2>1, <2>4 DEF Kernel!Cells
<1>3. ASSUME NEW c \in Kernel!Cells PROVE Kernel!Score(c) \in 0..MaxScore /\ c # Kernel!None
  <2>1. c[1] \in 0..Blocks-1 /\ c[2] \in 0..PageSize-1
    BY DEF Kernel!Cells
  <2> DEFINE a == c[1] * PageSize + c[2]
  <2>2. a \in Int
    BY <1>0, <2>1
  <2> HIDE DEF a
  <2>3. a % (MaxScore + 1) \in 0..MaxScore
    BY <1>0, <2>2
  <2> QED BY <2>1, <2>3 DEF Kernel!Score, a, Kernel!None
<1>4. IsFiniteSet(Kernel!Cells)
  <2>1. IsFiniteSet(0..Blocks-1) /\ IsFiniteSet(0..PageSize-1)
    BY <1>0, FS_Interval
  <2> QED BY <2>1, FS_Product DEF Kernel!Cells
<1> QED BY <1>1, <1>2, <1>3, <1>4

(* It is where the caller means it to be.                                  *)
LEMMA MeantIsCell ==
  ASSUME ConfigOK, NEW i \in Sel PROVE Kernel!Meant(i) = Cell(i)
<1> DEFINE t == cf.selected[i]
           p == t \div PageSize
           L == Len(cf.table)
<1>0. PageSize \in Nat /\ PageSize > 0 /\ t \in Int /\ L \in Nat /\ L > 0
  BY ConfigTypes
<1>1. p \in Int /\ p * PageSize <= t /\ t < p * PageSize + PageSize
  <2> HIDE DEF t
  <2> QED BY <1>0, DivideBounds
<1> HIDE DEF t, L
<1>2. CASE t >= 0
  <2>1. Kernel!Max({t, 0}) = t
    BY <1>0, <1>2, KernelMaxOfTwo
  <2>2. p < L <=> t \in 0..L*PageSize-1
    <3> HIDE DEF p
    <3>1. CASE p < L
      <4>1. (p + 1) * PageSize <= L * PageSize
        BY <1>0, <1>1, <3>1
      <4> QED BY <1>0, <1>1, <1>2, <3>1, <4>1
    <3>2. CASE ~(p < L)
      <4>1. L * PageSize <= p * PageSize
        BY <1>0, <1>1, <3>2
      <4> QED BY <1>0, <1>1, <1>2, <3>2, <4>1
    <3> QED BY <3>1, <3>2
  <2>3. p < L => Kernel!Min({p, L - 1}) = p
    <3> DEFINE e == L - 1
    <3>1. e \in Int /\ p \in Int
      BY <1>0, <1>1
    <3> HIDE DEF p, e
    <3>2. Kernel!Min({p, e}) = IF p <= e THEN p ELSE e
      BY <3>1, KernelMaxOfTwo
    <3> QED BY <1>0, <3>1, <3>2 DEF e
  <2> QED BY <1>2, <2>1, <2>2, <2>3 DEF Cell, Kernel!CellOf, Kernel!Meant, Kernel!ValidPage, t, L, p
<1>3. CASE ~(t >= 0)
  <2>1. ~(t \in 0..L*PageSize-1)
    BY <1>0, <1>3
  <2> QED BY <1>3, <2>1 DEF Cell, Kernel!CellOf, Kernel!Meant, t, L
<1> QED BY <1>2, <1>3

-----------------------------------------------------------------------------
(* Arithmetic of the weights                                               *)
Factor(m) == 2^(2 * MaxScore - m)

LEMMA FactorType ==
  ASSUME ConfigOK, NEW m \in {Kernel!NoScore} \cup 0..MaxScore
  PROVE  Factor(m) \in Nat /\ Factor(m) > 0 /\ m \in Int
<1>1. MaxScore \in Nat
  BY ConfigTypes
<1>2. m \in Int /\ 2 * MaxScore - m \in Nat
  BY <1>1 DEF Kernel!NoScore
<1> QED BY <1>2, TwoType DEF Factor

LEMMA WeightIs ==
  ASSUME ConfigOK, NEW sc \in 0..MaxScore, NEW new \in 0..MaxScore, sc <= new
  PROVE  Kernel!Weight(sc, new) = Factor(new) * 2^sc
<1>1. MaxScore \in Nat /\ sc \in Nat /\ new \in Nat
  BY ConfigTypes
<1> DEFINE k == 2 * MaxScore - new
           d == new - sc
<1>2. k \in Nat /\ d \in Nat /\ k + sc \in Nat /\ 2 * MaxScore = (k + sc) + d
  BY <1>1
<1> HIDE DEF k, d
<1>3. 2^(2 * MaxScore) = 2^(k + sc) * 2^d /\ 2^(k + sc) = 2^k * 2^sc
  BY <1>1, <1>2, TwoSum
<1>4. 2^(k + sc) \in Int /\ 2^d \in Nat \ {0}
  BY <1>2, TwoType
<1>5. (2^(k + sc) * 2^d) \div 2^d = 2^(k + sc)
  BY <1>4, DivideExact
<1> QED BY <1>3, <1>5 DEF Kernel!Weight, Kernel!Unit, Factor, k, d

LEMMA RescaledIs ==
  ASSUME ConfigOK, NEW old \in {Kernel!NoScore} \cup 0..MaxScore, NEW new \in {Kernel!NoScore} \cup 0..MaxScore,
         old <= new, NEW y \in Int, old = Kernel!NoScore => y = 0
  PROVE  Kernel!Rescaled(Factor(old) * y, old, new) = Factor(new) * y
<1>1. MaxScore \in Nat /\ Factor(old) \in Nat /\ Factor(new) \in Nat
  BY ConfigTypes, FactorType
<1>2. CASE old = Kernel!NoScore
  BY <1>1, <1>2 DEF Kernel!Rescaled
<1>3. CASE old # Kernel!NoScore
  <2> DEFINE k == 2 * MaxScore - new
             d == new - old
  <2>1. k \in Nat /\ d \in Nat /\ 2 * MaxScore - old = k + d
    BY <1>1, <1>3 DEF Kernel!NoScore
  <2> HIDE DEF k, d
  <2>2. 2^(2 * MaxScore - old) = 2^k * 2^d /\ 2^k \in Nat /\ 2^d \in Nat \ {0}
    <3>1. 2^(k + d) = 2^k * 2^d
      BY <2>1, TwoSum
    <3>2. 2^k \in Nat /\ 2^d \in Nat /\ 2^d > 0
      BY <2>1, TwoType
    <3>3. 2^(2 * MaxScore - old) = 2^(k + d)
      BY <2>1
    <3>4. \A x \in Nat : x > 0 => x \in Nat \ {0}
      OBVIOUS
    <3> QED BY <3>1, <3>2, <3>3, <3>4, Zenon
  <2> DEFINE a == 2^k
             b == 2^d
  <2> HIDE DEF a, b
  <2>3. a \in Nat /\ b \in Nat \ {0} /\ a * y \in Int /\ (a * b) * y = (a * y) * b
    BY <2>2 DEF a, b
  <2>4. ((a * y) * b) \div b = a * y
    BY <2>3, DivideExact
  <2>5. Factor(old) = a * b /\ Factor(new) = a
    BY <2>2 DEF Factor, a, b, k
  <2>6. Kernel!Rescaled(Factor(old) * y, old, new) = (Factor(old) * y) \div b
    BY <1>3 DEF Kernel!Rescaled, b, d
  <2> QED BY <2>3, <2>4, <2>5, <2>6
<1> QED BY <1>2, <1>3

-----------------------------------------------------------------------------
(* What a part that has seen the columns V holds                           *)
Worth == [i \in All |-> 2^Kernel!Score(Cell(i))]
WorthOf(V) == SumFunctionOnSet(Worth, V)
Hits(V, c) == Cardinality({i \in V : Cell(i) = c})

Good(r, V) ==
  /\ r.max \in {Kernel!NoScore} \cup 0..MaxScore
  /\ V = {} <=> r.max = Kernel!NoScore
  /\ r.norm = Factor(r.max) * WorthOf(V)
  /\ \A c \in Kernel!Cells : r.sum[c] = Factor(r.max) * (Hits(V, c) * 2^Kernel!Score(c))

LEMMA WorthTypes ==
  ASSUME ConfigOK
  PROVE  /\ \A i \in All : Worth[i] = 2^Kernel!Score(Cell(i)) /\ Worth[i] \in Int /\ Worth[i] > 0
         /\ \A V \in SUBSET All : /\ IsFiniteSet(V) /\ WorthOf(V) \in Nat /\ (V = {} <=> WorthOf(V) = 0)
                                  /\ \A c : Hits(V, c) \in Nat
         /\ \A c \in Kernel!Cells : 2^Kernel!Score(c) \in Nat /\ 2^Kernel!Score(c) > 0
<1>1. \A c \in Kernel!Cells : 2^Kernel!Score(c) \in Nat /\ 2^Kernel!Score(c) > 0
  <2>1. \A c \in Kernel!Cells : Kernel!Score(c) \in Nat
    BY CellTypes, ConfigTypes
  <2> QED BY <2>1, TwoType
<1>2. \A i \in All : Worth[i] = 2^Kernel!Score(Cell(i)) /\ Worth[i] \in Int /\ Worth[i] > 0
  BY <1>1, CellTypes DEF Worth
<1>3. ASSUME NEW V \in SUBSET All
      PROVE  /\ IsFiniteSet(V) /\ WorthOf(V) \in Nat /\ (V = {} <=> WorthOf(V) = 0)
             /\ \A c : Hits(V, c) \in Nat
  <2>1. IsFiniteSet(V)
    BY CellTypes, FS_Subset
  <2>2. WorthOf(V) \in Nat /\ (V # {} => WorthOf(V) > 0)
    BY <1>2, <2>1, SumPositive DEF WorthOf
  <2>3. V = {} => WorthOf(V) = 0
    BY SumOfNone DEF WorthOf
  <2>4. ASSUME NEW c PROVE Hits(V, c) \in Nat
    <3>1. IsFiniteSet({i \in V : Cell(i) = c})
      BY <2>1, FS_Subset
    <3> QED BY <3>1, FS_CardinalityType DEF Hits
  <2> QED BY <2>1, <2>2, <2>3, <2>4
<1> QED BY <1>1, <1>2, <1>3

LEMMA HitsAdd ==
  ASSUME NEW V, IsFiniteSet(V), NEW A, IsFiniteSet(A), V \cap A = {}, NEW c
  PROVE  Hits(V \cup A, c) = Hits(V, c) + Hits(A, c)
<1> DEFINE X == {i \in V : Cell(i) = c}
           Y == {i \in A : Cell(i) = c}
<1>1. {i \in V \cup A : Cell(i) = c} = X \cup Y /\ X \cap Y = {}
  OBVIOUS
<1>2. IsFiniteSet(X) /\ IsFiniteSet(Y)
  BY FS_Subset
<1> HIDE DEF X, Y
<1>3. Cardinality(X \cup Y) = Cardinality(X) + Cardinality(Y)
  <2>1. /\ Cardinality(X \cup Y) = Cardinality(X) + Cardinality(Y) - Cardinality(X \cap Y)
        /\ Cardinality(X) \in Nat /\ Cardinality(Y) \in Nat
    BY <1>2, FS_Union, FS_CardinalityType
  <2>2. Cardinality(X \cap Y) = 0
    <3>1. Cardinality({}) = 0
      BY FS_EmptySet
    <3> QED BY <1>1, <3>1
  <2> QED BY <2>1, <2>2
<1> QED BY <1>1, <1>3 DEF Hits, X, Y

(* One more tile: the columns A                                            *)
LEMMA OneTile ==
  ASSUME ConfigOK, NEW V \in SUBSET All, NEW A \in SUBSET All, V \cap A = {}, NEW r, Good(r, V),
         NEW new, new = Kernel!Max({r.max} \union {Kernel!Score(Cell(i)) : i \in A}),
         NEW q,
         q.max = new,
         q.norm = Kernel!Rescaled(r.norm, r.max, new)
                    + Kernel!SumFunction([i \in A |-> Kernel!Weight(Kernel!Score(Cell(i)), new)]),
         \A c \in Kernel!Cells : q.sum[c] = Kernel!Rescaled(r.sum[c], r.max, new)
            + IF \E i \in A : Cell(i) = c
              THEN Kernel!Cardinality({i \in A : Cell(i) = c}) * Kernel!Weight(Kernel!Score(c), new) ELSE 0
  PROVE  Good(q, V \cup A)
<1> DEFINE old == r.max
           M == {old} \union {Kernel!Score(Cell(i)) : i \in A}
<1>0. /\ MaxScore \in Nat /\ old \in {Kernel!NoScore} \cup 0..MaxScore
      /\ IsFiniteSet(V) /\ IsFiniteSet(A)
      /\ \A i \in A : Kernel!Score(Cell(i)) \in 0..MaxScore
  BY ConfigTypes, CellTypes, WorthTypes DEF Good
<1>1. new \in M /\ \A y \in M : new >= y
  <2>1. IsFiniteSet(M)
    <3>1. IsFiniteSet({old}) /\ IsFiniteSet(0..MaxScore)
      <4>1. IsFiniteSet({old})
        BY FS_Singleton
      <4>2. 0 \in Int /\ MaxScore \in Int
        BY <1>0
      <4>3. IsFiniteSet(0..MaxScore)
        BY <4>2, FS_Interval
      <4> QED BY <4>1, <4>3
    <3>2. IsFiniteSet({old} \cup 0..MaxScore)
      BY <3>1, FS_Union
    <3>3. M \subseteq {old} \cup 0..MaxScore
      BY <1>0
    <3> QED BY <3>2, <3>3, FS_Subset
  <2>2. M \in SUBSET Int /\ M # {}
    BY <1>0 DEF Kernel!NoScore
  <2>3. new = Kernel!Max(M)
    OBVIOUS
  <2> HIDE DEF M
  <2>4. Kernel!Max(M) \in M /\ \A y \in M : Kernel!Max(M) >= y
    BY <2>1, <2>2, KernelMax
  <2> QED BY <2>3, <2>4
<1>2. /\ new \in {Kernel!NoScore} \cup 0..MaxScore /\ old <= new
      /\ \A i \in A : Kernel!Score(Cell(i)) <= new
  BY <1>0, <1>1
<1>3. V \cup A = {} <=> new = Kernel!NoScore
  <2>1. V = {} <=> old = Kernel!NoScore
    BY DEF Good
  <2> QED BY <1>0, <1>1, <1>2, <2>1 DEF Kernel!NoScore
<1>4. A # {} => new \in 0..MaxScore
  BY <1>0, <1>2 DEF Kernel!NoScore
<1> DEFINE F == Factor(new)
           B == V \cup A
<1>5. F \in Nat
  BY <1>2, FactorType
<1>6. q.norm = F * WorthOf(B)
  <2>1. WorthOf(B) = WorthOf(V) + WorthOf(A) /\ WorthOf(V) \in Nat /\ WorthOf(A) \in Nat
    <3>1. \A i \in V \cup A : Worth[i] \in Int
      BY WorthTypes
    <3> QED BY <1>0, <3>1, WorthTypes, SumUnion DEF WorthOf
  <2>2. Kernel!Rescaled(r.norm, old, new) = F * WorthOf(V)
    <3>1. old = Kernel!NoScore => WorthOf(V) = 0
      BY WorthTypes DEF Good
    <3>2. Kernel!Rescaled(Factor(old) * WorthOf(V), old, new) = F * WorthOf(V)
      BY <1>0, <1>2, <2>1, <3>1, RescaledIs
    <3> QED BY <3>2 DEF Good
  <2>3. Kernel!SumFunction([i \in A |-> Kernel!Weight(Kernel!Score(Cell(i)), new)]) = F * WorthOf(A)
    <3> DEFINE g == [i \in A |-> Kernel!Weight(Kernel!Score(Cell(i)), new)]
    <3>1. \A i \in A : g[i] = F * Worth[i]
      <4>1. ASSUME NEW i \in A PROVE Kernel!Weight(Kernel!Score(Cell(i)), new) = F * 2^Kernel!Score(Cell(i))
        BY <1>0, <1>2, <1>4, WeightIs
      <4> QED BY <4>1, WorthTypes
    <3>2. \A i \in A : Worth[i] \in Int
      BY WorthTypes
    <3>3. DOMAIN g = A
      OBVIOUS
    <3> HIDE DEF g, F
    <3>4. SumFunctionOnSet(g, A) = F * SumFunctionOnSet(Worth, A)
      BY <1>0, <1>5, <3>1, <3>2, SumScales
    <3>5. Kernel!SumFunction(g) = SumFunctionOnSet(g, A)
      BY <3>3, KernelSum
    <3> QED BY <3>4, <3>5 DEF WorthOf, g
  <2> HIDE DEF F, B
  <2>4. F * (WorthOf(V) + WorthOf(A)) = F * WorthOf(V) + F * WorthOf(A)
    BY <1>5, <2>1
  <2> QED BY <2>1, <2>2, <2>3, <2>4
<1>7. ASSUME NEW c \in Kernel!Cells PROVE q.sum[c] = F * (Hits(B, c) * 2^Kernel!Score(c))
  <2> DEFINE w == 2^Kernel!Score(c)
             x == Hits(V, c)
             y == Hits(A, c)
  <2>1. w \in Nat /\ x \in Nat /\ y \in Nat /\ Kernel!Score(c) \in 0..MaxScore
    BY WorthTypes, CellTypes
  <2>2. Hits(B, c) = x + y
    BY <1>0, HitsAdd
  <2>3. Kernel!Rescaled(r.sum[c], old, new) = F * (x * w)
    <3>1. old = Kernel!NoScore => x = 0
      <4>1. V = {} => {i \in V : Cell(i) = c} = {}
        OBVIOUS
      <4>2. Cardinality({}) = 0
        BY FS_EmptySet
      <4> QED BY <4>1, <4>2 DEF Good, Hits
    <3> DEFINE z == x * w
    <3>2. z \in Int /\ (old = Kernel!NoScore => z = 0)
      <4> HIDE DEF x, w
      <4> QED BY <2>1, <3>1
    <3> HIDE DEF z
    <3>3. Kernel!Rescaled(Factor(old) * z, old, new) = F * z
      BY <1>0, <1>2, <3>2, RescaledIs
    <3>4. r.sum[c] = Factor(old) * z
      BY DEF Good, z
    <3> QED BY <3>3, <3>4 DEF z
  <2>4. (IF \E i \in A : Cell(i) = c
         THEN Kernel!Cardinality({i \in A : Cell(i) = c}) * Kernel!Weight(Kernel!Score(c), new) ELSE 0)
        = F * (y * w)
    <3>1. CASE \E i \in A : Cell(i) = c
      <4>1. Kernel!Weight(Kernel!Score(c), new) = F * w
        BY <1>2, <1>4, <2>1, <3>1, WeightIs
      <4>2. Kernel!Cardinality({i \in A : Cell(i) = c}) = y
        BY KernelCount DEF Hits
      <4> HIDE DEF F, w, y
      <4>3. y * (F * w) = F * (y * w)
        BY <1>5, <2>1
      <4> QED BY <3>1, <4>1, <4>2, <4>3
    <3>2. CASE ~(\E i \in A : Cell(i) = c)
      <4>1. {i \in A : Cell(i) = c} = {} /\ Cardinality({}) = 0
        BY <3>2, FS_EmptySet
      <4>2. y = 0
        BY <4>1 DEF Hits
      <4> HIDE DEF F, w, y
      <4> QED BY <1>5, <2>1, <3>2, <4>2
    <3> QED BY <3>1, <3>2
  <2>5. q.sum[c] = F * (x * w) + F * (y * w)
    BY <2>3, <2>4
  <2> HIDE DEF F, w, x, y
  <2>6. F * (x * w) + F * (y * w) = F * ((x + y) * w)
    BY <1>5, <2>1
  <2> QED BY <2>2, <2>5, <2>6 DEF w
<1> QED BY <1>2, <1>3, <1>6, <1>7 DEF Good

-----------------------------------------------------------------------------
(* The columns a program has behind it at tile t                           *)
Below(s, t) == {i \in All : Kernel!FirstTile(s) * cf.width < i /\ i <= t * cf.width}
Part(s) == Below(s, Kernel!FirstTile(s + 1))

LEMMA TileAdds ==
  ASSUME ConfigOK, NEW s \in Kernel!Programs, NEW t \in Nat, Kernel!FirstTile(s) <= t
  PROVE  /\ Below(s, t + 1) = Below(s, t) \cup Kernel!ValidColumns(t)
         /\ Below(s, t) \cap Kernel!ValidColumns(t) = {}
         /\ Below(s, t) \in SUBSET All /\ Kernel!ValidColumns(t) \in SUBSET All
         /\ Below(s, Kernel!FirstTile(s)) = {}
<1> DEFINE w == cf.width
           F == Kernel!FirstTile(s)
<1>1. w \in Nat /\ w > 0 /\ F \in Nat /\ Len(cf.selected) \in Nat
  BY ConfigTypes, TilesFollow
<1>2. F * w \in Nat /\ t * w \in Nat /\ F * w <= t * w /\ (t + 1) * w = t * w + w
  BY <1>1
<1> DEFINE a == F * w
           b == t * w
           d == (t + 1) * w
<1>3. Kernel!ValidColumns(t) = {i \in All : b < i /\ i <= d}
  <2>1. Kernel!ValidColumns(t) = {i \in {j \in b+1..d : j <= Len(cf.selected)} : Cell(i) # Kernel!None}
    BY DEF Kernel!ValidColumns, Kernel!Columns, Cell
  <2>2. All = {i \in 1..Len(cf.selected) : Cell(i) # Kernel!None}
    BY DEF All, Sel
  <2>3. b \in Nat /\ d \in Nat
    BY <1>1, <1>2
  <2> HIDE DEF b, d
  <2> QED BY <1>1, <2>1, <2>2, <2>3
<1>4. \A i \in All : i \in Nat
  BY CellTypes
<1>5. \A u : Below(s, u) = {i \in All : a < i /\ i <= u * w}
  BY DEF Below
<1>6. a \in Nat /\ b \in Nat /\ a <= b /\ d = b + w
  BY <1>2
<1>7. Below(s, t + 1) = {i \in All : a < i /\ i <= d} /\ Below(s, t) = {i \in All : a < i /\ i <= b}
  BY <1>5
<1>8. Below(s, F) = {i \in All : a < i /\ i <= a}
  BY <1>5
<1> HIDE DEF a, b, d, w
<1>9. Below(s, F) = {}
  BY <1>4, <1>6, <1>8
<1> QED BY <1>1, <1>3, <1>4, <1>6, <1>7, <1>9 DEF F

(* The parts of the programs are apart, and are all columns together.      *)
LEMMA PartsOfAll ==
  ASSUME ConfigOK
  PROVE  /\ IsFiniteSet(Kernel!Programs) /\ Kernel!Programs # {} /\ 0 \in Kernel!Programs
         /\ \A s \in Kernel!Programs : Part(s) \in SUBSET All
         /\ \A s, t \in Kernel!Programs : s # t => Part(s) \cap Part(t) = {}
         /\ UNION {Part(s) : s \in Kernel!Programs} = All
<1> DEFINE n == Kernel!NumSplits
           w == cf.width
           T == Kernel!NumTiles
<1>1. /\ w \in Nat /\ w > 0 /\ n \in Nat /\ n > 0 /\ T \in Nat /\ T > 0
      /\ Len(cf.selected) \in Nat /\ Len(cf.selected) <= T * w
      /\ Kernel!Programs = 0..n-1 /\ All \subseteq 1..Len(cf.selected)
  BY ConfigTypes, TilesOfPrograms, CellTypes DEF Kernel!Programs, Sel
<1>2. /\ Kernel!FirstTile(0) = 0 /\ Kernel!FirstTile(n) = T
      /\ \A s \in 0..n : Kernel!FirstTile(s) \in Nat
  BY TilesFollow
<1>3. ASSUME NEW s \in 0..n, NEW t \in 0..n, s <= t PROVE Kernel!FirstTile(s) <= Kernel!FirstTile(t)
  <2> DEFINE a == s * T
             b == t * T
             q == a \div n
             r == b \div n
  <2>1. a \in Int /\ b \in Int /\ a <= b
    BY <1>1, <1>3
  <2> HIDE DEF a, b
  <2>2. q \in Int /\ q * n <= a /\ a < q * n + n /\ r \in Int /\ r * n <= b /\ b < r * n + n
    BY <1>1, <2>1, DivideBounds
  <2> HIDE DEF q, r
  <2>3. q * n < (r + 1) * n
    BY <1>1, <2>1, <2>2
  <2>4. q <= r
    BY <1>1, <2>2, <2>3
  <2> QED BY <2>4 DEF q, r, a, b, Kernel!FirstTile
<1> DEFINE E(s) == Kernel!FirstTile(s) * w
<1>4. \A s : Part(s) = {i \in All : E(s) < i /\ i <= E(s + 1)}
  BY DEF Part, Below
<1>5. /\ E(0) = 0 /\ E(n) = T * w
      /\ \A s \in 0..n : E(s) \in Nat
      /\ \A s, t \in 0..n : s <= t => E(s) <= E(t)
  BY <1>1, <1>2, <1>3
<1> HIDE DEF E, n, w, T
<1>6. IsFiniteSet(Kernel!Programs) /\ 0 \in Kernel!Programs
  BY <1>1, FS_Interval
<1>7. ASSUME NEW s \in Kernel!Programs, NEW t \in Kernel!Programs, s < t PROVE Part(s) \cap Part(t) = {}
  <2>1. s \in 0..n /\ t \in 0..n /\ s + 1 \in 0..n /\ s + 1 <= t
    BY <1>1, <1>7
  <2>2. E(s + 1) <= E(t) /\ E(s + 1) \in Nat /\ E(t) \in Nat
    BY <1>5, <2>1
  <2>3. ASSUME NEW i \in Part(s), i \in Part(t) PROVE FALSE
    <3>1. i \in All /\ i <= E(s + 1) /\ E(t) < i
      BY <1>4, <2>3
    <3>2. i \in Nat
      BY <1>1, <3>1
    <3> QED BY <2>2, <3>1, <3>2
  <2> QED BY <2>3
<1>8. ASSUME NEW i \in All PROVE \E s \in Kernel!Programs : i \in Part(s)
  <2> DEFINE S == {s \in 0..n-1 : E(s) < i}
  <2>1. i \in Nat /\ 0 < i /\ i <= T * w /\ T * w \in Nat
    BY <1>1
  <2>2. S \in SUBSET Int /\ IsFiniteSet(S) /\ S # {}
    <3>1. 0 \in S
      BY <1>1, <1>5, <2>1
    <3>2. IsFiniteSet(0..n-1)
      BY <1>1, FS_Interval
    <3> QED BY <1>1, <3>1, <3>2, FS_Subset
  <2>3. PICK m \in S : \A s \in S : m >= s
    <3> HIDE DEF S
    <3> QED BY <2>2, GreatestAndLeast
  <2>4. m \in 0..n-1 /\ m + 1 \in 0..n /\ E(m) < i
    BY <1>1, <2>3
  <2>5. i <= E(m + 1)
    <3>1. CASE m + 1 = n
      BY <1>5, <2>1, <3>1
    <3>2. CASE m + 1 # n
      <4>1. m + 1 \in 0..n-1 /\ m + 1 \notin S
        BY <1>1, <2>3, <2>4, <3>2
      <4>2. E(m + 1) \in Nat
        BY <1>5, <2>4
      <4> QED BY <2>1, <4>1, <4>2
    <3> QED BY <3>1, <3>2
  <2>6. m \in Kernel!Programs /\ i \in Part(m)
    BY <1>1, <1>4, <2>4, <2>5
  <2> QED BY <2>6
<1>9. \A s, t \in Kernel!Programs : s # t => Part(s) \cap Part(t) = {}
  <2>1. \A s, t \in Kernel!Programs : s # t => s < t \/ t < s
    BY <1>1
  <2> QED BY <1>7, <2>1
<1>10. \A s \in Kernel!Programs : Part(s) \in SUBSET All
  BY <1>4
<1>11. UNION {Part(s) : s \in Kernel!Programs} = All
  BY <1>8, <1>10
<1> QED BY <1>6, <1>9, <1>10, <1>11

(* What is summed up part by part is what all columns are worth.           *)
LEMMA PartsSum ==
  ASSUME ConfigOK, NEW f, \A i \in All : f[i] \in Int, NEW g,
         \A s \in Kernel!Programs : g[s] = SumFunctionOnSet(f, Part(s))
  PROVE  SumFunctionOnSet(g, Kernel!Programs) = SumFunctionOnSet(f, All)
<1> DEFINE P == [s \in Kernel!Programs |-> Part(s)]
<1>1. P \in [Kernel!Programs -> SUBSET All] /\ \A s, t \in Kernel!Programs : s # t => P[s] \cap P[t] = {}
  BY PartsOfAll
<1>2. IsFiniteSet(All) /\ IsFiniteSet(Kernel!Programs)
  BY CellTypes, PartsOfAll
<1>3. UNION {P[s] : s \in Kernel!Programs} = All
  BY PartsOfAll
<1>4. \A s \in Kernel!Programs : g[s] = SumFunctionOnSet(f, P[s])
  OBVIOUS
<1> HIDE DEF P
<1>5. SumFunctionOnSet(g, Kernel!Programs) = SumFunctionOnSet(f, UNION {P[s] : s \in Kernel!Programs})
  BY <1>1, <1>2, <1>4, SumOfParts
<1> QED BY <1>3, <1>5, Zenon

LEMMA PartsWorth ==
  ASSUME ConfigOK, NEW X \in Nat, NEW g, \A s \in Kernel!Programs : g[s] = X * WorthOf(Part(s))
  PROVE  SumFunctionOnSet(g, Kernel!Programs) = X * WorthOf(All)
<1> DEFINE h == [s \in Kernel!Programs |-> WorthOf(Part(s))]
<1>1. \A s \in Kernel!Programs : h[s] \in Int /\ h[s] = SumFunctionOnSet(Worth, Part(s)) /\ g[s] = X * h[s]
  BY PartsOfAll, WorthTypes DEF WorthOf
<1>2. \A i \in All : Worth[i] \in Int
  BY WorthTypes
<1> HIDE DEF h
<1>3. SumFunctionOnSet(h, Kernel!Programs) = WorthOf(All)
  BY <1>1, <1>2, PartsSum DEF WorthOf
<1>4. SumFunctionOnSet(g, Kernel!Programs) = X * SumFunctionOnSet(h, Kernel!Programs)
  BY <1>1, PartsOfAll, SumScales
<1> QED BY <1>3, <1>4

LEMMA PartsHits ==
  ASSUME ConfigOK, NEW c \in Kernel!Cells, NEW X \in Nat, NEW g,
         \A s \in Kernel!Programs : g[s] = X * (Hits(Part(s), c) * 2^Kernel!Score(c))
  PROVE  SumFunctionOnSet(g, Kernel!Programs) = X * (Hits(All, c) * 2^Kernel!Score(c))
<1> DEFINE C == {i \in All : Cell(i) = c}
           f == [i \in All |-> IF i \in C THEN 1 ELSE 0]
           h == [s \in Kernel!Programs |-> Hits(Part(s), c)]
           w == 2^Kernel!Score(c)
<1>1. \A i \in All : f[i] \in Int
  OBVIOUS
<1>2. ASSUME NEW V \in SUBSET All PROVE Hits(V, c) = SumFunctionOnSet(f, V)
  <2> DEFINE k == [i \in V |-> IF i \in C THEN 1 ELSE 0]
  <2>1. {i \in V : i \in C} = {i \in V : Cell(i) = c}
    OBVIOUS
  <2>2. IsFiniteSet(V)
    BY WorthTypes
  <2>3. Cardinality({i \in V : i \in C}) = SumFunctionOnSet(k, V)
    <3> HIDE DEF C
    <3> QED BY <2>2, CountIsSum
  <2>4. \A i \in V : k[i] = f[i] /\ f[i] \in Int
    OBVIOUS
  <2> HIDE DEF k, f, C
  <2>5. SumFunctionOnSet(k, V) = SumFunctionOnSet(f, V)
    BY <2>2, <2>4, SumSame
  <2> QED BY <2>1, <2>3, <2>5 DEF Hits
<1>3. \A s \in Kernel!Programs : h[s] = SumFunctionOnSet(f, Part(s)) /\ h[s] \in Nat
  BY <1>2, PartsOfAll, WorthTypes
<1>4. w \in Nat
  BY WorthTypes
<1>5. \A s \in Kernel!Programs : g[s] = X * (h[s] * w)
  OBVIOUS
<1> HIDE DEF f, h, w
<1>6. SumFunctionOnSet(h, Kernel!Programs) = Hits(All, c)
  <2>1. SumFunctionOnSet(h, Kernel!Programs) = SumFunctionOnSet(f, All)
    BY <1>1, <1>3, PartsSum
  <2> QED BY <1>2, <2>1
<1>7. \A s \in Kernel!Programs : h[s] \in Int /\ g[s] = (X * w) * h[s]
  BY <1>3, <1>4, <1>5
<1>8. X * w \in Int
  BY <1>4
<1>9. SumFunctionOnSet(g, Kernel!Programs) = (X * w) * SumFunctionOnSet(h, Kernel!Programs)
  BY <1>7, <1>8, PartsOfAll, SumScales
<1>10. Hits(All, c) \in Nat
  BY WorthTypes
<1>11. (X * w) * Hits(All, c) = X * (Hits(All, c) * w)
  BY <1>4, <1>10
<1> QED BY <1>6, <1>9, <1>11 DEF w

-----------------------------------------------------------------------------
(* What holds between the tiles                                            *)
Right(o) ==
  \E X \in Nat \ {0} : /\ o.norm = X * WorthOf(All)
                       /\ \A c \in Kernel!Cells : o.sum[c] = X * (Hits(All, c) * 2^Kernel!Score(c))

KernelInv ==
  /\ cf \in Selections
  /\ programs \in {"split", "merge", "done"}
  /\ DOMAIN tile = Kernel!Programs /\ DOMAIN running = Kernel!Programs
  /\ \A s \in Kernel!Programs :
       /\ tile[s] \in Nat /\ Kernel!FirstTile(s) <= tile[s] /\ tile[s] <= Kernel!FirstTile(s + 1)
       /\ Good(running[s], Below(s, tile[s]))
       /\ programs # "split" => tile[s] = Kernel!FirstTile(s + 1)
  /\ programs = "done" => Right(output)

(* What is read off the configuration alone                                *)
LEMMA StaysPut ==
  ASSUME cf' = cf
  PROVE  /\ Kernel!Programs' = Kernel!Programs
         /\ \A s : (Kernel!FirstTile(s))' = Kernel!FirstTile(s)
         /\ \A s, t : (Below(s, t))' = Below(s, t)
         /\ \A r, V : (Good(r, V))' = Good(r, V)
         /\ \A o : (Right(o))' = Right(o)
<1>1. All' = All /\ \A i : (Cell(i))' = Cell(i)
  BY DEF All, Sel, Cell, Kernel!CellOf, Kernel!ValidPage
<1>2. Kernel!NumTiles' = Kernel!NumTiles
  BY DEF Kernel!NumTiles
<1>3. Kernel!NumSplits' = Kernel!NumSplits
  BY <1>2 DEF Kernel!NumSplits
<1>4. Kernel!Programs' = Kernel!Programs
  BY <1>3 DEF Kernel!Programs
<1>5. \A s : (Kernel!FirstTile(s))' = Kernel!FirstTile(s)
  BY <1>2, <1>3 DEF Kernel!FirstTile
<1>6. \A s, t : (Below(s, t))' = Below(s, t)
  BY <1>1, <1>5 DEF Below
<1>7. \A V : (WorthOf(V))' = WorthOf(V)
  BY <1>1 DEF WorthOf, Worth
<1>8. \A V, c : (Hits(V, c))' = Hits(V, c)
  BY <1>1 DEF Hits
<1>9. \A r, V : (Good(r, V))' = Good(r, V)
  BY <1>7, <1>8 DEF Good
<1>10. \A o : (Right(o))' = Right(o)
  BY <1>1, <1>7, <1>8 DEF Right
<1> QED BY <1>4, <1>5, <1>6, <1>9, <1>10

LEMMA KernelKept ==
  ASSUME KernelInv, cf' = cf, programs' \in {"split", "merge", "done"},
         DOMAIN tile' = Kernel!Programs, DOMAIN running' = Kernel!Programs,
         \A s \in Kernel!Programs :
           /\ tile'[s] \in Nat /\ Kernel!FirstTile(s) <= tile'[s] /\ tile'[s] <= Kernel!FirstTile(s + 1)
           /\ Good(running'[s], Below(s, tile'[s]))
           /\ programs' # "split" => tile'[s] = Kernel!FirstTile(s + 1),
         programs' = "done" => Right(output')
  PROVE  KernelInv'
<1>1. Kernel!Programs' = Kernel!Programs
  BY StaysPut
<1>2. ASSUME NEW s \in Kernel!Programs
      PROVE  /\ tile'[s] \in Nat /\ (Kernel!FirstTile(s))' <= tile'[s] /\ tile'[s] <= (Kernel!FirstTile(s + 1))'
             /\ (Good(running[s], Below(s, tile[s])))'
             /\ programs' # "split" => tile'[s] = (Kernel!FirstTile(s + 1))'
  <2>1. (Kernel!FirstTile(s))' = Kernel!FirstTile(s) /\ (Kernel!FirstTile(s + 1))' = Kernel!FirstTile(s + 1)
    BY StaysPut
  <2>2. \A t : (Below(s, t))' = Below(s, t)
    BY StaysPut
  <2>3. \A r, V : (Good(r, V))' = Good(r, V)
    BY StaysPut
  <2>4. (Good(running[s], Below(s, tile[s])))'
    BY <2>2, <2>3
  <2> QED BY <2>1, <2>4
<1>3. (programs = "done" => Right(output))'
  BY StaysPut
<1>4. cf' \in Selections
  BY DEF KernelInv
<1> QED BY <1>1, <1>2, <1>3, <1>4 DEF KernelInv

LEMMA NothingSeen ==
  ASSUME ConfigOK
  PROVE  WorthOf({}) = 0 /\ \A c : Hits({}, c) = 0
<1>1. WorthOf({}) = 0
  BY SumOfNone DEF WorthOf
<1>2. ASSUME NEW c PROVE Hits({}, c) = 0
  <2>1. {i \in {} : Cell(i) = c} = {} /\ Cardinality({}) = 0
    BY FS_EmptySet
  <2> QED BY <2>1 DEF Hits
<1> QED BY <1>1, <1>2

LEMMA KernelStarts ==
  ASSUME Kernel!AttentionAssumption, Kernel!Init PROVE KernelInv
<1>1. ConfigOK
  BY DEF ConfigOK, Kernel!Init
<1>2. ASSUME NEW s \in Kernel!Programs
      PROVE  /\ tile[s] \in Nat /\ Kernel!FirstTile(s) <= tile[s] /\ tile[s] <= Kernel!FirstTile(s + 1)
             /\ Good(running[s], Below(s, tile[s]))
  <2>1. tile[s] = Kernel!FirstTile(s) /\ running[s] = [max |-> Kernel!NoScore, norm |-> 0, sum |-> Kernel!Nothing]
    BY DEF Kernel!Init
  <2>2. s \in 0..Kernel!NumSplits /\ s + 1 \in 0..Kernel!NumSplits /\ Kernel!FirstTile(s) < Kernel!FirstTile(s + 1)
    BY <1>1, TilesFollow
  <2>3. Kernel!FirstTile(s) \in Nat /\ Kernel!FirstTile(s + 1) \in Nat
    BY <1>1, <2>2, TilesFollow
  <2>4. Below(s, tile[s]) = {}
    BY <1>1, <2>1, <2>3, TileAdds
  <2>5. Good(running[s], {})
    <3>1. Factor(Kernel!NoScore) \in Nat
      BY <1>1, FactorType
    <3>2. ASSUME NEW c \in Kernel!Cells PROVE running[s].sum[c] = Factor(Kernel!NoScore) * (Hits({}, c) * 2^Kernel!Score(c))
      <4>1. running[s].sum[c] = 0
        BY <2>1 DEF Kernel!Nothing
      <4> DEFINE w == 2^Kernel!Score(c)
      <4>2. w \in Nat /\ Hits({}, c) = 0
        BY <1>1, WorthTypes, NothingSeen
      <4> HIDE DEF w
      <4>3. Hits({}, c) * w = 0
        BY <4>2
      <4> QED BY <3>1, <4>1, <4>3 DEF w
    <3>3. running[s].norm = Factor(Kernel!NoScore) * WorthOf({})
      <4>1. WorthOf({}) = 0
        BY <1>1, NothingSeen
      <4> QED BY <2>1, <3>1, <4>1
    <3> QED BY <2>1, <3>2, <3>3 DEF Good
  <2> QED BY <2>1, <2>2, <2>3, <2>4, <2>5
<1>3. DOMAIN tile = Kernel!Programs /\ DOMAIN running = Kernel!Programs /\ programs = "split" /\ cf \in Selections
  BY DEF Kernel!Init
<1> QED BY <1>2, <1>3 DEF KernelInv

LEMMA AccumulateKeeps ==
  ASSUME Kernel!AttentionAssumption, KernelInv, NEW s \in Kernel!Programs, Kernel!Accumulate(s)
  PROVE  KernelInv'
<1> DEFINE A == Kernel!ValidColumns(tile[s])
           V == Below(s, tile[s])
           r == running[s]
           new == Kernel!Max({r.max} \union {Kernel!Score(Cell(i)) : i \in A})
           q == [max  |-> new,
                 norm |-> Kernel!Rescaled(r.norm, r.max, new)
                    + Kernel!SumFunction([i \in A |-> Kernel!Weight(Kernel!Score(Cell(i)), new)]),
                 sum  |-> [c \in Kernel!Cells |-> Kernel!Rescaled(r.sum[c], r.max, new)
                    + IF \E i \in A : Cell(i) = c
                      THEN Kernel!Cardinality({i \in A : Cell(i) = c}) * Kernel!Weight(Kernel!Score(c), new) ELSE 0]]
<1>1. ConfigOK
  BY DEF ConfigOK, KernelInv
<1>2. /\ programs = "split" /\ tile[s] < Kernel!FirstTile(s + 1)
      /\ cf' = cf /\ output' = output /\ programs' = programs /\ tile' = [tile EXCEPT ![s] = @ + 1]
  BY DEF Kernel!Accumulate
<1>3. running' = [running EXCEPT ![s] = q]
  BY DEF Kernel!Accumulate, Cell
<1>4. /\ tile[s] \in Nat /\ Kernel!FirstTile(s) <= tile[s] /\ Good(r, V)
      /\ DOMAIN tile = Kernel!Programs /\ DOMAIN running = Kernel!Programs
  BY DEF KernelInv
<1>5. V \cup A = Below(s, tile[s] + 1) /\ V \in SUBSET All /\ A \in SUBSET All /\ V \cap A = {}
  BY <1>1, <1>4, TileAdds
<1>6. Good(q, V \cup A)
  <2> HIDE DEF A, V, r
  <2>1. /\ q.max = new
        /\ q.norm = Kernel!Rescaled(r.norm, r.max, new)
                    + Kernel!SumFunction([i \in A |-> Kernel!Weight(Kernel!Score(Cell(i)), new)])
        /\ \A c \in Kernel!Cells : q.sum[c] = Kernel!Rescaled(r.sum[c], r.max, new)
            + IF \E i \in A : Cell(i) = c
              THEN Kernel!Cardinality({i \in A : Cell(i) = c}) * Kernel!Weight(Kernel!Score(c), new) ELSE 0
    OBVIOUS
  <2>2. new = Kernel!Max({r.max} \union {Kernel!Score(Cell(i)) : i \in A})
    OBVIOUS
  <2> HIDE DEF q, new
  <2> QED BY <1>1, <1>4, <1>5, <2>1, <2>2, OneTile
<1> HIDE DEF q, A, V, r
<1>7. ASSUME NEW t \in Kernel!Programs
      PROVE  /\ tile'[t] \in Nat /\ Kernel!FirstTile(t) <= tile'[t] /\ tile'[t] <= Kernel!FirstTile(t + 1)
             /\ Good(running'[t], Below(t, tile'[t]))
  <2>1. CASE t = s
    <3>1. tile'[t] = tile[s] + 1 /\ running'[t] = q
      BY <1>2, <1>3, <1>4, <2>1
    <3>2. Kernel!FirstTile(s) \in Nat /\ Kernel!FirstTile(s + 1) \in Nat
      BY <1>1, TilesFollow
    <3>3. Good(running'[t], Below(t, tile'[t]))
      BY <1>5, <1>6, <2>1, <3>1
    <3> QED BY <1>2, <1>4, <2>1, <3>1, <3>2, <3>3
  <2>2. CASE t # s
    <3>1. tile'[t] = tile[t] /\ running'[t] = running[t]
      BY <1>2, <1>3, <1>4, <2>2
    <3> QED BY <3>1 DEF KernelInv
  <2> QED BY <2>1, <2>2
<1>8. DOMAIN tile' = Kernel!Programs /\ DOMAIN running' = Kernel!Programs
  BY <1>2, <1>3, <1>4
<1> QED BY <1>2, <1>7, <1>8, KernelKept

LEMMA StoredKeeps ==
  ASSUME Kernel!AttentionAssumption, KernelInv, Kernel!Stored PROVE KernelInv'
<1>1. ConfigOK
  BY DEF ConfigOK, KernelInv
<1>2. /\ \A s \in Kernel!Programs : tile[s] = Kernel!FirstTile(s + 1)
      /\ cf' = cf /\ tile' = tile /\ running' = running /\ programs' \in {"split", "merge", "done"}
      /\ programs' = "done" => /\ Kernel!NumSplits = 1
                               /\ output' = [sum |-> running[0].sum, norm |-> running[0].norm]
  BY DEF Kernel!Stored
<1>3. ASSUME programs' = "done" PROVE Right(output')
  <2>1. Kernel!Programs = {0}
    BY <1>2, <1>3 DEF Kernel!Programs
  <2>2. Part(0) = All
    BY <1>1, <2>1, PartsOfAll
  <2>3. Good(running[0], All)
    <3>1. Good(running[0], Below(0, tile[0])) /\ tile[0] = Kernel!FirstTile(0 + 1)
      BY <1>2, <2>1 DEF KernelInv
    <3> QED BY <2>2, <3>1 DEF Part
  <2>4. Factor(running[0].max) \in Nat \ {0}
    <3>1. Factor(running[0].max) \in Nat /\ Factor(running[0].max) > 0
      BY <1>1, <2>3, FactorType DEF Good
    <3> QED BY <3>1
  <2>5. output'.sum = running[0].sum /\ output'.norm = running[0].norm
    BY <1>2, <1>3
  <2> QED BY <2>3, <2>4, <2>5 DEF Good, Right
<1> QED BY <1>2, <1>3, KernelKept DEF KernelInv

LEMMA MergeIsRight ==
  ASSUME Kernel!AttentionAssumption, KernelInv, Kernel!Merge PROVE Right(output')
<1> DEFINE P == Kernel!Programs
           M == {running[s].max : s \in P}
           top == Kernel!Max(M)
           W(s) == Kernel!PartWeight(s, top)
           X == IF All = {} THEN 1 ELSE 2^(3 * MaxScore - top)
<1>1. ConfigOK
  BY DEF ConfigOK, KernelInv
<1>2. /\ \A c \in Kernel!Cells : output'.sum[c] = Kernel!SumFunction([s \in P |-> running[s].sum[c] * W(s)])
      /\ output'.norm = Kernel!SumFunction([s \in P |-> running[s].norm * W(s)])
  BY DEF Kernel!Merge
<1>3. \A s \in P : Good(running[s], Part(s))
  BY DEF KernelInv, Kernel!Merge, Part
<1>4. \A s \in P : /\ running[s].max \in {Kernel!NoScore} \cup 0..MaxScore
                   /\ Part(s) = {} <=> running[s].max = Kernel!NoScore
  BY <1>3 DEF Good
<1>5. MaxScore \in Nat /\ IsFiniteSet(P) /\ P # {} /\ UNION {Part(s) : s \in P} = All
  BY <1>1, ConfigTypes, PartsOfAll
<1>6. top \in M /\ \A m \in M : top >= m
  <2>1. M \subseteq {Kernel!NoScore} \cup 0..MaxScore /\ M # {}
    BY <1>4, <1>5
  <2>2. IsFiniteSet(M)
    <3>1. IsFiniteSet({Kernel!NoScore})
      BY FS_Singleton
    <3>2. 0 \in Int /\ MaxScore \in Int
      BY <1>5
    <3>3. IsFiniteSet(0..MaxScore)
      BY <3>2, FS_Interval
    <3>4. IsFiniteSet({Kernel!NoScore} \cup 0..MaxScore)
      BY <3>1, <3>3, FS_Union
    <3> QED BY <2>1, <3>4, FS_Subset
  <2>3. M \in SUBSET Int
    BY <1>5, <2>1 DEF Kernel!NoScore
  <2> HIDE DEF M
  <2> QED BY <2>1, <2>2, <2>3, KernelMax
<1> HIDE DEF P
<1>7. /\ \A s \in P : running[s].max <= top
      /\ top \in {Kernel!NoScore} \cup 0..MaxScore
      /\ All # {} => top \in 0..MaxScore
  <2>1. \A s \in P : running[s].max <= top
    BY <1>6
  <2>2. top \in {Kernel!NoScore} \cup 0..MaxScore
    BY <1>4, <1>6
  <2>3. ASSUME All # {} PROVE top # Kernel!NoScore
    <3>1. PICK s \in P : Part(s) # {}
      BY <1>5, <2>3
    <3>2. running[s].max \in 0..MaxScore /\ running[s].max <= top
      BY <1>4, <2>1, <3>1
    <3> QED BY <1>5, <3>2 DEF Kernel!NoScore
  <2> QED BY <2>2, <2>1, <2>3
<1> HIDE DEF top, M
<1>8. X \in Nat \ {0}
  <2>1. CASE All = {}
    BY <2>1
  <2>2. CASE All # {}
    <3>1. 3 * MaxScore - top \in Nat
      BY <1>5, <1>7, <2>2
    <3>2. 2^(3 * MaxScore - top) \in Nat /\ 2^(3 * MaxScore - top) > 0
      BY <3>1, TwoType
    <3> QED BY <2>2, <3>2
  <2> QED BY <2>1, <2>2
<1>9. \A s \in P : Part(s) \in SUBSET All /\ WorthOf(Part(s)) \in Nat
  BY <1>1, PartsOfAll, WorthTypes DEF P
(* A part in the units of the whole                                        *)
<1>10. ASSUME NEW s \in P, NEW y \in Nat, Part(s) = {} => y = 0
       PROVE  (Factor(running[s].max) * y) * W(s) = X * y
  <2> DEFINE m == running[s].max
  <2>1. Factor(m) \in Nat /\ Factor(m) > 0
    BY <1>1, <1>4, FactorType
  <2>2. CASE Part(s) = {}
    <3>1. running[s].norm = Factor(m) * WorthOf(Part(s)) /\ WorthOf(Part(s)) = 0
      BY <1>1, <1>3, <2>2, NothingSeen DEF Good
    <3>2. running[s].norm = 0
      <4> HIDE DEF m
      <4> QED BY <2>1, <3>1
    <3>3. W(s) = 0
      BY <3>2 DEF Kernel!PartWeight
    <3>4. y = 0
      BY <1>10, <2>2
    <3> DEFINE v == Factor(m)
    <3>5. v \in Nat
      BY <2>1
    <3> HIDE DEF v, X, W
    <3>6. (v * y) * W(s) = X * y
      BY <1>8, <3>3, <3>4, <3>5
    <3> QED BY <3>6 DEF v
  <2>3. CASE Part(s) # {}
    <3>1. m \in 0..MaxScore /\ m <= top /\ top \in 0..MaxScore /\ All # {}
      BY <1>4, <1>7, <1>9, <2>3
    <3> DEFINE a == 2 * MaxScore - m
               b == MaxScore - (top - m)
    <3>2. a \in Nat /\ b \in Nat /\ 3 * MaxScore - top = a + b
      <4> HIDE DEF m
      <4> QED BY <1>5, <3>1
    <3>3. W(s) = 2^b
      <4>1. running[s].norm = Factor(m) * WorthOf(Part(s)) /\ WorthOf(Part(s)) # 0 /\ WorthOf(Part(s)) \in Nat
        BY <1>1, <1>3, <1>9, <2>3, WorthTypes DEF Good
      <4>2. running[s].norm # 0
        <5> DEFINE u == WorthOf(Part(s))
                   v == Factor(m)
        <5>1. u \in Nat /\ u # 0 /\ v \in Nat /\ v > 0 /\ running[s].norm = v * u
          BY <2>1, <4>1
        <5> HIDE DEF u, v, m
        <5> QED BY <5>1
      <4> QED BY <4>2 DEF Kernel!PartWeight
    <3>4. X = 2^(a + b)
      BY <3>1, <3>2
    <3> HIDE DEF a, b
    <3>5. 2^(a + b) = 2^a * 2^b
      BY <3>2, TwoSum
    <3>6. 2^a \in Nat /\ 2^b \in Nat
      BY <3>2, TwoType
    <3>7. Factor(m) = 2^a
      BY DEF Factor, a
    <3> DEFINE x == 2^a
               z == 2^b
    <3> HIDE DEF x, z
    <3>8. x \in Nat /\ z \in Nat /\ (x * y) * z = (x * z) * y
      BY <3>6 DEF x, z
    <3> HIDE DEF X, W, m
    <3>9. Factor(m) = x /\ W(s) = z /\ X = x * z
      BY <3>3, <3>4, <3>5, <3>7 DEF x, z
    <3> QED BY <3>8, <3>9 DEF m
  <2> QED BY <2>2, <2>3
<1>11. output'.norm = X * WorthOf(All)
  <2> DEFINE g == [s \in P |-> running[s].norm * W(s)]
  <2>1. ASSUME NEW s \in P PROVE g[s] = X * WorthOf(Part(s))
    <3>1. WorthOf(Part(s)) \in Nat /\ (Part(s) = {} => WorthOf(Part(s)) = 0)
      BY <1>1, <1>9, WorthTypes
    <3>2. (Factor(running[s].max) * WorthOf(Part(s))) * W(s) = X * WorthOf(Part(s))
      <4> HIDE DEF W, X
      <4> QED BY <1>10, <3>1
    <3>3. running[s].norm = Factor(running[s].max) * WorthOf(Part(s))
      BY <1>3 DEF Good
    <3> HIDE DEF W, X
    <3> QED BY <3>2, <3>3
  <2>2. DOMAIN g = P
    OBVIOUS
  <2> HIDE DEF g, X
  <2>3. SumFunctionOnSet(g, P) = X * WorthOf(All)
    BY <1>1, <1>8, <2>1, PartsWorth DEF P
  <2>4. output'.norm = Kernel!SumFunction(g)
    BY <1>2 DEF g
  <2> QED BY <2>2, <2>3, <2>4, KernelSum
<1>12. ASSUME NEW c \in Kernel!Cells PROVE output'.sum[c] = X * (Hits(All, c) * 2^Kernel!Score(c))
  <2> DEFINE g == [s \in P |-> running[s].sum[c] * W(s)]
             w == 2^Kernel!Score(c)
  <2>1. ASSUME NEW s \in P PROVE g[s] = X * (Hits(Part(s), c) * w)
    <3> DEFINE y == Hits(Part(s), c) * w
    <3>1. Hits(Part(s), c) \in Nat /\ w \in Nat /\ (Part(s) = {} => Hits(Part(s), c) = 0)
      BY <1>1, <1>9, WorthTypes, NothingSeen
    <3>2. y \in Nat /\ (Part(s) = {} => y = 0)
      <4> HIDE DEF w
      <4> QED BY <3>1
    <3>3. running[s].sum[c] = Factor(running[s].max) * y
      BY <1>3 DEF Good
    <3> HIDE DEF y, W, X
    <3>4. (Factor(running[s].max) * y) * W(s) = X * y
      BY <1>10, <3>2
    <3> QED BY <3>3, <3>4 DEF y
  <2>2. DOMAIN g = P
    OBVIOUS
  <2>3. output'.sum[c] = Kernel!SumFunction(g)
    BY <1>2
  <2> HIDE DEF g, X
  <2>4. SumFunctionOnSet(g, P) = X * (Hits(All, c) * w)
    BY <1>1, <1>8, <2>1, PartsHits DEF P
  <2> QED BY <2>2, <2>3, <2>4, KernelSum
<1> HIDE DEF X
<1> QED BY <1>8, <1>11, <1>12 DEF Right

LEMMA MergeKeeps ==
  ASSUME Kernel!AttentionAssumption, KernelInv, Kernel!Merge PROVE KernelInv'
<1>1. /\ programs = "merge" /\ programs' = "done" /\ cf' = cf /\ tile' = tile /\ running' = running
  BY DEF Kernel!Merge
<1> QED BY <1>1, MergeIsRight, KernelKept DEF KernelInv

LEMMA KernelKeeps ==
  ASSUME Kernel!AttentionAssumption, KernelInv, [Kernel!Next]_(Kernel!vars) PROVE KernelInv'
<1>1. CASE \E s \in Kernel!Programs : Kernel!Accumulate(s)
  BY <1>1, AccumulateKeeps
<1>2. CASE Kernel!Stored
  BY <1>2, StoredKeeps
<1>3. CASE Kernel!Merge
  BY <1>3, MergeKeeps
<1>4. CASE UNCHANGED Kernel!vars
  <2>1. cf' = cf /\ tile' = tile /\ running' = running /\ output' = output /\ programs' = programs
    BY <1>4 DEF Kernel!vars
  <2> QED BY <2>1, KernelKept DEF KernelInv
<1> QED BY <1>1, <1>2, <1>3, <1>4 DEF Kernel!Next

(* Every column is in one cell: the count of every cell, with the worth of *)
(* the cell, is what all columns are worth.                                *)
LEMMA CellsWorth ==
  ASSUME ConfigOK, NEW g, \A c \in Kernel!Cells : g[c] = Hits(All, c) * 2^Kernel!Score(c)
  PROVE  SumFunctionOnSet(g, Kernel!Cells) = WorthOf(All)
<1> DEFINE In == [c \in Kernel!Cells |-> {i \in All : Cell(i) = c}]
<1>1. In \in [Kernel!Cells -> SUBSET All] /\ \A c, d \in Kernel!Cells : c # d => In[c] \cap In[d] = {}
  OBVIOUS
<1>2. UNION {In[c] : c \in Kernel!Cells} = All
  BY CellTypes
<1>3. ASSUME NEW c \in Kernel!Cells PROVE g[c] = SumFunctionOnSet(Worth, In[c])
  <2> DEFINE w == 2^Kernel!Score(c)
             V == {i \in All : Cell(i) = c}
  <2>1. In[c] = V /\ V \in SUBSET All /\ \A i \in V : Worth[i] = w
    BY WorthTypes
  <2>2. IsFiniteSet(V) /\ w \in Int
    BY <2>1, WorthTypes
  <2>3. Hits(All, c) = Cardinality(V)
    BY DEF Hits
  <2> HIDE DEF V, w
  <2>4. SumFunctionOnSet(Worth, V) = Cardinality(V) * w
    BY <2>1, <2>2, SumOfEqual
  <2> QED BY <2>1, <2>3, <2>4 DEF w
<1>4. IsFiniteSet(All) /\ IsFiniteSet(Kernel!Cells) /\ \A i \in All : Worth[i] \in Int
  BY CellTypes, WorthTypes
<1> HIDE DEF In
<1>5. SumFunctionOnSet(g, Kernel!Cells) = SumFunctionOnSet(Worth, UNION {In[c] : c \in Kernel!Cells})
  BY <1>1, <1>3, <1>4, SumOfParts
<1>6. SumFunctionOnSet(g, Kernel!Cells) = SumFunctionOnSet(Worth, All)
  BY <1>2, <1>5, Zenon
<1> QED BY <1>6 DEF WorthOf

LEMMA CountIsHits ==
  ASSUME ConfigOK, NEW c \in Kernel!Cells PROVE Kernel!Count(c) = Hits(All, c)
<1>1. DOMAIN cf.selected = Sel /\ c # Kernel!None
  BY ConfigTypes, CellTypes
<1>2. {i \in Sel : Kernel!Meant(i) = c} = {i \in All : Cell(i) = c}
  BY <1>1, MeantIsCell DEF All
<1> QED BY <1>1, <1>2, KernelCount DEF Kernel!Count, Hits

LEMMA KernelIsSoftmax ==
  ASSUME Kernel!AttentionAssumption, KernelInv PROVE Kernel!OutputIsSoftmax /\ Kernel!TilesAreDealt
<1>1. ConfigOK
  BY DEF ConfigOK, KernelInv
<1>2. Kernel!TilesAreDealt
  BY <1>1, TilesFollow DEF Kernel!TilesAreDealt
<1>3. ASSUME programs = "done"
      PROVE  LET total == Kernel!SumFunction([c \in Kernel!Cells |-> Kernel!Count(c) * 2^Kernel!Score(c)])
             IN  /\ \A c \in Kernel!Cells : output.sum[c] * total = Kernel!Count(c) * 2^Kernel!Score(c) * output.norm
                 /\ output.norm = 0 <=> total = 0
  <2> DEFINE g == [c \in Kernel!Cells |-> Kernel!Count(c) * 2^Kernel!Score(c)]
             T == WorthOf(All)
  <2>1. Kernel!SumFunction(g) = T
    <3>1. DOMAIN g = Kernel!Cells /\ \A c \in Kernel!Cells : g[c] = Hits(All, c) * 2^Kernel!Score(c)
      BY <1>1, CountIsHits
    <3> HIDE DEF g
    <3>2. SumFunctionOnSet(g, Kernel!Cells) = WorthOf(All)
      BY <1>1, <3>1, CellsWorth
    <3> QED BY <3>1, <3>2, KernelSum
  <2>2. PICK X \in Nat \ {0} : /\ output.norm = X * T
                               /\ \A c \in Kernel!Cells : output.sum[c] = X * (Hits(All, c) * 2^Kernel!Score(c))
    BY <1>3 DEF KernelInv, Right
  <2>3. T \in Nat
    BY <1>1, WorthTypes
  <2>4. ASSUME NEW c \in Kernel!Cells
        PROVE  output.sum[c] * T = Kernel!Count(c) * 2^Kernel!Score(c) * output.norm
    <3> DEFINE h == Hits(All, c)
               w == 2^Kernel!Score(c)
    <3>1. h \in Nat /\ w \in Nat /\ Kernel!Count(c) = h
      BY <1>1, WorthTypes, CountIsHits
    <3>2. output.sum[c] = X * (h * w) /\ output.norm = X * T
      BY <2>2
    <3> HIDE DEF h, w, T
    <3>3. (X * (h * w)) * T = (h * w) * (X * T)
      BY <2>3, <3>1
    <3>4. output.sum[c] * T = h * w * output.norm
      BY <3>2, <3>3
    <3> QED BY <3>1, <3>4 DEF w
  <2>5. output.norm = 0 <=> T = 0
    <3> HIDE DEF T
    <3> QED BY <2>2, <2>3
  <2> HIDE DEF T
  <2> QED BY <2>1, <2>4, <2>5
<1> QED BY <1>2, <1>3 DEF Kernel!OutputIsSoftmax

(* OutputIsSoftmax: see SparseForward.                                     *)
THEOREM OutputIsSoftmaxHolds ==
  ASSUME Kernel!AttentionAssumption PROVE SpecSparse => []OutputIsSoftmax
<1> DEFINE I == scope = "kernel" => KernelInv
<1>1. InitSparse => I
  BY KernelStarts DEF InitSparse
<1>2. I /\ [NextSparse]_sparseVars => I'
  <2> SUFFICES ASSUME I, [NextSparse]_sparseVars, scope' = "kernel" PROVE KernelInv'
    OBVIOUS
  <2>1. scope = "kernel" /\ [Kernel!Next]_(Kernel!vars)
    BY StepOfOne
  <2> QED BY <2>1, KernelKeeps
<1>3. I => OutputIsSoftmax
  BY KernelIsSoftmax DEF OutputIsSoftmax
<1> QED BY <1>1, <1>2, <1>3, PTL DEF SpecSparse
=============================================================================
