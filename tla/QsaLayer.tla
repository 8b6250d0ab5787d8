------------------------------ MODULE QsaLayer ------------------------------
(***************************************************************************)
(* A sparse attention layer: what it refuses to be built with, and what    *)
(* one forward does to the cache it is bound to.  The index selects tokens *)
(* for every row, the rows' keys and values are written, and every row     *)
(* reads the tokens selected for it.                                       *)
(*                                                                         *)
(* The engine binds a buffer, first a small one to profile with, then the  *)
(* real one.  A buffer is an address, a number of pages and what the cells *)
(* hold: a token and the format it was written in.                         *)
(***************************************************************************)
EXTENDS Integers, Sequences, FiniteSetsExt

CONSTANTS
  Configs,     \* records: heads, kv, tp, dtype, bf16, scheme, context, causal
  Addresses,   \* where buffers may be
  PageSize,    \* tokens of a page
  Pages,       \* pages of the real buffer; the one to profile with has one
  MaxRows,     \* rows of a step
  Pad          \* rows a captured graph may have beyond those

LayerAssumption ==
  /\ \A c \in Configs : c.heads \in Nat \ {0} /\ c.kv \in Nat \ {0} /\ c.tp \in Nat \ {0}
  /\ "none" \notin Addresses                                 \* a buffer has an address
  /\ PageSize \in Nat \ {0} /\ Pages \in Nat \ {0}
  /\ MaxRows \in Nat \ {0} /\ Pad \in Nat

VARIABLES
  cf,          \* the configuration
  phase,       \* "new", "built", "refused", "bound"
  impl,        \* dtype the implementation knows, and the path it takes
  buffer,      \* the bound cache
  used,        \* addresses handed out so far
  views,       \* _nvfp4_views: address and pages of the views kept, or None
  history,     \* number of tokens in the cache
  step,        \* what the rows of the last step selected
  output       \* what every row of it read

vars == <<cf, phase, impl, buffer, used, views, history, step, output>>

None == [addr |-> "none", pages |-> 0]
NoBuffer == [addr |-> "none", pages |-> 0, cells |-> <<>>]
Plain == [dtype |-> "auto", path |-> "plain"]

-----------------------------------------------------------------------------
CacheDtypes == {"auto", "bfloat16", "fp8", "fp8_e4m3", "nvfp4"}

(* Heads are dealt out evenly, or a KV head is on several ranks.           *)
HeadsFit ==
  /\ cf.heads % cf.tp = 0
  /\ IF cf.kv >= cf.tp THEN cf.kv % cf.tp = 0 ELSE cf.tp % cf.kv = 0

Heads == cf.heads \div cf.tp

(* Seeded fault: ranks without a KV head of their own are forgotten.       *)
KvHeadsRounded == cf.kv \div cf.tp + 1

KvHeads == Max({1, cf.kv \div cf.tp})

Accepted ==
  /\ cf.bf16 /\ cf.dtype \in CacheDtypes /\ ~cf.scheme
  /\ ~cf.context /\ cf.causal /\ HeadsFit

(* The base constructor is shown another dtype; the real one is put back,  *)
(* and the path follows it.                                                *)
ImplOf(dtype) ==
  [dtype |-> dtype,
   path  |-> CASE dtype = "nvfp4" -> "nvfp4"
               [] dtype \in {"fp8", "fp8_e4m3"} -> "fp8"
               [] OTHER -> "plain"]

Init ==
  /\ cf \in Configs
  /\ phase = "new" /\ impl = Plain
  /\ buffer = NoBuffer /\ used = {} /\ views = None
  /\ history = 0 /\ step = <<>> /\ output = <<>>

(* Qwen4ExpQSAAttention.__init__ and the implementation's                  *)
Build ==
  /\ phase = "new"
  /\ phase' = IF Accepted THEN "built" ELSE "refused"
  /\ impl' = IF Accepted THEN ImplOf(cf.dtype) ELSE impl
  /\ UNCHANGED <<cf, buffer, used, views, history, step, output>>

(* The engine binds a buffer, at an address of its own; what an earlier    *)
(* one held is gone.                                                       *)
Bind ==
  /\ phase \in {"built", "bound"}
  /\ \E addr \in Addresses \ used, pages \in {1, Pages} :
       /\ buffer' = [addr |-> addr, pages |-> pages,
                     cells |-> [t \in 0..pages*PageSize-1 |-> [token |-> -1, format |-> "none"]]]
       /\ used' = used \union {addr}
  /\ phase' = "bound" /\ history' = 0 /\ step' = <<>> /\ output' = <<>>
  /\ UNCHANGED <<cf, impl, views>>

-----------------------------------------------------------------------------
(* What the writer makes of the dtype                                      *)
Format(dtype) ==
  CASE dtype = "nvfp4" -> "e2m1"
    [] dtype \in {"fp8", "fp8_e4m3"} -> "e4m3"
    [] OTHER -> "bf16"

(* What a path of the reader takes the bytes for                           *)
ReadAs(path) ==
  CASE path = "nvfp4" -> "e2m1" [] path = "fp8" -> "e4m3" [] OTHER -> "bf16"

(* do_kv_cache_update: the rows of the step at their slots                 *)
Updated(cells, n) ==
  [t \in DOMAIN cells |->
     IF t \in history..history+n-1 THEN [token |-> t, format |-> Format(impl.dtype)] ELSE cells[t]]

(* Seeded fault: rows read the cache as it was before they were written.   *)
ReadFromBefore(cells, n) == cells
ReadFrom(cells, n) == Updated(cells, n)

(* _nvfp4_views_for: views are made once for an address.                   *)
ViewsFor(b) ==
  IF impl.path # "nvfp4" THEN views
  ELSE IF views.addr = b.addr THEN views ELSE [addr |-> b.addr, pages |-> b.pages]

PagesSeen(b) == IF impl.path = "nvfp4" THEN ViewsFor(b).pages ELSE b.pages

(* forward_qsa: a row reads the selected tokens on pages that are there.   *)
Attended(cells, selected) ==
  {cells[t] : t \in {u \in selected : u \div PageSize < PagesSeen(buffer)}}

(* _run_qsa with n tokens in a batch padded to m rows                      *)
RunQsa ==
  /\ phase = "bound"
  /\ \E n \in 0..MaxRows, pad \in 0..Pad :
       /\ n + pad > 0
       /\ history + n <= buffer.pages * PageSize
       /\ \E selected \in [1..n -> SUBSET (0..history+n-1)] :
            /\ \A i \in 1..n : selected[i] \subseteq 0..history+i-1
            /\ buffer' = [buffer EXCEPT !.cells = Updated(@, n)]
            /\ step' = selected
            /\ output' = [i \in 1..n+pad |->
                 IF i <= n THEN Attended(ReadFrom(buffer.cells, n), selected[i]) ELSE {}]
       /\ views' = IF n = 0 THEN views ELSE ViewsFor(buffer)
       /\ history' = history + n
  /\ UNCHANGED <<cf, phase, impl, used>>

(* Without metadata, when memory is profiled, the output is zero.          *)
RunWithout ==
  /\ phase \in {"built", "bound"}
  /\ \E rows \in 1..MaxRows : output' = [i \in 1..rows |-> {}]
  /\ step' = <<>>
  /\ UNCHANGED <<cf, phase, impl, buffer, used, views, history>>

Next == Build \/ Bind \/ RunQsa \/ RunWithout

Spec == Init /\ [][Next]_vars

-----------------------------------------------------------------------------
(* Every row has read exactly the tokens the index selected for it, its    *)
(* own among them where it was, in the format they were written in; rows   *)
(* of padding read nothing.                                                *)
RowsReadTheirSelection ==
  \A i \in DOMAIN output :
    output[i] = IF i \in DOMAIN step
                THEN {[token |-> t, format |-> ReadAs(impl.path)] : t \in step[i]}
                ELSE {}

(* A configuration that is not refused gives every query of every rank     *)
(* its KV head, on that rank, at the place the kernel takes it from.       *)
QueriesFindTheirHead ==
  phase = "built" /\ cf.heads % cf.kv = 0 =>
    \A rank \in 0..cf.tp-1, q \in 0..Heads-1 :
      LET whole == (rank * Heads + q) \div (cf.heads \div cf.kv)
          first == IF cf.kv >= cf.tp THEN rank * KvHeads ELSE rank \div (cf.tp \div cf.kv)
      IN  Heads % KvHeads = 0 /\ first + q \div (Heads \div KvHeads) = whole

(* qsa.py:282, "built once per cache buffer": the views that are kept are  *)
(* those of the buffer that is bound, whenever rows were read from it.     *)
ViewsAreOfTheBuffer ==
  impl.path = "nvfp4" /\ step # <<>> => views.pages = buffer.pages
=============================================================================
