----------------------------- MODULE Correction -----------------------------
(***************************************************************************)
(* What the diagnosis of a failed boot makes of it: correction.py, the     *)
(* rule matching of diagnosis_pipeline.py and the search of hf_lineage.py  *)
(* for checkpoints of the same network.  No state: the operators are       *)
(* functions of the failed plan, of the values the classifier extracted    *)
(* from its log and of what is known about models, GPUs and rules.         *)
(*                                                                         *)
(* A plan is a record [model, sku, count, tp, dtype, config], config a     *)
(* function on the engine flags it sets.  What may be missing is a set of  *)
(* at most one value.  Memory is in GiB, a capability 10 * major + minor,  *)
(* a utilization in percent.  The catalog and the hub are sequences in the *)
(* order of their names, which is how the code breaks its last ties.       *)
(***************************************************************************)
EXTENDS EngineFacts

CONSTANTS
  Gpus,    \* what is known of each GPU, by sku: memory and capability
  Catalog, \* the GPUs with stock now: sequence of [sku, rate]
  Hub,     \* published checkpoints: sequence of [id, publisher, config, bits, quant, suffixes, ...]
  Pinned,  \* the facts of DEFAULT_ENGINE
  Rules,   \* the rule of each failure family: [strategy, spec, blocklist, built]
  Util     \* the default of gpu_memory_utilization

ASSUME CorrectionAssumption ==
  /\ \A i \in DOMAIN Catalog : Catalog[i].sku \in DOMAIN Gpus
  /\ \A i, j \in DOMAIN Hub : Hub[i].id = Hub[j].id => i = j
  /\ Util \in 1..100

Family == DOMAIN Rules
Repo(id) == Hub[CHOOSE i \in DOMAIN Hub : Hub[i].id = id]
Published == {Hub[i].id : i \in DOMAIN Hub}

Has(f, key) == key \in DOMAIN f
Get(f, key, default) == IF Has(f, key) THEN f[key] ELSE default
AtMost(a, b) == IF a < b THEN a ELSE b
AtLeast(a, b) == IF a > b THEN a ELSE b

Needs(r) == MinCapability(Pinned, r.quant)
Refused(r) == LoadProblems(Pinned, r.suffixes, r.quant) # {}

-----------------------------------------------------------------------------
(* HubLineage.search.  lost is the set of the reads that failed, each a    *)
(* pair of a repository and of what was read: "config", "norm" or "names". *)

Norm(r, lost) == IF <<r.id, "norm">> \in lost THEN "unread" ELSE r.norm

\* The card's base model, else the one the classifier model proposes.
BaseOf(r, proposal) == IF r.declares # "" THEN r.declares ELSE proposal

\* A base model is believed only when the Hub confirms it.
Confirmed(r, base, lost) ==
  /\ base \in Published \ {r.id} /\ r.bits # 0
  /\ <<base, "config">> \notin lost
  /\ Norm(Repo(base), lost) # "unread" /\ Norm(r, lost) = Norm(Repo(base), lost)
  /\ Repo(base).shape = r.shape /\ Repo(base).quant = NoQuant

(* Mutated form: what the publisher declares is taken on its word.          *)
SiblingAsDeclared(c, r, base, lost) ==
  /\ c.quantizedFrom = base /\ c.quant.quant_method \in Loadable(Pinned) \cup {"compressed-tensors"}
  /\ <<c.id, "config">> \notin lost
  /\ c.bits # 0 /\ Needs(c) # -1

\* A checkpoint listed as quantized from the base, loadable by the engine, of
\* the same architecture and with the same final norm.
Sibling(c, r, base, lost) ==
  /\ c.quantizedFrom = base /\ c.quant.quant_method \in Loadable(Pinned) \cup {"compressed-tensors"}
  /\ <<c.id, "config">> \notin lost
  /\ c.bits # 0 /\ Needs(c) # -1
  /\ c.shape = r.shape
  /\ Norm(c, lost) = Norm(Repo(base), lost)
  /\ <<c.id, "names">> \in lost \/ ~Refused(c)

\* The search gives nothing, or the checkpoints that may stand in for r.
Search(r, proposal, lost) ==
  LET base == BaseOf(r, proposal)
  IN  IF ~Confirmed(r, base, lost) THEN {}
      ELSE {[requested |-> r, publisher |-> Repo(base).publisher,
             candidates |-> SelectSeq(Hub, LAMBDA c : c.id = base \/ Sibling(c, r, base, lost))]}

-----------------------------------------------------------------------------
(* The strategies.  Each gives at most one set of overrides: the fields it *)
(* sets and the engine flags it removes.                                   *)

Set(field, value) == {[set |-> [f \in {field} |-> value], remove |-> {}]}
Unset(field) == {[set |-> <<>>, remove |-> {field}]}
Nothing == {[set |-> <<>>, remove |-> {}]}

ReduceMemoryPressure(x) ==
  CASE Has(x, "estimated_max_model_len") -> Set("max_model_len", x.estimated_max_model_len)
    [] ~Has(x, "estimated_max_model_len") /\ Has(x, "max_num_seqs_attempted") ->
         Set("max_num_seqs", AtLeast(1, x.max_num_seqs_attempted \div 2))
    [] OTHER -> {}

\* The maximum the engine printed, else the model's own; never a guess.
ClampMaxModelLen(x, config) ==
  CASE Has(x, "derived_max") -> Set("max_model_len", x.derived_max)
    [] ~Has(x, "derived_max") /\ Has(config, "max_position_embeddings") ->
         Set("max_model_len", config.max_position_embeddings)
    [] OTHER -> {}

\* bfloat16 where the GPU has it, on evidence that float16 is the trouble.
FallbackDtype(x, config, gpu, rule) ==
  LET modelType == Get(x, "model_type", Get(config, "model_type", ""))
  IN  IF Get(x, "unsupported_dtype", "") # "float16" /\ modelType \notin rule.blocklist THEN {}
      ELSE Set("dtype", IF gpu.capability \in 1..79 THEN "float32" ELSE "bfloat16")

\* The largest smaller group that divides the heads and fits the pod, else 1.
ReduceTensorParallel(x, config, plan) ==
  LET heads == Get(x, "num_heads", Get(config, "num_attention_heads", 0))
      kv == Get(config, "num_key_value_heads", heads)
      fits == {tp \in 1..(plan.tp - 1) :
                 /\ plan.count > 0 => tp <= plan.count
                 /\ heads % tp = 0 /\ kv % tp = 0}
  IN  IF heads = 0 THEN {}
      ELSE Set("tp", IF fits = {} THEN 1 ELSE CHOOSE t \in fits : \A u \in fits : u <= t)

\* The flag the error names is dropped, if the plan sets it.
FallbackEngineConfig(x, plan) ==
  LET named == SelectSeq(<<"field_path", "flag", "get_args">>, LAMBDA k : Get(x, k, "") # "")
  IN  CASE \E k \in DOMAIN x : x[k] = "enable_lora" -> Set("enable_lora", "true")
        [] (\A k \in DOMAIN x : x[k] # "enable_lora") /\ named # <<>> ->
             (IF Has(plan.config, x[named[1]]) THEN Unset(x[named[1]]) ELSE Nothing)
        [] OTHER -> {}

\* The cheapest of the entries of the catalog at S; of equals the first.
Cheapest(S) ==
  {Catalog[i] : i \in {j \in S : \A k \in S \ {j} : \/ Catalog[j].rate < Catalog[k].rate
                                                   \/ (j < k /\ Catalog[j].rate = Catalog[k].rate)}}
Retarget(S) == UNION {Set("sku", e.sku) : e \in Cheapest(S)}

\* The cheapest other GPU whose usable memory holds the predicted total.
RetargetMemory(plan, predicted) ==
  LET util == Get(plan.config, "gpu_memory_utilization", Util)
      Fits(e) == e.sku # plan.sku /\ Gpus[e.sku].memory * util >= 100 * predicted
  IN  IF predicted = 0 THEN {} ELSE Retarget({i \in DOMAIN Catalog : Fits(Catalog[i])})

\* The cheapest other GPU the quantization method's kernels were built for.
RetargetCapability(x, config, plan, rule) ==
  LET minimum == Get(x, "min_capability", 0)
      built == Get(rule.built, Get(config, "quant_method", ""), {})
      Fits(e) == /\ e.sku # plan.sku
                 /\ Gpus[e.sku].capability >= minimum /\ Gpus[e.sku].capability \in built
  IN  IF minimum <= 0 THEN {} ELSE Retarget({i \in DOMAIN Catalog : Fits(Catalog[i])})

RunsOn(c, gpu, rule) ==
  /\ gpu.capability >= Needs(c)
  /\ Has(rule.built, c.quant.quant_method) => gpu.capability \in rule.built[c.quant.quant_method]

Distance(a, b) == IF a > b THEN a - b ELSE b - a

\* The same network in a format this GPU runs: by the base's publisher, at
\* the nearest precision, most downloaded, in that order.
SubstituteArtifact(x, gpu, rule, found) ==
  LET For(s) ==
        LET c == s.candidates
            Own(i) == c[i].publisher = s.publisher
            Off(i) == Distance(c[i].bits, s.requested.bits)
            qualifying == {i \in DOMAIN c : /\ c[i].id # s.requested.id /\ c[i].shape = s.requested.shape
                                            /\ RunsOn(c[i], gpu, rule)}
            Before(i, j) ==
              \/ Own(i) /\ ~Own(j)
              \/ /\ Own(i) = Own(j)
                 /\ \/ Off(i) < Off(j)
                    \/ /\ Off(i) = Off(j)
                       /\ (c[i].downloads > c[j].downloads \/ (c[i].downloads = c[j].downloads /\ i < j))
            first == {i \in qualifying : \A j \in qualifying \ {i} : Before(i, j)}
        IN  UNION {Set("model", c[i].id) : i \in first}
      Known(s) == s.requested.shape # "unknown"  \* its config names its architectures
  IN  IF Get(x, "min_capability", 0) <= 0 THEN {} ELSE UNION {For(s) : s \in {t \in found : Known(t)}}

-----------------------------------------------------------------------------
(* From overrides to a plan                                                *)

\* CORRECTION_BOUNDS; a correction never sets gpu_memory_utilization.
Highest == [max_model_len |-> 1000000, max_num_seqs |-> 4096]
Bounded(o) ==
  [o EXCEPT !.set = [f \in DOMAIN @ |->
     IF Has(Highest, f) THEN AtLeast(1, AtMost(Highest[f], @[f])) ELSE @[f]]]

PlanFields == {"model", "sku", "tp", "dtype"}

Applied(plan, o) ==
  LET flags == DOMAIN o.set \ PlanFields
      config == [f \in (DOMAIN plan.config \cup flags) \ o.remove |-> Get(o.set, f, Get(plan.config, f, ""))]
  IN  [f \in DOMAIN plan |-> IF f = "config" THEN config ELSE Get(o.set, f, plan[f])]

Retargets == {"retarget_memory", "retarget_capability", "substitute_artifact"}

\* Measured weights over 95% of the GPU make any other correction infeasible;
\* 0 stands for a GPU or a weight that is not known.
Feasible(strategy, gpu, weight) ==
  strategy \in Retargets \/ gpu.memory = 0 \/ 100 * weight <= 95 * gpu.memory

\* What each strategy says for a failure d of a plan.
Overrides(d) ==
  LET rule == Rules[d.family]
      s == rule.strategy
      gpu == Gpus[d.plan.sku]
  IN  CASE s = "reduce_memory_pressure" -> ReduceMemoryPressure(d.extracted)
        [] s = "clamp_max_model_len" -> ClampMaxModelLen(d.extracted, d.config)
        [] s = "fallback_dtype" -> FallbackDtype(d.extracted, d.config, gpu, rule)
        [] s = "reduce_tensor_parallel" -> ReduceTensorParallel(d.extracted, d.config, d.plan)
        [] s = "remove_quantization" -> Unset("quantization")
        [] s = "fallback_engine_config" -> FallbackEngineConfig(d.extracted, d.plan)
        [] s = "retarget_memory" -> RetargetMemory(d.plan, d.predicted)
        [] s = "retarget_capability" -> RetargetCapability(d.extracted, d.config, d.plan, rule)
        [] s = "substitute_artifact" -> SubstituteArtifact(d.extracted, gpu, rule, d.found)

ByStrategy(d) ==
  {Applied(d.plan, Bounded(o)) :
     o \in {u \in Overrides(d) : Feasible(Rules[d.family].strategy, Gpus[d.plan.sku], d.weight)}}

\* What of an extraction is a number.
Numbers(x) == DOMAIN x \cap {"estimated_max_model_len", "max_num_seqs_attempted", "derived_max",
                             "num_heads", "min_capability", "mamba_cache_blocks"}

\* apply_correction_spec, for rules the source scanner wrote: not bounded,
\* not checked for memory.  What is scaled is the plan's value, else the first
\* number of the extraction, and is at least 1 after it.
BySpec(d) ==
  LET spec == Rules[d.family].spec
      Scaled(v) == AtLeast(1, (v * spec.percent) \div 100)
      Overridden(os) == {Applied(d.plan, o) : o \in os}
      numbers == Numbers(d.extracted)
  IN  CASE spec.action = "set_field" /\ Has(d.extracted, spec.source) ->
             Overridden(Set(spec.field, d.extracted[spec.source]))
        [] spec.action = "set_field" /\ ~Has(d.extracted, spec.source) /\ spec.value # "" ->
             Overridden(Set(spec.field, spec.value))
        [] spec.action = "remove_field" -> Overridden(Unset(spec.field))
        [] spec.action = "scale_field" /\ Has(d.plan.config, spec.field) ->
             Overridden(Set(spec.field, Scaled(d.plan.config[spec.field])))
        [] spec.action = "scale_field" /\ ~Has(d.plan.config, spec.field) /\ numbers # {} ->
             Overridden(Set(spec.field, Scaled(d.extracted[CHOOSE k \in numbers : TRUE])))
        [] OTHER -> {}

\* run_diagnosis_pipeline: a sure classification of a text of this engine
\* version, a rule for it and a feasible correction give a plan.
Corrected(d) ==
  IF d.confident /\ d.version # "other" /\ d.family \in Family
  THEN (IF Rules[d.family].strategy # "" THEN ByStrategy(d) ELSE BySpec(d))
  ELSE {}
=============================================================================
