---------------------------- MODULE PlanPipeline ----------------------------
(***************************************************************************)
(* Planning one candidate without a GPU: CohortPlanner.plan_seed and       *)
(* plan_for (interfaces/cohort_root.py) through run_plan_pipeline          *)
(* (orchestration/plan_pipeline.py), the model spec, the calculator and    *)
(* build_plan, to the status of the solution.                              *)
(*                                                                         *)
(* Every file comes over the network, and the resolver turns any failure   *)
(* into "no such file" (adapters/evidence/hf_hub.py): each read below may  *)
(* find nothing although the checkpoint has the file.                      *)
(*                                                                         *)
(* A checkpoint k is its config (as LayeredCache takes it, with the stored *)
(* torch_dtype), tensors, the index's and the Hub's totals, the processor  *)
(* fields, suffixes (the last parts of its tensors' names), template (the  *)
(* marks of the chat template, {} when it has none), channel (the          *)
(* tokenizer config declares a reasoning channel), card (parsers the model *)
(* card names) and recipe.  "" stands for None among names, 0 among        *)
(* numbers.                                                                *)
(***************************************************************************)
EXTENDS Calculator, EngineFacts

CONSTANTS
    Checkpoints,       \* name -> checkpoint
    Gpus,              \* sku -> [memory, sm, marks]: the card, and which words its name has
    Versions,          \* the pinned vLLM versions, newest first
    Engines,           \* version -> its generated facts
    V3Context,         \* V3_MAX_MODEL_LEN
    SeedCounts,        \* GPU counts of seeds
    GivenPlans         \* the plans of fix proofs: [count, tp, util, dtype, seqs], 0 and "" where unset

ASSUME PlanAssumption ==     \* a seed has a GPU, a context a token, and an unset number is 0
    /\ SeedCounts \subseteq Nat \ {0} /\ V3Context \in Nat \ {0}
    /\ \A k \in DOMAIN Checkpoints :
         Field(Checkpoints[k].config, "max_position_embeddings", V3Context) \in Nat \ {0}
    /\ \A p \in DOMAIN GivenPlans :
         GivenPlans[p].tp \in Nat \ {0} /\ GivenPlans[p].util \in Nat /\ GivenPlans[p].seqs \in Nat

ASSUME EnginesAssumption ==   \* a version has its facts, and every GPU falls in a tier of every version
    /\ Listed(Versions) /\ 1 \in DOMAIN Versions /\ \A i \in DOMAIN Versions : Versions[i] \in DOMAIN Engines
    /\ \A v \in DOMAIN Engines :
         LET tiers == Engines[v].tiers
         IN  /\ Listed(tiers) /\ \A i \in DOMAIN tiers : tiers[i].tokens \in Nat /\ tiers[i].seqs \in Nat \ {0}
             /\ \A g \in DOMAIN Gpus : \E i \in DOMAIN tiers : Falls(tiers[i], Gpus[g])

ASSUME GpusAssumption == \A g \in DOMAIN Gpus : Gpus[g].memory \in Nat /\ Gpus[g].sm \in Nat

ASSUME CheckpointAssumption ==   \* the files of a checkpoint are what its loader would take
    \A name \in DOMAIN Checkpoints :
      LET k == Checkpoints[name]
          tower(r) == DOMAIN r \subseteq EncoderNames /\ Numbered(r, EncoderNames)
      IN  /\ WellFormed(k.config) /\ "model_type" \in DOMAIN k.config
          /\ "vision_config" \in DOMAIN k.config => tower(k.config.vision_config)
          /\ tower(k.processor)
          /\ IsFiniteSet(k.tensors) /\ \A t \in k.tensors : t.size \in Nat
          /\ k.index \in Nat /\ k.published \in Nat

\* Nothing in the code checks this of a config; with pools of up to 8 tokens it holds.
ASSUME TailAssumption == \A name \in DOMAIN Checkpoints : TailFits(Checkpoints[name].config)

VARIABLES
    request,           \* what is planned: [model, gpu, count, given, checks], given = 0 for a seed
    stage,             \* where the pipeline stands
    engine,            \* the version that serves the architecture, "" for none
    found,             \* how the tensor headers were read, and whether the engine takes them
    metadata,          \* what the calculator reads
    claim,             \* the inputs of the last prediction and its result
    limit,             \* max_num_seqs the guard sets, 0 for none
    plan,              \* the plan built so far
    status             \* of the solution

vars == <<request, stage, engine, found, metadata, claim, limit, plan, status>>

Util == 90             \* PLAN_GPU_MEMORY_UTILIZATION, percent
DefaultUtil == 92      \* VLLM_DEFAULT_GPU_MEMORY_UTILIZATION
ShortInput == 512
Output == 128
Empty == [f \in {} |-> 0]

Requests == {r \in [model : DOMAIN Checkpoints, gpu : DOMAIN Gpus, count : SeedCounts,
                    given : {0} \cup DOMAIN GivenPlans, checks : BOOLEAN] :
               r.given # 0 => r.count = GivenPlans[r.given].count}
Checkpoint == Checkpoints[request.model]
Config == Checkpoint.config
Gpu == Gpus[request.gpu]
Given == GivenPlans[request.given]
IsSeed == request.given = 0
DeploymentChecks == request.checks    \* plans serve task suite v3
Facts == Engines[IF engine = "" THEN Versions[1] ELSE engine]
Quant == Field(Config, "quantization_config", NoQuant)
Tier == BatchTier(Facts, Gpu)

\* How the pipeline is called: a seed splits the model over its GPUs, a given
\* plan is predicted with its own values, or vLLM's where it sets none.
TensorParallel == IF IsSeed THEN request.count ELSE Given.tp
Utilization == IF IsSeed THEN Util ELSE IF Given.util > 0 THEN Given.util ELSE DefaultUtil
Dtype == IF IsSeed THEN "" ELSE Given.dtype
DefaultSeqs == IF IsSeed \/ Given.seqs = 0 THEN Tier.seqs ELSE Given.seqs

-----------------------------------------------------------------------------
(* The model spec and the metadata.                                        *)

ServedDtype(stored) == IF stored \in {"", "float32"} THEN "bfloat16" ELSE stored

UnmodelledAttention(c) ==
    \/ DOMAIN c \cap {"index_topk", "compress_ratios", "sparse_attention_config", "linear_num_value_heads",
                      "hybrid_override_pattern", "layers_block_type"} # {}
    \/ \E i \in DOMAIN Field(c, "layer_types", <<>>) : c.layer_types[i] \notin {"full_attention", "sliding_attention"}

\* k.generates is what the architecture's suffix says it is.
Mechanism(k, hybrid) ==
    LET c == k.config
    IN  CASE Family(c) # "none" -> "layered_decode"
          [] Family(c) = "none" /\ (c.architecture \in hybrid \/ UnmodelledAttention(c)) -> "unknown"
          [] OTHER -> IF Declares(c, {"kv_lora_rank", "qk_rope_head_dim"}) THEN "mla_decode"
                      ELSE IF k.generates # "autoregressive_decode" \/ Declares(c, {"num_attention_heads"}) THEN k.generates
                      ELSE IF Declares(c, {"intermediate_size", "state_size", "conv_kernel"}) THEN "ssm_decode"
                      ELSE "unknown"

\* lm_head.weight is in no layer and no table, and the n-gram tables are in the
\* layers the config lists: no tensor is taken off the loaded bytes twice.
ClassesApart(k) ==
    \A t \in k.tensors : /\ "lm_head" \in t.parts => ~IsMtp(t, k.config) /\ "host" \notin t.parts
                         /\ "host" \in t.parts => ~IsMtp(t, k.config)

\* A model type whose replicated weights are traced is predicted layer by layer
\* or not at all.  Nothing in the code checks it: a family is known by its
\* fields too, and only the layered formula knows of replicated weights.
ASSUME WeightsAssumption ==
    \A name \in DOMAIN Checkpoints :
      LET k == Checkpoints[name]
      IN  /\ ClassesApart(k) /\ PaddingFits(k.config)
          /\ k.config.model_type \in TracesReplicas => Mechanism(k, {}) \in {"layered_decode", "unknown"}

\* The loaded bytes: total, held whole by every rank, split by KV head.
\* Reading the headers is tried up to three times: "dtypes" is the first read,
\* which has the tensors' dtypes; "sizes" the second, which has not; "late"
\* the third, made for the total alone.
Weights(k, headers, index, dtype) ==
    LET stored == dtype = "float32" \/ headers # "dtypes"
        read == headers \in {"dtypes", "sizes"}
    IN  [total |-> WeightBytes(k.tensors, k.config, stored, headers # "none", IF index THEN k.index ELSE 0, k.published),
         replicated |-> IF read THEN ReplicatedBytes(k.tensors, k.config, stored) ELSE 0,
         kv_head |-> IF read THEN KvHeadBytes(k.tensors, k.config, stored) ELSE 0]

\* The dtype, the bytes and the mechanism, over the encoder's fields, over the config.
CalculatorMetadata(k, w, dtype, processor, hybrid) ==
    LET served == [torch_dtype |-> IF dtype # "" THEN dtype ELSE ServedDtype(Field(k.config, "torch_dtype", "")),
                   w |-> w, mechanism |-> Mechanism(k, hybrid)]
        encoder == IF processor THEN EncoderFields(k.config, k.processor) ELSE Empty
    IN  [f \in DOMAIN served \cup DOMAIN encoder \cup DOMAIN k.config |->
            IF f \in DOMAIN served THEN served[f] ELSE Field(encoder, f, Field(k.config, f, 0))]

-----------------------------------------------------------------------------
(* The prediction and the state-block guard.                               *)

ServedContext(k) ==
    IF DeploymentChecks THEN Smaller(V3Context, Field(k.config, "max_position_embeddings", V3Context)) ELSE 0

Launch(seqs) ==
    LET context == ServedContext(Checkpoint)
    IN  [tp |-> TensorParallel, kv_dtype |-> "auto", kv_bytes |-> KvDtypeBytes(metadata, "auto"),
         model_bytes |-> ModelBytes(metadata), sm |-> Gpu.sm, moe_backend |-> "auto", memory |-> Gpu.memory,
         util |-> Utilization, isl |-> IF context = 0 THEN ShortInput ELSE context - Output, osl |-> Output,
         batch |-> IF context = 0 THEN 4 ELSE 1, tokens |-> Tier.tokens, seqs |-> seqs, max_len |-> context,
         eager |-> FALSE, language_only |-> FALSE]

Predicted(seqs) == [launch |-> Launch(seqs), out |-> Calculate(metadata, Launch(seqs))]
Known == claim.out # Unknown

\* KV blocks the predicted memory holds at the least.
PredictedCapacity(out) ==
    StateBlockCapacity(out.available_kv_cache_bytes, out.kv_bytes_per_block, SafetyBuffer + out.compile_segment_bytes)

StateBlockLimitNoMargin(out, seqs, facts) ==   \* a bug: the last byte is counted on
    IF out = Unknown \/ ~facts.state_blocks \/ out.kv_bytes_per_block = 0 THEN 0
    ELSE IF seqs <= out.available_kv_cache_bytes \div out.kv_bytes_per_block THEN 0
    ELSE Larger(1, out.available_kv_cache_bytes \div out.kv_bytes_per_block)

\* max_num_seqs the plan must set where a decode sequence needs a state
\* block of its own; 0 to keep the default.
StateBlockLimit(out, seqs, facts) ==
    IF out = Unknown \/ ~facts.state_blocks THEN 0
    ELSE IF out.kv_bytes_per_block <= 0 \/ seqs <= PredictedCapacity(out) THEN 0
    ELSE Larger(1, PredictedCapacity(out))

-----------------------------------------------------------------------------
(* The plan.                                                               *)

EmptyPlan == [tp |-> 1, batch_size |-> 0, dtype |-> "", util |-> 0, max_model_len |-> 0, max_num_seqs |-> 0,
              tokenizer_mode |-> "", block_size |-> 0, reasoning_parser |-> "", tool_call_parser |-> ""]

Usable(memory) == (memory * 9) \div 10

DeriveTensorParallel(out, memory) ==
    LET splits == {tp \in {2, 4, 8} : /\ out.num_attention_heads % tp = 0 /\ out.num_kv_heads % tp = 0
                                      /\ out.total_required_bytes <= tp * Usable(memory)}
    IN  IF out.total_required_bytes <= Usable(memory) \/ splits = {} THEN 1 ELSE Least(splits)

DeriveBatchSize(out, tp) ==
    LET perSequence == IF out.state_per_sequence_bytes > 0 THEN out.state_per_sequence_bytes
                       ELSE out.kv_per_token_bytes * (out.isl + out.osl)
    IN  IF perSequence <= 0 THEN 4
        ELSE Larger(1, Smaller((out.available_kv_cache_bytes * tp) \div perSequence, 256))

BuiltPlan(out, k, memory) ==
    LET tp == DeriveTensorParallel(out, memory)
    IN  [EmptyPlan EXCEPT !.tp = tp, !.batch_size = DeriveBatchSize(out, tp), !.util = Util,
                          !.dtype = ServedDtype(Field(k.config, "torch_dtype", "")),
                          !.max_model_len = ShortInput + Output]

\* The engine renders the chat of a model type it has a tokenizer mode for.
TokenizerMode(k, facts) == IF k.config.model_type \in facts.tokenizer_modes THEN k.config.model_type ELSE ""

-----------------------------------------------------------------------------
(* The parsers.                                                            *)

Registered(parser, parsers) == IF parser \in parsers THEN parser ELSE ""

ServedParser(k, facts) ==
    LET c == k.config
    IN  IF c.architecture \in DOMAIN facts.reasoning_by_arch
        THEN Registered(facts.reasoning_by_arch[c.architecture], facts.reasoning_parsers)
        ELSE IF c.model_type \in facts.reasoning_parsers THEN c.model_type
        ELSE IF DeploymentChecks THEN Registered(Field(k.recipe, "reasoning_parser", ""), facts.reasoning_parsers)
        ELSE ""

ReasoningParserFor(k, facts, template, channel, engineRenders) ==
    IF \/ engineRenders
       \/ /\ "enable_thinking" \in template => DeploymentChecks
          /\ channel \/ "reasoning_content" \in template
    THEN ServedParser(k, facts) ELSE ""

\* The recipes come first, of the checkpoint and then of its architecture; a
\* recipe's parser the version does not register is not replaced by another.
ToolCallParserFor(k, facts, template, card, engineRenders) ==
    LET c == k.config
        recipe == Field(k.recipe, "tool_call_parser", Field(facts.tool_by_arch, c.architecture, ""))
        documented == IF c.model_type = "gpt_oss" THEN {"openai"} ELSE {}
        coder == IF "qwen3_coder_block" \in template THEN {"qwen3_coder"} ELSE {}
        known(parsers) == parsers \cap facts.tool_parsers
    IN  IF recipe # "" THEN (IF engineRenders \/ "tools" \in template THEN Registered(recipe, facts.tool_parsers) ELSE "")
        ELSE IF "tools" \notin template \/ Cardinality(card) > 1 THEN ""
        ELSE IF known(card) # {} THEN CHOOSE p \in card : TRUE
        ELSE IF known({c.model_type}) # {} THEN c.model_type
        ELSE IF known(documented) # {} THEN "openai"
        ELSE IF known(coder) # {} THEN "qwen3_coder" ELSE ""

-----------------------------------------------------------------------------
(* The stages.                                                             *)

Init ==
    /\ request \in Requests
    /\ stage = "engine"
    /\ engine = ""
    /\ found = [headers |-> "none", problems |-> FALSE]
    /\ metadata = Empty
    /\ claim = [launch |-> Empty, out |-> Unknown]
    /\ limit = 0
    /\ plan = EmptyPlan
    /\ status = ""

\* The newest version that serves the architecture of the config on main; with
\* no config there is no architecture.
ChooseEngine ==
    /\ stage = "engine"
    /\ engine' \in {EngineFor(Config.architecture, Versions, Engines), ""}
    /\ stage' = "resolve"
    /\ UNCHANGED <<request, found, metadata, claim, limit, plan, status>>

\* The Hub resolves the revision and config.json is there; else no plan.
Resolve ==
    /\ stage = "resolve"
    /\ stage' \in {"weigh", "failed"}
    /\ UNCHANGED <<request, engine, found, metadata, claim, limit, plan, status>>

\* The tensor headers, the index and the processor files.
Weigh ==
    /\ stage = "weigh"
    /\ \E headers \in {"dtypes", "sizes", "late", "none"}, index, processor \in BOOLEAN :
         /\ index => headers = "none" /\ Checkpoint.index > 0
         /\ processor => DeclaresTowers(Config) /\ DOMAIN Checkpoint.processor # {}
         /\ found' = [headers |-> headers,
                      problems |-> headers \in {"dtypes", "sizes"} /\ LoadProblems(Facts, Checkpoint.suffixes, Quant) # {}]
         /\ metadata' = CalculatorMetadata(Checkpoint, Weights(Checkpoint, headers, index, Dtype), Dtype,
                                           processor, Facts.hybrid)
    /\ stage' = "predict"
    /\ UNCHANGED <<request, engine, claim, limit, plan, status>>

Predict ==
    /\ stage = "predict"
    /\ claim' = Predicted(DefaultSeqs)
    /\ stage' = "guard"
    /\ UNCHANGED <<request, engine, found, metadata, limit, plan, status>>

GuardKeepsClaim ==   \* a bug: the lowered plan is not predicted again
    /\ stage = "guard"
    /\ limit' = IF IsSeed THEN StateBlockLimit(claim.out, DefaultSeqs, Facts) ELSE 0
    /\ stage' = IF claim.out = Unknown THEN "solve" ELSE "build"
    /\ UNCHANGED <<request, engine, found, metadata, claim, plan, status>>

\* A seed's plan lowers max_num_seqs to what the predicted cache holds, and is
\* predicted again with it; a given plan boots as it is.
Guard ==
    /\ stage = "guard"
    /\ limit' = IF IsSeed THEN StateBlockLimit(claim.out, DefaultSeqs, Facts) ELSE 0
    /\ claim' = IF limit' > 0 THEN Predicted(limit') ELSE claim
    /\ stage' = IF claim'.out = Unknown THEN "solve" ELSE "build"
    /\ UNCHANGED <<request, engine, found, metadata, plan, status>>

BuildPlan ==
    /\ stage = "build"
    /\ LET base == BuiltPlan(claim.out, Checkpoint, Gpu.memory)
       IN  plan' = [base EXCEPT !.max_model_len = IF DeploymentChecks THEN ServedContext(Checkpoint) ELSE @,
                                !.max_num_seqs = limit,
                                !.tokenizer_mode = TokenizerMode(Checkpoint, Facts),
                                !.block_size = RequiredBlockSize(Config)]
    /\ stage' = "parsers"
    /\ UNCHANGED <<request, engine, found, metadata, claim, limit, status>>

\* The chat template, the tokenizer config and the model card.
NameParsers ==
    /\ stage = "parsers"
    /\ \E template \in {Checkpoint.template, {}}, channel \in {Checkpoint.channel, FALSE},
          card \in {Checkpoint.card, {}} :
         LET engineRenders == template = {} /\ plan.tokenizer_mode # ""
         IN  plan' = [plan EXCEPT
                !.reasoning_parser = ReasoningParserFor(Checkpoint, Facts, template, channel, engineRenders),
                !.tool_call_parser = IF DeploymentChecks
                                     THEN ToolCallParserFor(Checkpoint, Facts, template, card, engineRenders) ELSE ""]
    /\ stage' = "solve"
    /\ UNCHANGED <<request, engine, found, metadata, claim, limit, status>>

\* The calculator's total fits the GPUs rented; a split claim is per GPU.
PredictedFeasible ==
    claim.out.total_required_bytes <= Usable(Gpu.memory) * IF claim.out.tensor_parallel > 1 THEN 1 ELSE request.count

\* A seed keeps the split it was predicted for; a given plan stays as it is.
Solve ==
    /\ stage = "solve"
    /\ plan' = IF IsSeed
               THEN [plan EXCEPT !.tp = IF TensorParallel > 1 THEN TensorParallel ELSE IF request.count > 1 THEN @ ELSE 1]
               ELSE [EmptyPlan EXCEPT !.tp = Given.tp, !.util = Given.util, !.dtype = Given.dtype, !.max_num_seqs = Given.seqs]
    /\ status' = IF engine = "" \/ ~Known THEN "unknown"
                 ELSE IF IsSeed /\ (found.problems \/ ~PredictedFeasible) THEN "infeasible"
                 ELSE "planned"
    /\ stage' = "done"
    /\ UNCHANGED <<request, engine, found, metadata, claim, limit>>

\* Planning ends; a request that failed raises and leaves no solution.
Ended == stage \in {"done", "failed"} /\ UNCHANGED vars

Next == ChooseEngine \/ Resolve \/ Weigh \/ Predict \/ Guard \/ BuildPlan \/ NameParsers \/ Solve \/ Ended

Spec == Init /\ [][Next]_vars

-----------------------------------------------------------------------------
(* What planning promises.                                                 *)

Stages == {"engine", "resolve", "weigh", "predict", "guard", "build", "parsers", "solve", "done", "failed"}

\* Every variable has its type: a plan's numbers are natural, and a prediction
\* is known or unknown as a whole.
TypeOK ==
    /\ request \in Requests
    /\ stage \in Stages
    /\ engine \in {""} \cup {Versions[i] : i \in DOMAIN Versions}
    /\ found \in [headers : {"dtypes", "sizes", "late", "none"}, problems : BOOLEAN]
    /\ claim.out.status \in {"known", "unknown"}
    /\ limit \in Nat
    /\ \A f \in {"tp", "batch_size", "util", "max_model_len", "max_num_seqs", "block_size"} : plan[f] \in Nat
    /\ status \in {"", "unknown", "infeasible", "planned"}

\* What one layer of a kind keeps for one request, by itself: the tokens it
\* caches in its own pages, or its states.
OwnBytes(k, length, flight) ==
    LET cached(tokens) == IF k.page_bytes = 0 THEN tokens * k.bytes_per_token ELSE CeilDiv(tokens, k.block_size) * k.page_bytes
    IN  CASE k.kind \in {"full", "compressed"} -> cached(length)
          [] k.kind = "sliding" -> cached(WindowSpan(k, length, flight))
          [] k.kind = "state" -> StateBlocks * k.state_bytes
          [] OTHER -> k.page_bytes
KeptBytes(kinds, e) ==
    SumOver(DOMAIN kinds, LAMBDA i : kinds[i].count * OwnBytes(kinds[i], e.isl + e.osl, 2 * e.tokens))

\* The blocks a request is counted at hold what all its layers keep, however
\* the layout groups kinds of different sizes and counts into blocks of one
\* size: a prediction never books less than the sum of the layers.
ReservationCoversLayers ==
    Known /\ metadata.mechanism = "layered_decode" =>
        claim.out.state_per_sequence_bytes >= KeptBytes(LayerKinds(metadata, claim.launch), claim.launch)

\* tp times the bytes of a tensor one rank holds: all of it when every rank
\* keeps it whole, a KV head's part when it is split by head, else its shard.
RankTimesTp(t, c, e, stored) ==
    LET size == SizeServed(t, c, stored)
    IN  IF "replicated" \in t.parts /\ c.model_type \in TracesReplicas THEN e.tp * size
        ELSE IF "kv_head" \in t.parts /\ c.model_type = "minimax_m3" THEN (e.tp * size) \div KvRanks(c, e)
        ELSE size

\* Once the headers were read, the weights counted per GPU hold what a rank
\* loads of every tensor that is loaded at all, wherever the engine keeps
\* it: a replicated tensor is never divided.  (A total read late is, see the
\* findings.)
RankHoldsItsShare ==
    Known /\ found.headers \in {"dtypes", "sizes"} =>
        LET tied(t) == Declares(Config, {"tie_word_embeddings"}) /\ "lm_head" \in t.parts
            onHost(t) == HasHostTable(Config) /\ "host" \in t.parts
            loaded == {t \in Checkpoint.tensors : ~IsMtp(t, Config) /\ ~tied(t) /\ ~onHost(t)}
            stored == Dtype = "float32" \/ found.headers = "sizes"
        IN  claim.launch.tp * claim.out.weight_memory_bytes
            >= SumOver(loaded, LAMBDA t : RankTimesTp(t, Config, claim.launch, stored))

\* The max_num_seqs a plan is lowered to still fits after the prediction is
\* made again with it: fewer sequences never leave less cache than they were
\* counted from.  (At 1 there is nothing lower to set.)
LoweredPlanHolds ==
    limit > 1 =>
        limit <= StateBlockCapacity(claim.out.available_kv_cache_bytes, claim.out.kv_bytes_per_block,
                                    SafetyBuffer + claim.out.compile_segment_bytes)

\* A solution boots with what its claim was predicted from: the split, the
\* utilization, the dtype and max_num_seqs, and for a seed the context.
PlanBootsAsPredicted ==
    status # "" /\ Known =>
        LET e == claim.launch
        IN  /\ plan.tp = e.tp
            /\ e.util = (IF plan.util > 0 THEN plan.util ELSE DefaultUtil)
            /\ e.seqs = (IF plan.max_num_seqs > 0 THEN plan.max_num_seqs ELSE Tier.seqs)
            /\ metadata.torch_dtype = (IF plan.dtype # "" THEN plan.dtype ELSE ServedDtype(Field(Config, "torch_dtype", "")))
            /\ IsSeed => plan.max_model_len = e.isl + e.osl
=============================================================================
