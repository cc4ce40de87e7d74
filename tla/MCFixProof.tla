----------------------------- MODULE MCFixProof -----------------------------
(* Six broken cases like those of remediation.py, on four GPUs and a hub of *)
(* ten checkpoints; the classifier may misread any log.                     *)
EXTENDS FixProof

MCGpus ==
  [g4090 |-> [memory |-> 24, capability |-> 89], a100 |-> [memory |-> 80, capability |-> 80],
   h100 |-> [memory |-> 80, capability |-> 90], b200 |-> [memory |-> 180, capability |-> 100]]
Entry(min, parameters, scales) == [min |-> min, parameters |-> parameters, kv_scales |-> scales]
MCPinned ==
  [methods |-> [awq |-> Entry(75, {"qweight", "scales"}, FALSE), fp8 |-> Entry(75, {"weight_scale"}, TRUE),
                fp_quant |-> Entry(100, {"qweight", "act_global_scale"}, FALSE)],
   aliases |-> <<>>, schemes |-> <<>>, ct_kv_scales |-> TRUE, kv_scales |-> {"k_scale"}, names |-> {"qkv_proj"}]
MCCatalog ==
  <<[sku |-> "a100", rate |-> 150], [sku |-> "b200", rate |-> 550], [sku |-> "g4090", rate |-> 69],
    [sku |-> "h100", rate |-> 290]>>

Base(id, publisher, total, longest, config) ==
  [id |-> id, publisher |-> publisher, shape |-> id, quant |-> NoQuant, suffixes |-> {"weight"}, bits |-> 16,
   norm |-> id, downloads |-> 9, declares |-> "", quantizedFrom |-> "",
   total |-> total, longest |-> longest, config |-> config]
Dense(heads, kv, length, type) ==
  [num_attention_heads |-> heads, num_key_value_heads |-> kv, max_position_embeddings |-> length,
   model_type |-> type]

Qwen8 == Base("qwen8", "qwen", 18, 20000, Dense(32, 8, 40960, "qwen3"))
Copy(id, publisher, method, bits, downloads) ==
  [Qwen8 EXCEPT !.id = id, !.publisher = publisher, !.bits = bits, !.downloads = downloads, !.quantizedFrom = "qwen8", !.total = 8,
                !.quant = [NoQuant EXCEPT !.quant_method = method],
                !.suffixes = {"weight"} \cup MCPinned.methods[method].parameters]

MCHub ==
  <<Copy("awq8", "qwen", "awq", 4, 5),
    [Copy("bad8", "qwen", "awq", 4, 7) EXCEPT !.suffixes = {"weight", "k_scale"}],
    [Copy("draft8", "qwen", "awq", 4, 9) EXCEPT !.shape = "draft"],
    [Copy("fp8", "acme", "fp8", 8, 8) EXCEPT !.suffixes = @ \cup {"k_scale"}],
    [Copy("fpq8", "ista", "fp_quant", 4, 1) EXCEPT
       !.suffixes = {"dqweight"},
       !.config = [num_attention_heads |-> 32, num_key_value_heads |-> 8, model_type |-> "qwen3",
                   max_position_embeddings |-> 40960, quant_method |-> "fp_quant"]],
    Base("gemma2", "google", 6, 8192, Dense(8, 4, 8192, "gemma2")),
    [Copy("ko8", "qwen", "awq", 4, 9) EXCEPT !.norm = "ko8"],
    Base("mistral7", "mistral", 15, 32768, Dense(32, 8, 32768, "mistral")),
    Qwen8,
    Base("qwen14", "qwen", 30, 16000, Dense(40, 8, 40960, "qwen3"))>>

Plan(model, sku, count, tp, dtype, config) ==
  [model |-> model, sku |-> sku, count |-> count, tp |-> tp, dtype |-> dtype, config |-> config]
Broken(family, plan) == [family |-> family, plan |-> plan]

Memory14 == Broken("oom_weight_load", Plan("qwen14", "g4090", 1, 1, "bfloat16", <<>>))
Cache8 == Broken("oom_kv_cache", Plan("qwen8", "g4090", 1, 1, "bfloat16", [max_model_len |-> 40960]))
Length7 == Broken("max_model_len", Plan("mistral7", "g4090", 1, 1, "bfloat16", [max_model_len |-> 999999]))
Dtype2 == Broken("dtype_incompatible", Plan("gemma2", "g4090", 1, 1, "float16", <<>>))
Group8 == Broken("tp_divisibility", Plan("qwen8", "a100", 4, 3, "bfloat16", <<>>))
Quant8 == Broken("quant_compute_capability",
                 Plan("fpq8", "h100", 1, 1, "bfloat16", [allow_deprecated_quantization |-> "true"]))
Cases == {Memory14, Cache8, Length7, Dtype2, Group8, Quant8}

MCCaseLists == {<<c>> : c \in Cases \ {Dtype2, Group8}} \cup {<<Dtype2, Group8>>}
MCAccepts == {{"a"}, {"a", "b"}}
MCLogs == [p \in {c.plan : c \in Cases} |-> {(CHOOSE c \in Cases : c.plan = p).family, "other"}]

NoSpec == [action |-> "", field |-> "", source |-> "", value |-> "", percent |-> 100]
Rule(strategy) == [strategy |-> strategy, spec |-> NoSpec, blocklist |-> {}, built |-> <<>>]
SpecRule(spec) == [Rule("") EXCEPT !.spec = spec]
FpQuant == [fp_quant |-> {100}]
MCRules ==
  [oom_weight_load |-> Rule("retarget_memory"),
   oom_kv_cache |-> Rule("reduce_memory_pressure"),
   max_model_len |-> Rule("clamp_max_model_len"),
   dtype_incompatible |-> [Rule("fallback_dtype") EXCEPT !.blocklist = {"gemma2"}],
   tp_divisibility |-> Rule("reduce_tensor_parallel"),
   quant_compute_capability |-> [Rule("substitute_artifact") EXCEPT !.built = FpQuant],
   config_incompatible |-> Rule("fallback_engine_config"),
   mamba_cache_blocks |->
     SpecRule([NoSpec EXCEPT !.action = "set_field", !.field = "max_num_seqs", !.source = "mamba_cache_blocks"]),
   multimodal_config |-> SpecRule([NoSpec EXCEPT !.action = "remove_field", !.field = "limit_mm_per_prompt"])]

\* A misread log, one read right, and one read right with a value made up.
Says(family, values) ==
  [family |-> family, confident |-> TRUE, version |-> "this", values |-> values,
   quoted |-> DOMAIN values, exact |-> FALSE]
Reads(family, values) == [Says(family, values) EXCEPT !.exact = TRUE]
Invents(family, values) == [Reads(family, values) EXCEPT !.quoted = {}]
Doubts(answer) == {[answer EXCEPT !.confident = FALSE], [answer EXCEPT !.version = "other"]}

NoAnswer == {[Says("unknown", <<>>) EXCEPT !.confident = FALSE], Says("mamba_cache_blocks", <<>>)}
MCAnswers ==
  [oom_weight_load |-> {Reads("oom_weight_load", <<>>), Says("oom_kv_cache", [max_num_seqs_attempted |-> 256])},
   oom_kv_cache |-> {Reads("oom_kv_cache", [estimated_max_model_len |-> 20000]), Invents("oom_kv_cache", [estimated_max_model_len |-> 30000]),
                     Says("oom_kv_cache", [estimated_max_model_len |-> 40960])},
   max_model_len |-> {Reads("max_model_len", [derived_max |-> 32768]), Invents("max_model_len", [derived_max |-> 1000000]),
                      Says("max_model_len", [derived_max |-> 2000000])},
   dtype_incompatible |-> {Reads("dtype_incompatible", [model_type |-> "gemma2", unsupported_dtype |-> "float16"]),
                           Invents("dtype_incompatible", [model_type |-> "qwen3"])},
   tp_divisibility |-> {Reads("tp_divisibility", [num_heads |-> 32]), Invents("tp_divisibility", [num_heads |-> 7]),
                        Says("config_incompatible", [flag |-> "max_model_len"])},
   quant_compute_capability |-> {Reads("quant_compute_capability", [min_capability |-> 100]),
                                 Invents("quant_compute_capability", [min_capability |-> 80]),
                                 Says("mamba_cache_blocks", [mamba_cache_blocks |-> 0])}
     \cup Doubts(Reads("quant_compute_capability", [min_capability |-> 100])),
   other |-> NoAnswer \cup {Says("oom_weight_load", <<>>), Says("multimodal_config", <<>>)},
   harness |-> NoAnswer \cup {Says("oom_weight_load", <<>>)}]

MCPlanned == {"awq8", "fp8", "gemma2", "mistral7", "qwen8"} \cup {"qwen14"}
MCLostReads ==
  {{}, {<<"qwen8", "norm">>}, {<<"bad8", "names">>}, {<<"ko8", "norm">>}, {<<"awq8", "config">>}}
MCProposals == {"qwen8", "qwen14", ""}
=============================================================================
