--------------------------- MODULE LoadedWeights ---------------------------
(***************************************************************************)
(* Which bytes of a checkpoint the engine loads, and what each rank of a   *)
(* tensor-parallel group holds of them: the tensor accounting of           *)
(* plan_pipeline.py and the padding and startup buffers of layered.py.     *)
(*                                                                         *)
(* A tensor is a record: its stored dtype and size, the decoder layer its  *)
(* name carries (0 - 1 for none) and the set "parts" of the name patterns  *)
(* it matches: "lm_head", "mtp", "host" (the n-gram tables), "replicated"  *)
(* and "kv_head" (the patterns of its own family), "indexer_wk" and        *)
(* "indexer_scale", "mla" and "mla_scale", "fp32".  A set of tensors also  *)
(* names each, so that two of one shape stay two.                          *)
(***************************************************************************)
EXTENDS LayeredCache

SumOver(T, size(_)) == Total([t \in T |-> size(t)])

-----------------------------------------------------------------------------
(* What is loaded.                                                         *)

\* Loaders that drop every tensor whose name holds "mtp.".
DropsMtp == {"deepseek_v4", "deepseek_v41", "qwen4_exp", "qwen3_5", "nemotron_h", "qwen3_next", "minimax_m3"}

\* A tensor of the multi-token-prediction layers the main model skips.
IsMtp(t, c) ==
    LET extra == Field(c, "num_nextn_predict_layers", 0)
        layers == Field(c, "num_hidden_layers", 0)
    IN  \/ "mtp" \in t.parts /\ c.model_type \in DropsMtp
        \/ extra > 0 /\ layers > 0 /\ t.layer \in layers .. layers + extra - 1

\* Bytes a tensor occupies once loaded with dtype=auto: some at a width of
\* their own, else float32 halved in an unquantized checkpoint.
LoadedSize(t, c) ==
    LET family(m) == c.model_type = m
    IN  CASE family("glm_moe_dsa") /\ t.dtype = "F8_E4M3" /\ "indexer_wk" \in t.parts -> 2 * t.size
          [] family("glm_moe_dsa") /\ "indexer_scale" \in t.parts -> 0
          [] family("glm5_next") /\ t.dtype = "F8_E4M3" /\ "mla" \in t.parts -> 2 * t.size
          [] family("glm5_next") /\ "mla_scale" \in t.parts -> 0
          [] family("glm5_next") /\ t.dtype \in {"BF16", "F16"} /\ "fp32" \in t.parts -> 2 * t.size
          [] family("minimax_m3") /\ t.dtype = "F32" /\ "fp32" \in t.parts -> t.size
          [] OTHER -> IF Declares(c, {"quantization_config"}) \/ t.dtype # "F32" THEN t.size ELSE t.size \div 2

\* The size a tensor is counted at: as stored when it is served in float32,
\* or when only the sizes could be read and not the dtypes.
SizeServed(t, c, stored) == IF stored THEN t.size ELSE LoadedSize(t, c)

\* The field that names the n-gram layers of the architectures that have them.
HostTableField ==
    [DeepseekV41ForCausalLM |-> "engram_layer_ids", Qwen4ExpForCausalLM |-> "ple_layer_ids",
     Qwen4ExpForConditionalGeneration |-> "ple_layer_ids"]
HasHostTable(c) ==
    c.architecture \in DOMAIN HostTableField /\ HostTableField[c.architecture] \in DOMAIN c

\* Bytes vLLM keeps in pinned host memory, not on a GPU.
HostBytes(T, c, stored) ==
    IF HasHostTable(c)
    THEN SumOver({t \in T : "host" \in t.parts}, LAMBDA t : SizeServed(t, c, stored)) ELSE 0

\* Families whose replicated weights are traced; every other model's weights
\* are divided by the tensor-parallel size.
TracesReplicas == {"qwen4_exp", "deepseek_v4", "deepseek_v41", "glm_moe_dsa", "glm5_next", "minimax_m3"}
ReplicatedBytes(T, c, stored) ==
    IF c.model_type \in TracesReplicas
    THEN SumOver({t \in T : "replicated" \in t.parts /\ ~IsMtp(t, c)}, LAMBDA t : SizeServed(t, c, stored)) ELSE 0
KvHeadBytes(T, c, stored) ==
    IF c.model_type = "minimax_m3"
    THEN SumOver({t \in T : "kv_head" \in t.parts}, LAMBDA t : SizeServed(t, c, stored)) ELSE 0

\* With the headers: every tensor but the MTP layers, the host tables and a
\* tied lm_head.  Without: the index's total, else the published parameter
\* counts; a model with host tables is unknown (0), never counted whole.
WeightBytes(T, c, stored, headers, index, published) ==
    LET tied == IF Declares(c, {"tie_word_embeddings"}) THEN {t \in T : "lm_head" \in t.parts} ELSE {}
        size(t) == SizeServed(t, c, stored)
    IN  IF headers /\ T # {}
        THEN SumOver(T, size) - SumOver({t \in T : IsMtp(t, c)}, size) - HostBytes(T, c, stored)
             - SumOver(tied, size)
        ELSE IF HasHostTable(c) THEN 0 ELSE IF index > 0 THEN index ELSE published

-----------------------------------------------------------------------------
(* What the engine allocates beyond the shard.                             *)

\* Gemma 4 with attention_k_eq_v: k_proj copied into the v_proj slot.
DuplicatedWeightBytes(c, e) ==
    IF Family(c) # "gemma4" \/ ~Declares(c, {"attention_k_eq_v"}) THEN 0
    ELSE LayersOf(c, "full_attention") * HeadsPerGpu(Field(c, "num_global_key_value_heads", 1), e.tp)
         * Field(c, "global_head_dim", c.head_dim) * c.hidden_size * e.model_bytes

\* What rounding the rank's expert width up to 128 adds.
ExpertPad(width, e) == RoundUp(width \div e.tp, 128) - (width \div e.tp)

\* DeepSeek's MXFP4 experts, on every CUDA backend.
Mxfp4ExpertPadding(c, e) ==
    LET quant == Field(c, "quantization_config", [x \in {} |-> 0])
        h == c.hidden_size
    IN  IF \/ Family(c) \notin {"deepseek_v4", "deepseek_v41"}
           \/ Field(c, "expert_dtype", Field(quant, "expert_dtype", "fp4")) # "fp4"
           \/ Declares(quant, {"moe_quant_algo"})
        THEN 0
        ELSE (c.num_hidden_layers - Field(c, "first_k_dense_replace", 0)) * c.n_routed_experts
             * ExpertPad(c.moe_intermediate_size, e) * (h + (2 * h) \div 32 + h \div 2 + h \div 32)

\* Layers holding a Qwen3NextSparseMoeBlock; the dense layers count from 0.
Qwen3NextMoeLayers(c) ==
    CASE ~Declares(c, {"num_experts"}) -> 0
      [] Declares(c, {"num_experts"}) /\ c.model_type = "qwen3_5" ->
           IF Declares(c, {"moe_text"}) THEN c.num_hidden_layers ELSE 0
      [] OTHER -> Cardinality({i \in 1 .. c.num_hidden_layers :
                    /\ \A j \in DOMAIN Field(c, "mlp_only_layers", <<>>) : c.mlp_only_layers[j] # i - 1
                    /\ i % Field(c, "decoder_sparse_step", 1) = 0})

\* 16-bit experts on FlashInfer's TRTLLM kernel, SM 10.x only.
TrtllmExpertPadding(c, e) ==
    IF \/ Family(c) \notin {"qwen3_5", "qwen4_exp"} \/ e.sm \div 10 # 10
       \/ e.moe_backend \notin {"auto", "humming", "flashinfer_trtllm"}
       \/ Declares(c, {"quantization_config"}) \/ Field(c, "torch_dtype", "") # "bfloat16"
       \/ ~Field(c, "norm_topk_prob", TRUE) \/ Field(c, "num_experts", 0) \notin 1 .. 2048
    THEN 0
    ELSE Qwen3NextMoeLayers(c) * c.num_experts * 3 * c.hidden_size * ExpertPad(c.moe_intermediate_size, e) * 2

\* gpt-oss's MXFP4 experts on Marlin, which runs below SM 9.0.
GptOssMarlinPadding(c, e) ==
    LET i == c.intermediate_size \div e.tp
        expert(h, w) == (2 * w * (h \div 2) + 2 * w * (h \div 32) + 4 * w) + (h * (w \div 2) + h * (w \div 32) + h * 2)
    IN  IF \/ c.model_type # "gpt_oss"
           \/ Field(Field(c, "quantization_config", [x \in {} |-> 0]), "quant_method", "") # "mxfp4"
           \/ e.moe_backend \notin {"auto", "marlin"} \/ e.sm \notin 75 .. 89
        THEN 0
        ELSE c.num_hidden_layers * c.num_local_experts
             * (expert(RoundUp(c.hidden_size, 256), RoundUp(i, 128)) - expert(c.hidden_size, i))

PaddedWeightBytes(c, e) ==
    Mxfp4ExpertPadding(c, e) + TrtllmExpertPadding(c, e) + GptOssMarlinPadding(c, e)

\* GLM5Next's top-k index buffers, built while the model loads.
StartupBufferBytes(c, tokens) ==
    LET width == RoundUp(c.index_topk + c.index_kpool - 1, 128)
    IN  IF Family(c) # "glm5_next" \/ ~Declares(c, {"index_topk"}) THEN 0
        ELSE tokens * width * 4
             + LayersOf(c, "deepseek_sparse_attention") * ((tokens + 1) * width * 4 + (tokens + 1) * 4 + tokens * 4)

\* What GLM5Next's first forward with attention metadata allocates and keeps.
FirstCaptureBytes(c, e) ==
    LET k == KdaShape(c)
        size == c.kv_lora_rank + Field(c, "qk_rope_head_dim", 0)
        flashmla == /\ e.kv_dtype \in {"auto", "bfloat16"} /\ size = 576
                    /\ Field(c, "num_attention_heads", 0) \div e.tp > 16
        flashinfer == e.sm \div 10 = 10 /\ Declares(c, {"index_topk"}) /\ ~flashmla
    IN  IF Family(c) # "glm5_next" THEN 0
        ELSE (IF flashinfer THEN SparseWorkspace ELSE 0)
             + LayersOf(c, "linear_attention") * 3 * ((k.heads * k.dim) \div e.tp) * k.kernel * 4

-----------------------------------------------------------------------------
(* What one rank holds.                                                    *)

PerGpu(total, tp) == CeilDiv(total, tp)

\* Ranks among which the weights split by KV head are shared.
KvRanks(c, e) == Larger(1, Smaller(e.tp, Field(c, "num_key_value_heads", e.tp)))

ShardBytesDividesAll(w, c, e) == PerGpu(w.total, e.tp)   \* a bug: the replicated tensors too

\* The shard of the loaded bytes: w has the total, the bytes every rank keeps
\* whole and those split by KV head.
ShardBytes(w, c, e) ==
    LET replicated == Smaller(w.replicated, w.total)
        byHead == Smaller(w.kv_head, w.total - replicated)
    IN  PerGpu(w.total - replicated - byHead, e.tp) + replicated + PerGpu(byHead, KvRanks(c, e))
=============================================================================
