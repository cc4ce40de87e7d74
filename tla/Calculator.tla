----------------------------- MODULE Calculator -----------------------------
(***************************************************************************)
(* domain/mechanisms/calculator.py: the memory one GPU needs to serve a    *)
(* checkpoint, and what vLLM leaves for the KV cache.                      *)
(*                                                                         *)
(* m is the metadata: the config of LayeredCache with torch_dtype the      *)
(* dtype served, w the loaded bytes (total, replicated, kv_head), the      *)
(* mechanism and, for a traced vision tower, the encoder's fields.  x is   *)
(* what the engine is started with: the record e of LayeredCache and       *)
(* memory, util (percent), isl, osl, batch (max_batch_size), tokens        *)
(* (max_num_batched_tokens), seqs (max_num_seqs), max_len (max_model_len,  *)
(* 0 when unset), eager and language_only.                                 *)
(***************************************************************************)
EXTENDS LoadedWeights

CONSTANTS
    NonTorchBase,      \* _NON_TORCH_BASE_BYTES, per GPU class
    GraphBytes,        \* _CUDA_GRAPH_BYTES_PER_LAYER_GRAPH, per GPU class
    RadixWorkspace     \* _RADIX_TOPK_WORKSPACE_BYTES

GpuClasses == {"sm8x", "sm90"}
ASSUME ClassAssumption ==
    /\ NonTorchBase \in [GpuClasses -> Nat]
    /\ GraphBytes \in [GpuClasses -> Nat]
    /\ RadixWorkspace \in Nat

VocabPadding == 64
MlaWorkspaceCap == 64 * 1024
MlaBlock == 16
IndexerRowsPerToken == 40
WorkspaceAlign == 256

DtypeBytes(dtype) == CASE dtype = "float32" -> 4 [] dtype \in {"fp8", "int8"} -> 1 [] OTHER -> 2
ModelBytes(m) == DtypeBytes(m.torch_dtype)
\* The KV cache element: the engine's kv_cache_dtype when set, else the model's.
KvDtypeBytes(m, kv_dtype) == IF kv_dtype = "auto" THEN ModelBytes(m) ELSE DtypeBytes(kv_dtype)
GpuClass(x) == IF x.sm > 0 /\ x.sm < 90 THEN "sm8x" ELSE "sm90"
SeqLen(x) == IF x.max_len > 0 THEN x.max_len ELSE x.isl + x.osl
PaddedVocab(m) == RoundUp(m.vocab_size, VocabPadding)
FirstOf(m, fields) == IF fields \cap DOMAIN m = {} THEN 0 ELSE m[CHOOSE f \in fields : f \in DOMAIN m]
Experts(m) == FirstOf(m, {"n_routed_experts", "num_experts", "num_local_experts"})
TopK(m) == FirstOf(m, {"num_experts_per_tok", "experts_per_token"})

-----------------------------------------------------------------------------
(* The vision tower's moment of the startup peak.                          *)

VisionFamily(t) ==
    CASE t \in {"qwen3_vl", "qwen3_5", "qwen4_exp"} -> "qwen3_vl"
      [] t = "muse_glimmer" -> "muse_glimmer"
      [] OTHER -> "none"

DeclaresTowers(c) == Declares(c, {"vision_config"}) \/ Declares(c, {"audio_config"})

\* The fields that size a traced tower's dummy batch: of vision_config and of
\* the processor files p, when both are there.
EncoderFields(c, p) ==
    IF VisionFamily(c.model_type) = "none" \/ ~Declares(c, {"vision_config"}) THEN [f \in {} |-> 0]
    ELSE [f \in DOMAIN c.vision_config \cup DOMAIN p |-> IF f \in DOMAIN p THEN p[f] ELSE c.vision_config[f]]

MultimodalWrapper(m, x) == ~x.language_only /\ DeclaresTowers(m)

\* The largest image of aspect at most 200: grid points with a factor pair.
QwenVlMergedTokens(pixels, unit) ==
    LET fits(n) == \E d \in 1 .. n : d * d <= n /\ n % d = 0 /\ n <= 200 * d * d
        sizes == {n \in 1 .. pixels \div (unit * unit) : fits(n)}
    IN  IF sizes = {} THEN 0 ELSE Most(sizes)

\* Merged tokens per dummy item, of the modalities that give any.
EncoderItemTokens(m, seq_len) ==
    LET qwen(edge) == QwenVlMergedTokens(edge, m.patch_size * m.merge_size)
        edge(f) == IF Declares(m, {f}) THEN {m[f]} ELSE {}
        frame == Field(m, "max_video_frame_tokens", 0)
        groups == Smaller(Larger(1, seq_len \div frame), Larger(1, Field(m, "video_num_frames", 0) \div m.temporal_patch_size))
    IN  IF ~Declares(m, {"patch_size", "merge_size", "temporal_patch_size"}) THEN {}
        ELSE {n \in CASE VisionFamily(m.model_type) = "qwen3_vl" ->
                             {qwen(n) : n \in edge("image_longest_edge")}
                             \cup {qwen(n \div m.temporal_patch_size) : n \in edge("video_longest_edge")}
                      [] VisionFamily(m.model_type) = "muse_glimmer" ->
                             edge("max_image_tokens")
                             \cup (IF frame > 0 /\ Declares(m, {"video_num_frames"}) THEN {groups * frame} ELSE {})
                      [] OTHER -> {} : n > 0}

EncoderPeak(m, x, item) ==
    LET items == Larger(1, Smaller(Larger(x.tokens, item) \div item, x.seqs * Larger(1, SeqLen(x) \div item)))
        perItem == item * m.merge_size * m.merge_size
        patches == items * perItem
        unit == patches * m.vision_hidden_size * ModelBytes(m)
        sharded == CeilDiv(unit, x.tp)
        attention == 3 * sharded + unit
        fp32 == CeilDiv(2 * patches * m.vision_hidden_size * 4, x.tp)
        pixel == 3 * m.patch_size * m.patch_size
    IN  3 * unit + 5 * sharded
        + IF VisionFamily(m.model_type) = "muse_glimmer"
          THEN Larger(2 * fp32 + 2 * sharded, attention) + patches * pixel * 4 + perItem * pixel * 2
          ELSE Larger(2 * sharded, attention) + patches * pixel * m.temporal_patch_size * 2

EncoderPeakBytes(m, x) ==
    IF ~Declares(m, {"vision_hidden_size"}) \/ EncoderItemTokens(m, SeqLen(x)) = {} THEN 0
    ELSE EncoderPeak(m, x, Most(EncoderItemTokens(m, SeqLen(x))))

\* Why the tower's moment is not in a wrapper's prediction.
EncoderPeakUntraced(c, p) ==
    \/ Declares(c, {"audio_config"})
    \/ /\ Declares(c, {"vision_config"})
       /\ LET m == [f \in DOMAIN c \cup DOMAIN EncoderFields(c, p) |->
                      IF f \in DOMAIN EncoderFields(c, p) THEN EncoderFields(c, p)[f] ELSE c[f]]
          IN  VisionFamily(c.model_type) = "none" \/ DOMAIN p = {}
              \/ ~Declares(m, {"vision_hidden_size"}) \/ EncoderItemTokens(m, 1) = {}

-----------------------------------------------------------------------------
(* The forward and sampler moments.                                        *)

\* A Mamba-2 hybrid's live activations between two mixers.
Mamba2PieceBytes(m, x) ==
    LET heads == CeilDiv(m.mamba_num_heads, x.tp)
        b == x.tokens * ModelBytes(m)
        projected == b * (2 * heads * m.mamba_head_dim + 2 * CeilDiv(m.n_groups, x.tp) * m.ssm_state_size + heads)
        ssm == b * heads * m.mamba_head_dim
        hidden == b * m.hidden_size
    IN  IF ~Declares(m, {"mamba_num_heads", "mamba_head_dim", "n_groups", "ssm_state_size"}) THEN 0
        ELSE 2 * projected + ssm + 2 * hidden + Larger(hidden, ssm)

\* FlashInfer's monolithic TRTLLM FP8 kernel needs no fused-MoE workspace.
TrtllmFp8Experts(m, x) ==
    /\ x.sm \div 10 = 10 /\ x.moe_backend \in {"auto", "flashinfer_trtllm"}
    /\ Declares(Field(m, "quantization_config", [f \in {} |-> 0]), {"fp8_block"})
    /\ Field(m, "norm_topk_prob", TRUE)
    /\ Experts(m) \in 1 .. 512 /\ Experts(m) % 4 = 0 /\ TopK(m) \in 1 .. 32
    /\ (Field(m, "moe_intermediate_size", 0) \div x.tp) % 128 = 0

MoeWorkspaceBytes(m, x) ==
    LET inner == FirstOf(m, IF Declares(m, {"moe_intermediate_size"}) THEN {"moe_intermediate_size"} ELSE {"intermediate_size"})
        width == CeilDiv(inner, x.tp)
        w13 == IF Declares(m, {"mlp_hidden_act"}) THEN width ELSE 2 * width
    IN  IF Experts(m) = 0 \/ TopK(m) = 0 \/ inner = 0 \/ TrtllmFp8Experts(m, x) THEN 0
        ELSE x.tokens * TopK(m) * (Larger(width, m.hidden_size) + Larger(w13, m.hidden_size)) * ModelBytes(m)

KpoolIndexerWorkspaceBytes(m, seq_len) ==
    LET rows == IndexerRowsPerToken * seq_len
    IN  IF ~Declares(m, {"index_head_dim", "index_kpool"}) THEN 0
        ELSE RoundUp(rows * m.index_head_dim, WorkspaceAlign) + RoundUp(rows * 4, WorkspaceAlign)
             + RoundUp(RadixWorkspace, WorkspaceAlign)

\* The profile run's MLA prefill dummy, the workspace and the graph's buffers.
MlaForwardBytes(m, x, block) ==
    LET heads == CeilDiv(m.num_attention_heads, x.tp)
        width == RoundUp(Larger(Smaller(Larger(8 * SeqLen(x), 4 * x.seqs * block), MlaWorkspaceCap), block), block)
        head == Larger(m.qk_nope_head_dim + Field(m, "qk_rope_head_dim", 0), m.v_head_dim)
    IN  ModelBytes(m) * (width * heads * (m.qk_nope_head_dim + m.v_head_dim)
                         + x.tokens * (5 * heads * head + 7 * m.hidden_size + 2 * m.kv_lora_rank))
        + Larger(MoeWorkspaceBytes(m, x), KpoolIndexerWorkspaceBytes(m, SeqLen(x)))

\* Dense or MoE layers behind GQA attention.
GqaForwardBytes(m, x) ==
    LET heads == Field(m, "num_attention_heads", 0)
        dim == Larger(Field(m, "head_dim", m.hidden_size \div heads), Field(m, "global_head_dim", 0))
        live == x.tokens * ModelBytes(m) * (CeilDiv(heads, x.tp) * dim + 2 * m.hidden_size)
    IN  IF heads = 0 THEN 0
        ELSE IF MoeWorkspaceBytes(m, x) > 0 THEN live + MoeWorkspaceBytes(m, x)
        ELSE IF ~Declares(m, {"intermediate_size"}) THEN 0
        ELSE live + x.tokens * 3 * CeilDiv(m.intermediate_size, x.tp) * ModelBytes(m)

ForwardLiveBytes(m, x, block) ==
    IF Mamba2PieceBytes(m, x) > 0 THEN Mamba2PieceBytes(m, x) + MoeWorkspaceBytes(m, x)
    ELSE IF Declares(m, {"kv_lora_rank", "qk_nope_head_dim", "v_head_dim", "num_attention_heads"})
    THEN MlaForwardBytes(m, x, block)
    ELSE GqaForwardBytes(m, x)

\* The largest of the compile, forward, sampler and encoder moments.
ActivationEstimate(m, x, block) ==
    LET wrapper == MultimodalWrapper(m, x)
        hidden == x.tokens * m.hidden_size * ModelBytes(m)
        compile == IF x.tp = 1 /\ ~wrapper THEN PaddedVocab(m) * m.hidden_size * ModelBytes(m) + 2 * hidden ELSE 0
        logits == Smaller(x.tokens, x.seqs) * PaddedVocab(m) * ModelBytes(m)
        sampler == hidden + IF x.tp > 1 THEN 2 * logits + CeilDiv(logits, x.tp)
                            ELSE IF Declares(m, {"final_logit_softcapping"}) THEN 2 * logits ELSE logits
        forward == ForwardLiveBytes(m, x, block) + IF wrapper THEN hidden ELSE 0
    IN  Most({compile, sampler, forward} \cup IF wrapper THEN {EncoderPeakBytes(m, x)} ELSE {})

-----------------------------------------------------------------------------
(* The KV budget.                                                          *)

RequestedMemory(x) == CeilDiv(x.memory * x.util, 100)

SamplerStateBytes(vocab, seqs) == seqs * (vocab + 2 * CeilDiv(vocab, 32)) * 4

NonTorchBytes(m, x) ==
    SamplerStateBytes(Field(m, "vocab_size", 0), x.seqs) + NonTorchBase[GpuClass(x)]
    + IF MultimodalWrapper(m, x) THEN x.tokens * Field(m, "hidden_size", 0) * ModelBytes(m) ELSE 0

\* The compile benchmark's tensor, whose segment vLLM may still hold.
CompileSegmentBytes(m, x) ==
    IF x.tp # 1 \/ MultimodalWrapper(m, x) THEN 0 ELSE PaddedVocab(m) * m.hidden_size * ModelBytes(m)

CaptureSizes(x) ==
    LET ceiling == Smaller(2 * x.seqs, IF x.sm \div 10 = 10 THEN 1024 ELSE 512)
    IN  {s \in 1 .. ceiling : s \in {1, 2, 4} \/ (s \in 8 .. 255 /\ s % 8 = 0) \/ (s >= 256 /\ s % 16 = 0)}

CudaGraphEstimate(m, x) ==
    IF x.eager THEN 0
    ELSE Field(m, "num_hidden_layers", 0) * Cardinality({s \in CaptureSizes(x) : s <= x.seqs}) * GraphBytes[GpuClass(x)]

Unknown == [status |-> "unknown"]

\* The terms every branch shares, with the KV cache of the asked batch, one
\* sequence's fixed reservation and one KV block (0 where there is none).
Prediction(m, x, weight, kv, activation, capture, perToken, perSequence, perBlock) ==
    LET graphs == CudaGraphEstimate(m, x) + IF x.eager THEN 0 ELSE capture
        fixed == weight + activation + NonTorchBytes(m, x) + graphs
    IN  [status |-> "known", weight_memory_bytes |-> weight, kv_cache_bytes |-> kv,
         activation_estimate_bytes |-> activation, cuda_graph_estimate_bytes |-> graphs,
         total_required_bytes |-> fixed + kv, available_kv_cache_bytes |-> RequestedMemory(x) - fixed,
         compile_segment_bytes |-> CompileSegmentBytes(m, x), tensor_parallel |-> x.tp, isl |-> x.isl, osl |-> x.osl,
         num_attention_heads |-> Field(m, "num_attention_heads", 0), num_kv_heads |-> Field(m, "num_key_value_heads", 0),
         kv_per_token_bytes |-> perToken, state_per_sequence_bytes |-> perSequence, kv_bytes_per_block |-> perBlock]

\* A sliding window caps the tokens a sequence keeps.
SlidingCap(m, x) == Smaller(x.isl + x.osl, Field(m, "sliding_window", x.isl + x.osl))
HasActivation(m) == Declares(m, {"vocab_size", "hidden_size"}) /\ m.w.total > 0

Autoregressive(m, x) ==
    LET dim == Field(m, "head_dim", m.hidden_size \div m.num_attention_heads)
        perToken == m.num_hidden_layers * KvPerToken(m.num_key_value_heads, dim, x)
    IN  IF ~HasActivation(m) \/ ~Declares(m, {"num_hidden_layers", "num_key_value_heads", "num_attention_heads"}) THEN Unknown
        ELSE Prediction(m, x, PerGpu(m.w.total, x.tp) + PaddedWeightBytes(m, x), perToken * SlidingCap(m, x) * x.batch,
                        ActivationEstimate(m, x, MlaBlock), 0, perToken, 0, 0)

\* The latent is shared by all heads: every rank keeps all of it.
Mla(m, x) ==
    LET perToken == (m.kv_lora_rank + m.qk_rope_head_dim) * x.kv_bytes * m.num_hidden_layers
    IN  IF ~HasActivation(m) \/ ~Declares(m, {"kv_lora_rank", "qk_rope_head_dim", "num_hidden_layers"}) THEN Unknown
        ELSE Prediction(m, x, PerGpu(m.w.total, x.tp), perToken * SlidingCap(m, x) * x.batch,
                        ActivationEstimate(m, x, MlaBlock), 0, perToken, 0, 0)

\* Mamba-1: a state per sequence that does not grow.
Ssm(m, x) ==
    LET perSequence == m.num_hidden_layers * CeilDiv(m.intermediate_size, x.tp) * (m.conv_kernel - 1 + m.state_size) * x.kv_bytes
    IN  IF ~HasActivation(m) \/ ~Declares(m, {"num_hidden_layers", "intermediate_size", "state_size", "conv_kernel"}) THEN Unknown
        ELSE Prediction(m, x, PerGpu(m.w.total, x.tp), perSequence * x.batch,
                        ActivationEstimate(m, x, MlaBlock), 0, 0, perSequence, 0)

\* Two batches are in flight with async scheduling.
LayeredBlocks(m, x) == BlockAccounting(LayerKinds(m, x), x.isl + x.osl, 2 * x.tokens, Layout(m))

LayeredPrediction(m, x, kinds, blocks) ==
    LET full == {i \in DOMAIN kinds : kinds[i].kind = "full"}
        weight == ShardBytes(m.w, m, x) + DuplicatedWeightBytes(m, x) + PaddedWeightBytes(m, x)
                  + StartupBufferBytes(m, x.tokens)
        block == IF full = {} THEN MlaBlock ELSE kinds[Least(full)].block_size
        states == {i \in DOMAIN kinds : kinds[i].kind = "state" /\ kinds[i].count > 0}
    IN  IF ~HasActivation(m) \/ kinds = <<>> \/ blocks = NotTraced THEN Unknown
        ELSE Prediction(m, x, weight, BytesPerSequence(blocks) * x.batch, ActivationEstimate(m, x, block),
                        FirstCaptureBytes(m, x), SumOver(full, LAMBDA i : kinds[i].count * kinds[i].bytes_per_token),
                        BytesPerSequence(blocks), IF states = {} THEN 0 ELSE blocks.bytes_per_block)
Layered(m, x) == LayeredPrediction(m, x, LayerKinds(m, x), LayeredBlocks(m, x))

\* No fallback formula: any other mechanism is unknown.
Calculate(m, x) ==
    CASE m.mechanism = "autoregressive_decode" -> Autoregressive(m, x)
      [] m.mechanism = "mla_decode" -> Mla(m, x)
      [] m.mechanism = "ssm_decode" -> Ssm(m, x)
      [] m.mechanism = "layered_decode" -> Layered(m, x)
      [] OTHER -> Unknown
-----------------------------------------------------------------------------
(* What the files of a checkpoint hold.  A field is declared where it is   *)
(* truthy, so a declared number is not 0.                                  *)

\* ENCODER_FIELDS, read of the tower's config and the processor files.
EncoderNames ==
    {"vision_hidden_size", "patch_size", "merge_size", "temporal_patch_size", "image_longest_edge",
     "video_longest_edge", "max_image_tokens", "max_video_frame_tokens", "video_num_frames"}

NumberFields == EncoderNames \cup
    {"hidden_size", "vocab_size", "num_hidden_layers", "num_attention_heads", "num_key_value_heads", "head_dim",
     "global_head_dim", "intermediate_size", "moe_intermediate_size", "kv_lora_rank", "qk_rope_head_dim",
     "qk_nope_head_dim", "v_head_dim", "index_head_dim", "index_kpool", "index_topk", "n_routed_experts", "num_experts",
     "num_local_experts", "num_experts_per_tok", "experts_per_token", "linear_num_value_heads", "linear_num_key_heads",
     "linear_key_head_dim", "linear_value_head_dim", "linear_conv_kernel_dim", "linear_num_heads", "linear_head_dim",
     "full_attention_interval", "n_groups", "mamba_num_heads", "mamba_head_dim", "conv_kernel", "ssm_state_size",
     "ple_conv_kernel_size", "ngram_size", "hc_count", "indexer_compress_ratio", "indexer_head_dim",
     "sliding_window", "num_global_key_value_heads"}
ListFields == {"layer_types", "ple_layer_ids", "kv_source_layer_ids", "hybrid_override_pattern", "layers_block_type",
               "compress_ratios"}

\* The fields a family reads as int(text[field]), which raises where there is
\* none, beside those it is known by.
DeltaNetFields == {"linear_num_key_heads", "linear_key_head_dim", "linear_value_head_dim", "linear_conv_kernel_dim",
                   "num_key_value_heads", "head_dim", "num_hidden_layers"}
WindowFields == {"num_key_value_heads", "head_dim", "sliding_window"}
FieldsRead(family) ==
    CASE family = "qwen3_5" -> DeltaNetFields
      [] family = "qwen4_exp" -> DeltaNetFields \cup {"hidden_size", "ple_conv_kernel_size", "ngram_size", "hc_count",
                                                      "indexer_compress_ratio", "indexer_head_dim"}
      [] family = "nemotron_h" -> {"n_groups", "mamba_num_heads", "mamba_head_dim", "conv_kernel", "ssm_state_size",
                                   "num_key_value_heads"}
      [] family = "glm5_next" -> {"index_head_dim"}
      [] family = "mixed_sliding" -> WindowFields
      [] family \in {"deepseek_v4", "deepseek_v41"} -> {"num_hidden_layers", "head_dim"}
      [] family = "glm_moe_dsa" -> {"num_hidden_layers"}
      [] OTHER -> {}

Numbered(c, fields) == \A f \in DOMAIN c \cap fields : c[f] \in Nat \ {0}
Listed(s) == Len(s) \in Nat /\ DOMAIN s = 1 .. Len(s)

\* A config's numbers are positive, its lists are lists, and a family has what
\* its kinds are computed from.  Of the families with states only GLM5Next has
\* a latent cache beside them.
WellFormed(c) ==
    /\ Numbered(c, NumberFields)
    /\ \A f \in DOMAIN c \cap ListFields : Listed(c[f])
    /\ "linear_attn_config" \in DOMAIN c =>
         Numbered(c.linear_attn_config, {"num_heads", "head_dim", "short_conv_kernel_size"})
    /\ "sparse_attention_config" \in DOMAIN c =>
         /\ Numbered(c.sparse_attention_config, {"sparse_index_dim"})
         /\ "sparse_attention_freq" \in DOMAIN c.sparse_attention_config =>
              Listed(c.sparse_attention_config.sparse_attention_freq)
    /\ FieldsRead(Family(c)) \subseteq DOMAIN c
    /\ Family(c) = "gemma4" => Declares(c, {"num_kv_shared_layers"}) \/ Declares(c, WindowFields)
    /\ Family(c) \in {"qwen3_5", "qwen4_exp"} /\ "num_experts" \in DOMAIN c => "moe_intermediate_size" \in DOMAIN c
    /\ Family(c) = "nemotron_h" /\ "head_dim" \notin DOMAIN c =>
         Declares(c, {"hidden_size", "num_attention_heads"}) /\ c.hidden_size >= c.num_attention_heads
    /\ Family(c) \in {"qwen3_5", "nemotron_h", "qwen4_exp"} => "kv_lora_rank" \notin DOMAIN c

\* A GLM5Next tail, 4 bytes an index key of every pooled token, is no larger
\* than the smallest block, of 32 pools: their latents, of 2 bytes an element,
\* and their index keys.  The layout keeps one request's tails in one block.
TailFits(c) ==
    Family(c) = "glm5_next" =>
      4 * c.index_kpool * c.index_head_dim <= 32 * c.index_kpool * (2 * c.kv_lora_rank) + 32 * c.index_head_dim

\* What the padding formulas read as int(text[field]), and no more dense layers
\* than layers.
PaddingFits(c) ==
    /\ Family(c) \in {"deepseek_v4", "deepseek_v41"} =>
         /\ Declares(c, {"moe_intermediate_size", "n_routed_experts"})
         /\ Field(c, "first_k_dense_replace", 0) \in 0 .. c.num_hidden_layers
    /\ c.model_type = "gpt_oss" => Declares(c, {"intermediate_size", "num_local_experts"})
=============================================================================
