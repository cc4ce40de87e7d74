---------------------------- MODULE LayeredCache ----------------------------
(***************************************************************************)
(* domain/mechanisms/layered.py: which caches the layers of a checkpoint   *)
(* hold, how vLLM pages them into blocks of one pool, and the bytes it     *)
(* allocates beyond the checkpoint's shard.                                *)
(*                                                                         *)
(* A checkpoint's config is a record: the fields of config.json with those *)
(* of text_config merged over them.  A field is in its domain exactly when *)
(* the source's config.get(field) is truthy.  model_type holds the stem    *)
(* the source tests with startswith.  The engine's side of a prediction is *)
(* a record e with tp, kv_bytes (bytes of one cached element), model_bytes *)
(* (bytes of one weight), sm (compute capability as major * 10 + minor, 0  *)
(* when unknown), kv_dtype and moe_backend.  A value the source returns as *)
(* None is << >> for layer kinds and blocks = 0 for an accounting.         *)
(***************************************************************************)
EXTENDS Integers, Sequences, FiniteSets, SequencesExt

CONSTANTS
    SafetyBuffer,      \* KV_BUDGET_SAFETY_BUFFER_BYTES: the largest measured error
    SparseWorkspace    \* FLASHINFER_MLA_SPARSE_WORKSPACE_BYTES

ASSUME BuffersAssumption == SafetyBuffer \in Nat /\ SparseWorkspace \in Nat

CeilDiv(a, b) == (a + b - 1) \div b
RoundUp(a, b) == CeilDiv(a, b) * b
Larger(a, b) == IF a >= b THEN a ELSE b
Smaller(a, b) == IF a <= b THEN a ELSE b
Total(f) == SumFunction(f)
Most(S) == CHOOSE x \in S : \A y \in S : y <= x
Least(S) == CHOOSE x \in S : \A y \in S : x <= y

Declares(c, fields) == fields \subseteq DOMAIN c
Field(c, f, default) == IF f \in DOMAIN c THEN c[f] ELSE default
CountOf(types, t) == Cardinality({i \in DOMAIN types : types[i] = t})
LayersOf(c, t) == CountOf(Field(c, "layer_types", <<>>), t)

-----------------------------------------------------------------------------
(* Which layout a checkpoint has.                                          *)

\* How many MiniMax-M3 layers run the sparse index branch; 0 - 1 when the
\* config does not say it the way vLLM reads it.
MinimaxSparseLayers(c) ==
    IF /\ Declares(c, {"sparse_attention_config", "num_hidden_layers", "num_key_value_heads", "head_dim"})
       /\ Declares(c.sparse_attention_config, {"sparse_attention_freq", "sparse_index_dim", "sparse_block_size"})
       /\ Len(c.sparse_attention_config.sparse_attention_freq) = c.num_hidden_layers
    THEN c.num_hidden_layers - CountOf(c.sparse_attention_config.sparse_attention_freq, 0)
    ELSE 0 - 1

NemotronBlocks ==
    [mamba |-> "M", linear_attention |-> "M", attention |-> "*", full_attention |-> "*", mlp |-> "-", moe |-> "E"]

\* The layer pattern from either config form, << >> when absent or not known.
NemotronPattern(c) ==
    LET blocks == Field(c, "layers_block_type", <<>>)
    IN  IF Declares(c, {"hybrid_override_pattern"}) THEN c.hybrid_override_pattern
        ELSE IF \A i \in DOMAIN blocks : blocks[i] \in DOMAIN NemotronBlocks
        THEN [i \in DOMAIN blocks |-> NemotronBlocks[blocks[i]]]
        ELSE <<>>

Family(c) ==
    LET is(t, fields) == c.model_type = t /\ Declares(c, fields)
    IN  CASE is("gemma4", {"layer_types"}) -> "gemma4"
          [] is("deepseek_v4", {"compress_ratios", "index_head_dim", "sliding_window"}) -> "deepseek_v4"
          [] is("deepseek_v41", {"compress_ratios", "kv_source_layer_ids", "index_source_layer_ids",
                                 "index_head_dim", "sliding_window"}) -> "deepseek_v41"
          [] is("qwen4_exp", {"linear_num_value_heads", "layer_types", "indexer_n_heads", "ple_layer_ids"}) -> "qwen4_exp"
          [] /\ is("glm5_next", {"kv_lora_rank", "index_kpool"})
             /\ LayersOf(c, "deepseek_sparse_attention") > 0 /\ c.index_kpool > 1 -> "glm5_next"
          [] is("glm_moe_dsa", {"kv_lora_rank", "qk_rope_head_dim", "index_head_dim", "index_topk"}) -> "glm_moe_dsa"
          [] c.model_type = "minimax_m3" /\ MinimaxSparseLayers(c) >= 0 -> "minimax_m3"
          [] is("qwen3_5", {"linear_num_value_heads"}) -> "qwen3_5"
          [] c.model_type = "nemotron_h" /\ NemotronPattern(c) # <<>> -> "nemotron_h"
          [] /\ c.model_type = "muse_glimmer"
             /\ Range(Field(c, "layer_types", <<>>)) = {"sliding_attention", "full_attention"} -> "mixed_sliding"
          [] OTHER -> "none"

Layout(c) ==
    CASE Family(c) \in {"deepseek_v4", "deepseek_v41", "qwen4_exp"} -> "packed"
      [] Family(c) = "glm5_next" -> "glm5_next"
      [] Family(c) \in {"glm_moe_dsa", "minimax_m3"} -> "uniform"
      [] OTHER -> "grouped"

\* The --block-size without which vLLM does not boot the model; 0 for none.
RequiredBlockSize(c) ==
    IF Family(c) = "minimax_m3" THEN c.sparse_attention_config.sparse_block_size ELSE 0

-----------------------------------------------------------------------------
(* The layer kinds of each family.                                         *)

\* One kind of cache-holding layer and how many there are.
LayerKind(kind, count) ==
    [kind |-> kind, count |-> count, bytes_per_token |-> 0, window |-> 0, state_bytes |-> 0,
     block_size |-> 0, page_bytes |-> 0, bucket |-> ""]
Attention(kind, count, bytes) == [LayerKind(kind, count) EXCEPT !.bytes_per_token = bytes]
Paged(kind, count, block, page) ==
    [LayerKind(kind, count) EXCEPT !.block_size = block, !.page_bytes = page]
StateLayers(count, bytes) == [LayerKind("state", count) EXCEPT !.state_bytes = bytes]

BaseBlock == 16
HeadsPerGpu(heads, tp) == Larger(1, CeilDiv(heads, tp))
SsmBytes(c, key) == IF Field(c, key, "float32") \in {"float16", "bfloat16"} THEN 2 ELSE 4
IndexRow(dim) == dim + (dim \div 128) * 4
KvPerToken(heads, dim, e) == HeadsPerGpu(heads, e.tp) * 2 * dim * e.kv_bytes

Gemma4Kinds(c, e) ==
    LET dim == Field(c, "global_head_dim", c.head_dim)
        heads == IF Declares(c, {"attention_k_eq_v"})
                 THEN Field(c, "num_global_key_value_heads", c.num_key_value_heads)
                 ELSE c.num_key_value_heads
    IN  IF Declares(c, {"num_kv_shared_layers"}) THEN <<>>
        ELSE <<Attention("full", LayersOf(c, "full_attention"), KvPerToken(heads, dim, e)),
               [Attention("sliding", LayersOf(c, "sliding_attention"),
                          KvPerToken(c.num_key_value_heads, c.head_dim, e))
                EXCEPT !.window = c.sliding_window]>>

MixedSlidingKinds(c, e) ==
    LET bytes == KvPerToken(c.num_key_value_heads, c.head_dim, e)
    IN  <<Attention("full", LayersOf(c, "full_attention"), bytes),
          [Attention("sliding", LayersOf(c, "sliding_attention"), bytes) EXCEPT !.window = c.sliding_window]>>

\* A gated delta net's conv and temporal state of one sequence on one rank.
ConvWidth(c) == 2 * c.linear_num_key_heads * c.linear_key_head_dim
                + c.linear_num_value_heads * c.linear_value_head_dim
DeltaNetState(c, e) ==
    (c.linear_conv_kernel_dim - 1) * (ConvWidth(c) \div e.tp) * e.model_bytes
    + (c.linear_num_value_heads \div e.tp) * c.linear_value_head_dim * c.linear_key_head_dim
      * SsmBytes(c, "mamba_ssm_dtype")

Qwen35Kinds(c, e) ==
    LET every == Field(c, "full_attention_interval", 4)
        types == IF Declares(c, {"layer_types"}) THEN c.layer_types
                 ELSE [i \in 1 .. c.num_hidden_layers |->
                         IF i % every = 0 THEN "full_attention" ELSE "linear_attention"]
    IN  <<Attention("full", CountOf(types, "full_attention"), KvPerToken(c.num_key_value_heads, c.head_dim, e)),
          StateLayers(CountOf(types, "linear_attention"), DeltaNetState(c, e))>>

NemotronKinds(c, e) ==
    LET groups == IF c.n_groups % e.tp = 0 THEN c.n_groups ELSE e.tp
        inner == c.mamba_num_heads * c.mamba_head_dim
        conv == (c.conv_kernel - 1) * ((inner + 2 * groups * c.ssm_state_size) \div e.tp) * e.model_bytes
        temporal == (c.mamba_num_heads \div e.tp) * c.mamba_head_dim * c.ssm_state_size
                    * SsmBytes(c, "mamba_ssm_cache_dtype")
        dim == Field(c, "head_dim", c.hidden_size \div c.num_attention_heads)
    IN  <<Attention("full", CountOf(NemotronPattern(c), "*"), KvPerToken(c.num_key_value_heads, dim, e)),
          StateLayers(CountOf(NemotronPattern(c), "M"), conv + temporal)>>

\* DeepSeek's fp8_ds_mla record and FlashMLA's page stride.
DsMlaRecord == 584
DsMlaAlign == 576
DeepseekTraced(e) == e.sm \div 10 \in {9, 10} /\ e.kv_dtype \in {"auto", "fp8"}

DeepseekV4Kinds(c, e) ==
    LET n == c.num_hidden_layers
        ratios == [i \in 1 .. Smaller(n, Len(c.compress_ratios)) |-> Larger(1, c.compress_ratios[i])]
        c4 == CountOf(ratios, 4)
        c128 == CountOf(ratios, 128)
        mla(states, content) == RoundUp(states * content, DsMlaAlign)
        sliding(count, window, block, page) == [Paged("sliding", count, block, page) EXCEPT !.window = window]
    IN  IF ~DeepseekTraced(e) \/ Len(ratios) # n \/ ~(Range(ratios) \subseteq {1, 4, 128}) THEN <<>>
        ELSE <<sliding(n, c.sliding_window, 64, mla(64, DsMlaRecord)),
               Paged("full", c4, 256, mla(64, DsMlaRecord)),
               Paged("full", c128, 256, mla(2, DsMlaRecord)),
               Paged("compressed", c4, 256, mla(64, IndexRow(c.index_head_dim))),
               sliding(c4, 8, 4, mla(4, 16 * c.head_dim)),
               sliding(c128, 128, 8, mla(8, 8 * c.head_dim)),
               sliding(c4, 8, 4, mla(4, 16 * c.index_head_dim))>>

\* Source layers are counted from 0, as the checkpoint writes them.
DeepseekV41Kinds(c, e) ==
    LET n == c.num_hidden_layers
        sm10 == e.sm \div 10 = 10
        record == IF sm10 THEN 528 ELSE DsMlaRecord
        align == IF sm10 THEN 512 ELSE DsMlaAlign
        block == IF sm10 THEN 128 ELSE 64
        sources == {i \in Range(c.kv_source_layer_ids) : i < n}
        ratio(i) == c.compress_ratios[i + 1]
        full(i) == <<"full", block, RoundUp((block \div ratio(i)) * record, align)>>
        index(i) == <<"compressed", block, RoundUp((block \div ratio(i)) * IndexRow(c.index_head_dim), align)>>
        ring == <<"ring", 8, 64 * c.head_dim>>
        pages(i) == {full(i)} \cup (IF i \in Range(c.index_source_layer_ids) THEN {index(i)} ELSE {})
                    \cup (IF ratio(i) > 1 THEN {ring} ELSE {})
        kinds == SetToSeq(UNION {pages(i) : i \in sources})
    IN  IF ~DeepseekTraced(e) \/ \E i \in sources : i >= Len(c.compress_ratios) \/ ratio(i) \notin {1, 2} THEN <<>>
        ELSE <<[Paged("sliding", n, 32, RoundUp(32 * record, align)) EXCEPT !.window = c.sliding_window]>>
             \o [k \in DOMAIN kinds |->
                   Paged(kinds[k][1], Cardinality({i \in sources : kinds[k] \in pages(i)}), kinds[k][2], kinds[k][3])]

\* The block is the smallest 16-token multiple whose attention page holds the
\* largest state; both state kinds are padded to that page.
Qwen4ExpKinds(c, e) ==
    LET gdn == DeltaNetState(c, e)
        ple == (c.ple_conv_kernel_size - 1) * c.ngram_size * c.hidden_size * c.hc_count * e.model_bytes
        per_token == HeadsPerGpu(c.num_key_value_heads, e.tp) * 2 * c.head_dim * 2
        block == BaseBlock * CeilDiv(Larger(gdn, ple), BaseBlock * per_token)
        full == LayersOf(c, "full_attention")
        ratio == c.indexer_compress_ratio
        mrope == Declares(c, {"mrope_section"}) /\ c.architecture # "Qwen4ExpForCausalLM"
        row == IF mrope THEN RoundUp(c.indexer_head_dim, 4) + 12 ELSE c.indexer_head_dim
        state(count, bytes, bucket) ==
            [StateLayers(count, bytes) EXCEPT !.block_size = block, !.page_bytes = block * per_token, !.bucket = bucket]
    IN  IF \/ e.kv_dtype \notin {"auto", "bfloat16"}
           \/ ConvWidth(c) % e.tp # 0 \/ c.linear_num_value_heads % e.tp # 0
           \/ block % ratio # 0
        THEN <<>>
        ELSE <<[Paged("full", full, block, block * per_token) EXCEPT !.bytes_per_token = per_token],
               state(LayersOf(c, "linear_attention"), gdn, "gdn"),
               state(Len(c.ple_layer_ids), ple, "ple"),
               Paged("compressed", full, block, (block \div ratio) * c.indexer_head_dim * 2),
               Paged("ring", full, ratio, ratio * row * 2)>>

\* GLM5Next's linear attention shape: linear_attn_config first.
KdaShape(c) ==
    LET l == Field(c, "linear_attn_config", [x \in {} |-> 0])
    IN  [heads |-> Field(l, "num_heads", Field(c, "linear_num_heads", 64)),
         dim |-> Field(l, "head_dim", Field(c, "linear_head_dim", 128)),
         kernel |-> Field(l, "short_conv_kernel_size", Field(c, "linear_conv_kernel_dim", 4))]

Glm5Kinds(c, e, k) ==
    LET state == (k.kernel - 1) * ((3 * k.heads * k.dim) \div e.tp) * e.model_bytes
                 + (k.heads \div e.tp) * k.dim * k.dim * 4
        per_token == (c.kv_lora_rank + Field(c, "qk_rope_head_dim", 0)) * 2
        block == RoundUp(RoundUp(CeilDiv(state, per_token), 128), c.index_kpool * 32)
        dsa == LayersOf(c, "deepseek_sparse_attention")
    IN  IF e.kv_dtype \notin {"auto", "bfloat16"} \/ e.sm = 0 \/ e.sm \div 10 = 12 \/ k.heads % e.tp # 0 THEN <<>>
        ELSE <<[Paged("full", dsa, block, block * per_token) EXCEPT !.bytes_per_token = per_token],
               Paged("compressed", dsa, block, (block \div c.index_kpool) * IndexRow(c.index_head_dim)),
               Paged("tail", dsa, c.index_kpool, c.index_kpool * 4 * c.index_head_dim),
               [StateLayers(LayersOf(c, "linear_attention"), state)
                EXCEPT !.block_size = block, !.page_bytes = block * per_token]>>
Glm5NextKinds(c, e) == Glm5Kinds(c, e, KdaShape(c))

\* The GLM-5.x layers, counted from 0, that pick their own top-k.
DsaIndexerLayers(c) ==
    LET offset == Field(c, "index_skip_topk_offset", 2)
        pattern == Field(c, "index_topk_pattern", <<>>)
    IN  {i \in 0 .. c.num_hidden_layers - 1 :
           IF pattern = <<>> THEN Larger(i - offset + 1, 0) % Field(c, "index_topk_freq", 1) = 0
           ELSE ~(i < Len(pattern) /\ pattern[i + 1] = "S")}

GlmMoeDsaKinds(c, e) ==
    LET per_token == (c.kv_lora_rank + c.qk_rope_head_dim) * e.kv_bytes
    IN  IF \/ e.sm \div 10 \notin {9, 10} \/ e.kv_dtype \notin {"auto", "bfloat16"}
           \/ (e.sm \div 10 = 10 /\ 0 \notin DsaIndexerLayers(c))
        THEN <<>>
        ELSE <<[Paged("full", c.num_hidden_layers, 64, 64 * per_token) EXCEPT !.bytes_per_token = per_token],
               Paged("compressed", Cardinality(DsaIndexerLayers(c)), 64, 64 * IndexRow(c.index_head_dim))>>

MinimaxKinds(c, e) ==
    LET heads == c.num_key_value_heads
        sparse == c.sparse_attention_config
        per_token == KvPerToken(heads, c.head_dim, e)
    IN  IF \/ e.sm \div 10 \notin {9, 10} \/ e.kv_dtype \notin {"auto", "bfloat16"}
           \/ Larger(heads, e.tp) % Smaller(heads, e.tp) # 0
           \/ sparse.sparse_block_size # 128
        THEN <<>>
        ELSE <<[Paged("full", c.num_hidden_layers, 128, 128 * per_token) EXCEPT !.bytes_per_token = per_token],
               Paged("compressed", MinimaxSparseLayers(c), 128, 256 * sparse.sparse_index_dim)>>

KindsOf(family, c, e) ==
    CASE family = "gemma4" -> Gemma4Kinds(c, e)
      [] family = "mixed_sliding" -> MixedSlidingKinds(c, e)
      [] family = "qwen3_5" -> Qwen35Kinds(c, e)
      [] family = "nemotron_h" -> NemotronKinds(c, e)
      [] family = "deepseek_v4" -> DeepseekV4Kinds(c, e)
      [] family = "deepseek_v41" -> DeepseekV41Kinds(c, e)
      [] family = "qwen4_exp" -> Qwen4ExpKinds(c, e)
      [] family = "glm5_next" -> Glm5NextKinds(c, e)
      [] family = "glm_moe_dsa" -> GlmMoeDsaKinds(c, e)
      [] family = "minimax_m3" -> MinimaxKinds(c, e)
      [] OTHER -> <<>>
LayerKinds(c, e) == KindsOf(Family(c), c, e)

-----------------------------------------------------------------------------
(* How vLLM groups the caches into blocks and what one request reserves:   *)
(* L tokens of context, F tokens in flight, prefix caching on (the default *)
(* of every caller).                                                       *)

Blocks(bytes, blocks, groups) == [bytes_per_block |-> bytes, blocks |-> blocks, groups |-> groups]
NotTraced == Blocks(0, 0, 0)
StateBlocks == 2      \* per state group, with prefix caching

\* A sliding layer keeps its window and what is in flight, at most the context.
WindowSpan(k, L, F) == Smaller(k.window - 1 + F, L)

BlocksPerRequest(k, L, F) ==
    CASE k.kind \in {"full", "compressed"} -> CeilDiv(L, k.block_size)
      [] k.kind = "sliding" -> CeilDiv(WindowSpan(k, L, F), k.block_size) + 1
      [] k.kind = "state" -> StateBlocks
      [] OTHER -> 1

\* The repeat count with the least padding of the numbers top[b], from low on;
\* ties go to the larger.
ApproximateGcd(top, low) ==
    LET most == Most({top[b] : b \in DOMAIN top})
        pad[d \in low .. most] == Total([b \in DOMAIN top |-> (d - (top[b] % d)) % d])
        best == {d \in low .. most : \A x \in low .. most : pad[d] <= pad[x]}
    IN  IF low > most THEN low ELSE Most(best)

\* vLLM's uniform-type rule: kinds with one key share a bucket.
BucketKey(k) ==
    LET fam == IF k.kind \in {"full", "compressed"} THEN "full" ELSE k.kind
    IN  [family |-> fam, block |-> k.block_size, bucket |-> k.bucket,
         same |-> IF fam = "sliding" THEN k.window ELSE IF fam = "state" THEN k.page_bytes ELSE 0]

Buckets(kinds) == {BucketKey(kinds[i]) : i \in DOMAIN kinds}
Members(kinds, b) == {i \in DOMAIN kinds : BucketKey(kinds[i]) = b}

\* Per bucket, the layers of each page size.
BucketPages(kinds) ==
    [b \in Buckets(kinds) |-> [p \in {kinds[i].page_bytes : i \in Members(kinds, b)} |->
        Total([i \in {i \in Members(kinds, b) : kinds[i].page_bytes = p} |-> kinds[i].count])]]

\* A bucket whose page sizes are equally many can be cut into groups.
Balanced(pages) == {b \in DOMAIN pages : Cardinality(Range(pages[b])) = 1}
Widest(page, n) == Total([p \in DOMAIN page |-> CeilDiv(page[p], n) * p])

\* The repeats of the buckets that have to be split; 0 when none has.
Repeats(pages) ==
    LET top == [b \in Balanced(pages) |-> Most(Range(pages[b]))]
        split == {b \in Balanced(pages) : Cardinality(DOMAIN pages[b]) > 1}
    IN  IF split = {} THEN 0 ELSE ApproximateGcd(top, Most({top[b] : b \in split}))

IsState(b, repeats) == b.family \in {"state", "ring"} \/ (repeats = 0 /\ b.family = "sliding")

GroupsFor(pages, repeats) ==
    [b \in DOMAIN pages |->
       IF b \in Balanced(pages) /\ repeats > 0 THEN CeilDiv(Most(Range(pages[b])), repeats) ELSE 1]

\* State buckets are cut again until they fit the widest attention bucket.
PackedGroups(pages, repeats, base) ==
    LET anchor == Most({Widest(pages[b], IF IsState(b, repeats) THEN Total(pages[b]) ELSE base[b]) : b \in DOMAIN pages})
    IN  [b \in DOMAIN pages |->
           IF IsState(b, repeats)
           THEN Larger(base[b], CeilDiv(Total(pages[b]), Larger(anchor \div Most(DOMAIN pages[b]), 1)))
           ELSE base[b]]

PackedAccount(kinds, L, F, pages, repeats, groups) ==
    LET per(b) == Most({BlocksPerRequest(kinds[i], L, F) : i \in Members(kinds, b)})
    IN  IF \/ \E b \in DOMAIN pages : b.family \notin {"full", "sliding", "ring", "state"} \/ b.block <= 0
           \/ Cardinality({kinds[i].page_bytes : i \in DOMAIN kinds}) <= 1
           \/ \E b \in DOMAIN pages : IsState(b, repeats) /\ Cardinality(DOMAIN pages[b]) # 1
           \/ \E b \in DOMAIN pages \ Balanced(pages) : groups[b] > 1
        THEN NotTraced
        ELSE Blocks(Most({Widest(pages[b], groups[b]) : b \in DOMAIN pages}),
                    Total([b \in DOMAIN pages |-> groups[b] * per(b)]), Total(groups))

PackedCut(kinds, L, F, pages, repeats) ==
    PackedAccount(kinds, L, F, pages, repeats, PackedGroups(pages, repeats, GroupsFor(pages, repeats)))
PackedBlocks(kinds, L, F) == PackedCut(kinds, L, F, BucketPages(kinds), Repeats(BucketPages(kinds)))

Glm5NextBlocks(kinds, L) ==
    LET of(k) == kinds[CHOOSE i \in DOMAIN kinds : kinds[i].kind = k]
        stateGroups == CeilDiv(of("state").count, of("full").count)
    IN  IF \/ Cardinality(DOMAIN kinds) # 4 \/ {kinds[i].kind : i \in DOMAIN kinds} # {"compressed", "full", "state", "tail"}
           \/ of("state").state_bytes > of("full").page_bytes
        THEN NotTraced
        ELSE Blocks(of("full").count * of("full").page_bytes + of("compressed").count * of("compressed").page_bytes,
                    CeilDiv(L, of("full").block_size) + StateBlocks * stateGroups + 1, 2 + stateGroups)

UniformBlocks(kinds, L) ==
    LET block == kinds[Least(DOMAIN kinds)].block_size
    IN  IF \/ \E i \in DOMAIN kinds : kinds[i].kind \notin {"full", "compressed"} \/ kinds[i].block_size # block
           \/ block <= 0
        THEN NotTraced
        ELSE Blocks(Total([i \in DOMAIN kinds |-> kinds[i].count * kinds[i].page_bytes]), CeilDiv(L, block), 1)

\* max when max < 1.5 * min, else min.
GroupSize(counts) ==
    IF 2 * Most(counts) < 3 * Least(counts) THEN Most(counts) ELSE Least(counts)

\* The tokens of one page: with states, the page holds the state; without,
\* the widest attention kind's 16 tokens.  0 when the pages do not divide.
GroupedPage(kinds) ==
    LET widths == {kinds[i].bytes_per_token : i \in {i \in DOMAIN kinds : kinds[i].kind # "state"}}
        states == {i \in DOMAIN kinds : kinds[i].kind = "state"}
        width == Most(widths)
    IN  IF states = {}
        THEN IF \E w \in widths : (BaseBlock * width) % w # 0 THEN 0 ELSE BaseBlock * width
        ELSE IF Cardinality(states) # 1 \/ Cardinality(widths) # 1 THEN 0
        ELSE RoundUp(kinds[CHOOSE i \in states : TRUE].state_bytes, BaseBlock * width)

GroupedBlocksRoundsDown(kinds, L, F) ==   \* a bug: the last, smaller group is dropped
    LET page == GroupedPage(kinds)
        size == GroupSize({kinds[i].count : i \in DOMAIN kinds})
        groups == [i \in DOMAIN kinds |-> Larger(1, kinds[i].count \div size)]
        sized(k) == IF k.kind = "state" THEN k ELSE [k EXCEPT !.block_size = page \div k.bytes_per_token]
    IN  IF page = 0 THEN NotTraced
        ELSE Blocks(size * page,
                    Total([i \in DOMAIN kinds |-> groups[i] * BlocksPerRequest(sized(kinds[i]), L, F)]), Total(groups))

GroupedBlocks(kinds, L, F) ==
    LET page == GroupedPage(kinds)
        size == GroupSize({kinds[i].count : i \in DOMAIN kinds})
        groups == [i \in DOMAIN kinds |-> CeilDiv(kinds[i].count, size)]
        sized(k) == IF k.kind = "state" THEN k ELSE [k EXCEPT !.block_size = page \div k.bytes_per_token]
    IN  IF page = 0 THEN NotTraced
        ELSE Blocks(size * page,
                    Total([i \in DOMAIN kinds |-> groups[i] * BlocksPerRequest(sized(kinds[i]), L, F)]), Total(groups))

BlockAccounting(all, L, F, layout) ==
    LET kinds == Restrict(all, {i \in DOMAIN all : all[i].count > 0})
        held == DOMAIN kinds # {}
    IN  CASE ~held -> NotTraced
          [] held /\ layout = "grouped" -> GroupedBlocks(kinds, L, F)
          [] held /\ layout = "packed" -> PackedBlocks(kinds, L, F)
          [] held /\ layout = "glm5_next" -> Glm5NextBlocks(kinds, L)
          [] held /\ layout = "uniform" -> UniformBlocks(kinds, L)

BytesPerSequence(accounted) == accounted.bytes_per_block * accounted.blocks

\* KV blocks vLLM is predicted to allocate at the least.
StateBlockCapacity(available, bytes_per_block, margin) ==
    IF bytes_per_block <= 0 THEN 0 ELSE Larger(0, (available - margin) \div bytes_per_block)
=============================================================================
