--------------------------- MODULE MCPlanPipeline ---------------------------
(***************************************************************************)
(* One toy checkpoint per layout the calculator traces, one per plain      *)
(* mechanism and two it knows nothing of.  Dimensions are small (TLC's     *)
(* integers have 32 bits), and the counts of layers uneven on purpose.     *)
(***************************************************************************)
EXTENDS PlanPipeline
LOCAL INSTANCE TLC

T(name, size, layer, parts) == [name |-> name, dtype |-> "BF16", size |-> size, layer |-> layer, parts |-> parts]
Tensors == {T("embed", 40000, -1, {}), T("head", 40000, -1, {"lm_head"}), T("mlp", 90000, 0, {}),
            T("gate", 30000, 0, {"replicated"}), T("k", 24000, 0, {"kv_head"}),
            T("table", 20000, 1, {"host"}), T("mtp", 10000, 0, {"mtp"}), T("extra", 8000, 7, {"replicated"}),
            [T("norm", 16000, 0, {"replicated"}) EXCEPT !.dtype = "F32"]}

Base == [hidden_size |-> 32, vocab_size |-> 130, num_hidden_layers |-> 7, num_attention_heads |-> 8,
         num_key_value_heads |-> 4, head_dim |-> 8, torch_dtype |-> "bfloat16", intermediate_size |-> 100]

Named(type, arch, fields) ==
    [config |-> fields @@ [model_type |-> type, architecture |-> arch] @@ Base, tensors |-> Tensors, index |-> 0,
     published |-> 250000, processor |-> Empty, suffixes |-> {"weight", "bias"}, template |-> {"tools", "reasoning_content"},
     channel |-> FALSE, card |-> {}, recipe |-> Empty, generates |-> "autoregressive_decode"]

Quantized(method, algo, groups) == [quant_method |-> method, algo |-> algo, groups |-> groups]
Group(bits, kind, act) == [bits |-> bits, kind |-> kind, act |-> act]
\* Quantized, with the tensors its method stores.
Stored(k, q, suffixes) == [k EXCEPT !.config = [quantization_config |-> q] @@ @, !.suffixes = @ \cup suffixes]

Repeat(types, n) == [i \in 1 .. n |-> types[1 + ((i - 1) % Len(types))]]
FS == <<"full_attention", "sliding_attention", "sliding_attention">>
FL == <<"linear_attention", "linear_attention", "full_attention">>
DeltaNet == [linear_num_value_heads |-> 4, linear_num_key_heads |-> 4, linear_key_head_dim |-> 8,
             linear_value_head_dim |-> 8, linear_conv_kernel_dim |-> 4]
Vision == [vision_config |-> [vision_hidden_size |-> 16, patch_size |-> 2, merge_size |-> 2, temporal_patch_size |-> 2]]

MCCheckpoints ==
    [llama |-> [Stored(Named("llama", "Llama", [tie_word_embeddings |-> TRUE, torch_dtype |-> "float32"]),
                       Quantized("gptq_marlin", "", {}), {"g_idx", "scales"})
                EXCEPT !.index = 270000, !.template = {"tools", "qwen3_coder_block", "enable_thinking", "reasoning_content"}],
     mamba |-> [Named("mamba", "Mamba", [state_size |-> 8, conv_kernel |-> 4])
                EXCEPT !.config = [f \in DOMAIN @ \ {"num_attention_heads", "num_key_value_heads", "head_dim"} |-> @[f]],
                       !.template = {}],
     gpt_oss |-> [Named("gpt_oss", "GptOss", [num_local_experts |-> 4, num_experts_per_tok |-> 2, sliding_window |-> 128,
                                              quantization_config |-> Quantized("mxfp4", "", {})])
                  EXCEPT !.card = {"hermes"}],
     deepseek_v2 |-> [Named("deepseek_v2", "DeepseekV2", [kv_lora_rank |-> 32, qk_rope_head_dim |-> 8,
                                                          qk_nope_head_dim |-> 16, v_head_dim |-> 16])
                      EXCEPT !.card = {"hermes", "openai"}],
     gemma4 |-> [Named("gemma4", "Gemma4", [layer_types |-> Repeat(FS, 7), sliding_window |-> 32, global_head_dim |-> 16,
                                            attention_k_eq_v |-> TRUE, max_position_embeddings |-> 1000])
                 EXCEPT !.recipe = [tool_call_parser |-> "gemma4"]],
     muse_glimmer |-> [Named("muse_glimmer", "MuseGlimmer", Vision @@ [layer_types |-> Repeat(FS, 7), sliding_window |-> 64])
                       EXCEPT !.processor = [max_image_tokens |-> 16, max_video_frame_tokens |-> 8, video_num_frames |-> 8],
                              !.channel = TRUE, !.template = {"tools"}],
     qwen3_5 |-> [Named("qwen3_5", "Qwen35", Vision @@ DeltaNet)
                  EXCEPT !.processor = [image_longest_edge |-> 300, video_longest_edge |-> 900]],
     nemotron_h |-> Named("nemotron_h", "NemotronH", [n_groups |-> 2, mamba_num_heads |-> 8, mamba_head_dim |-> 8,
                          conv_kernel |-> 4, ssm_state_size |-> 16, layers_block_type |-> Repeat(<<"mamba", "moe", "attention">>, 7),
                          num_experts |-> 4, num_experts_per_tok |-> 2, moe_intermediate_size |-> 64]),
     deepseek_v4 |-> [Named("deepseek_v4", "DeepseekV4", [compress_ratios |-> <<1, 4, 4, 128>>, num_hidden_layers |-> 4, index_head_dim |-> 128,
                            head_dim |-> 64, sliding_window |-> 128, n_routed_experts |-> 4, moe_intermediate_size |-> 100])
                      EXCEPT !.template = {}],
     deepseek_v41 |-> Named("deepseek_v41", "DeepseekV41ForCausalLM", [compress_ratios |-> Repeat(<<1, 2>>, 7),
                            kv_source_layer_ids |-> <<0, 1, 3, 5>>, index_source_layer_ids |-> <<1, 5>>, index_head_dim |-> 128,
                            head_dim |-> 64, sliding_window |-> 128, n_routed_experts |-> 4, moe_intermediate_size |-> 100,
                            engram_layer_ids |-> <<1>>]),
     qwen4_exp |-> Named("qwen4_exp", "Qwen4ExpForCausalLM", DeltaNet @@ [layer_types |-> Repeat(FL, 7), indexer_n_heads |-> 2,
                         ple_layer_ids |-> <<0, 1>>, ple_conv_kernel_size |-> 4, ngram_size |-> 2, hc_count |-> 2,
                         indexer_compress_ratio |-> 4, indexer_head_dim |-> 8]),
     glm5_next |-> Named("glm5_next", "Glm5Next", [kv_lora_rank |-> 32, index_kpool |-> 4, index_head_dim |-> 128, index_topk |-> 16,
                         layer_types |-> Repeat(<<"linear_attention", "deepseek_sparse_attention", "linear_attention">>, 7),
                         linear_num_heads |-> 4, linear_head_dim |-> 8]),
     glm_moe_dsa |-> Named("glm_moe_dsa", "GlmMoeDsa", [kv_lora_rank |-> 32, qk_rope_head_dim |-> 8, index_head_dim |-> 128,
                           index_topk |-> 16, index_topk_freq |-> 2, qk_nope_head_dim |-> 16, v_head_dim |-> 16,
                           num_nextn_predict_layers |-> 1]),
     minimax_m3 |-> Stored(Named("minimax_m3", "MinimaxM3", [sparse_attention_config |-> [sparse_attention_freq |-> <<0, 1, 1, 0, 1, 1, 1>>,
                                 sparse_index_dim |-> 16, sparse_block_size |-> 128]]),
                          Quantized("modelopt", "MXFP8", {}), {"weight_scale"}),
     packed |-> Stored(Named("llama", "Packed", Empty),
                       Quantized("compressed-tensors", "", {Group(4, "int", "none")}), {"weight_packed", "k_scale"}),
     mixed |-> Stored(Named("llama", "Packed", Empty),
                      Quantized("compressed-tensors", "", {Group(4, "int", "none"), Group(8, "int", "int")}), {"unheard_of"}),
     fp4 |-> Stored(Named("llama", "Packed", Empty),
                    Quantized("modelopt", "NVFP4", {Group(4, "float", "float")}), {"weight_scale_2", "q_scale", "unheard_of"}),
     gptq |-> Stored(Named("llama", "Qwen35", Empty), Quantized("gptq", "", {}), {"g_idx", "scales", "k_scale"}),
     hybrid |-> Named("hybrid", "Hybrid", Empty),
     pooler |-> [Named("pooler", "Pooler", Empty) EXCEPT !.generates = "single_pass_pooling"]]

Card(memory, sm, marks) == [memory |-> memory, sm |-> sm, marks |-> marks]
MCGpus == [small |-> Card(520000, 90, {}), big |-> Card(3000000, 100, {}), huge |-> Card(20000000, 90, {}),
           old |-> Card(1200000, 80, {"a100"})]

Arches == {MCCheckpoints[k].config.architecture : k \in DOMAIN MCCheckpoints}
Entry(min, parameters, scales) == [min |-> min, parameters |-> parameters, kv_scales |-> scales]
Methods == [gptq |-> Entry(60, {"qweight", "qzeros", "scales"}, FALSE), mxfp4 |-> Entry(80, {}, FALSE),
            modelopt_fp4 |-> Entry(75, {"weight_scale", "weight_scale_2", "input_scale"}, TRUE)]
BatchDefaults(memory, excluded, tokens, seqs) == [memory |-> memory, excluded |-> excluded, tokens |-> tokens, seqs |-> seqs]
Facts30 == [methods |-> Methods, aliases |-> [gptq_marlin |-> "gptq"],
            schemes |-> [wNa16 |-> [min |-> 75, parameters |-> {"weight_packed", "weight_scale", "weight_shape"}],
                         w8a8_int8 |-> [min |-> 75, parameters |-> {"weight_scale", "input_scale"}]],
            ct_kv_scales |-> TRUE, kv_scales |-> {"k_scale", "v_scale", "q_scale"}, names |-> {"embed", "g_idx", "k_scale"},
            tiers |-> <<BatchDefaults(10000000, "", 128, 64), BatchDefaults(1000000, "a100", 128, 256), BatchDefaults(0, "", 64, 64)>>,
            serves |-> Arches, hybrid |-> {"Hybrid"}, state_blocks |-> TRUE, tokenizer_modes |-> {"deepseek_v4"},
            reasoning_parsers |-> {"deepseek_v4", "muse_glimmer", "glm45"}, reasoning_by_arch |-> [Glm5Next |-> "glm45", Qwen35 |-> "qwen3"],
            tool_parsers |-> {"hermes", "openai", "qwen3_coder", "gemma4"}, tool_by_arch |-> [DeepseekV4 |-> "hermes"]]
MCVersions == <<"v30", "v29">>
MCEngines == [v30 |-> [Facts30 EXCEPT !.serves = @ \ {"Llama", "Mamba"}],
              v29 |-> [Facts30 EXCEPT !.serves = {"Llama", "Mamba", "Qwen35"}, !.state_blocks = FALSE,
                              !.methods = [gptq |-> Entry(60, {"qweight", "qzeros", "scales", "g_idx"}, FALSE)] @@ @,
                              !.tiers = <<BatchDefaults(1000000, "a100", 128, 256), BatchDefaults(0, "", 64, 64)>>]]
MCGivenPlans == <<[count |-> 1, tp |-> 1, util |-> 0, dtype |-> "float32", seqs |-> 0],
                  [count |-> 2, tp |-> 2, util |-> 95, dtype |-> "", seqs |-> 16]>>
MCNonTorch == [sm8x |-> 3000, sm90 |-> 7000]
MCGraph == [sm8x |-> 11, sm90 |-> 17]
=============================================================================
