---------------------------- MODULE EngineFacts ----------------------------
(***************************************************************************)
(* What one vLLM version loads and how it schedules, from its generated    *)
(* facts: EngineFacts of adapters/backends/vllm_quantization.py.           *)
(*                                                                         *)
(* The facts f of a version are a record: serves (the architectures of its *)
(* model registry), methods (of quantization, each with a minimum          *)
(* capability, the parameters it registers and whether it keeps scales of  *)
(* the KV cache; "" and 0 - 1 where the file has no such key), aliases of  *)
(* methods, schemes of compressed-tensors, kv_scales (parameter names),    *)
(* names (all its source mentions) and tiers (the batch defaults).         *)
(* A quantization config q is [quant_method, algo, groups], NoQuant for    *)
(* none; a group is the bits and kind of its weights and the kind of its   *)
(* activations, "none" for null.                                           *)
(***************************************************************************)
EXTENDS Integers, Sequences, FiniteSets

NoQuant == [quant_method |-> "", algo |-> "", groups |-> {}]

(***************************************************************************)
(* Which method a checkpoint's format resolves to.                         *)
(***************************************************************************)
SchemeOf(group) ==
    CASE group.act = "none" /\ group.kind = "int" /\ group.bits \in {4, 8} -> "wNa16"
      [] group.act = "int" /\ group.kind = "int" /\ group.bits = 8 -> "w8a8_int8"
      [] group.act = "float" /\ group.kind = "float" /\ group.bits = 8 -> "w8a8_fp8"
      [] OTHER -> ""

\* The scheme all groups have, "" when they are mixed or none is known.
Scheme(q) ==
    LET schemes == {SchemeOf(g) : g \in q.groups}
    IN  IF Cardinality(schemes) = 1 THEN CHOOSE s \in schemes : TRUE ELSE ""

\* The algorithms with "FP4" in their name.
Fp4 == {"NVFP4", "NVFP4_AWQ", "W4A8_MXFP4_FP8"}

\* ModelOpt's checkpoints all declare one method; its algorithm tells which.
Method(q) ==
    IF q.quant_method # "modelopt" THEN q.quant_method
    ELSE CASE q.algo \in Fp4 -> "modelopt_fp4"
           [] q.algo = "MXFP8" -> "modelopt_mxfp8"
           [] q.algo = "MIXED_PRECISION" -> "modelopt_mixed"
           [] OTHER -> "modelopt"

\* NVFP4 with quantized activations; weight-only takes another linear method.
Nvfp4W4a4(q) ==
    q.algo = "NVFP4" /\ ~(q.groups # {} /\ \A g \in q.groups : g.act = "none")

(***************************************************************************)
(* What the version knows of a method.                                     *)
(***************************************************************************)
Resolved(f, method) == IF method \in DOMAIN f.aliases THEN f.aliases[method] ELSE method

\* The methods whose minimum capability the file has, aliases included.
Loadable(f) ==
    LET known == {m \in DOMAIN f.methods : f.methods[m].min # -1}
    IN  known \cup {a \in DOMAIN f.aliases : f.aliases[a] \in known}

\* The capability the format needs: 0 unquantized, 0 - 1 for a format that
\* is not loaded or not recognised.
MinCapability(f, q) ==
    LET method == Method(q)
    IN  CASE q = NoQuant -> 0
          [] q # NoQuant /\ method = "compressed-tensors" -> IF Scheme(q) = "" THEN -1 ELSE f.schemes[Scheme(q)].min
          [] OTHER -> IF method \in Loadable(f) THEN f.methods[Resolved(f, method)].min ELSE -1

\* Tensors every version loads or skips, whatever the method.
Plain == {"weight", "bias", "inv_freq", "cos_cached", "sin_cached"}

\* What a method registers: one entry at most, none where it cannot be told.
Registers(f, q) ==
    LET method == Method(q)
        m == Resolved(f, method)
    IN  CASE q = NoQuant -> {}
          [] q # NoQuant /\ method = "compressed-tensors" ->
               {[parameters |-> f.schemes[s].parameters, kv_scales |-> f.ct_kv_scales] : s \in {Scheme(q)} \ {""}}
          [] \/ method = "modelopt_fp4" /\ ~Nvfp4W4a4(q)
             \/ method = "modelopt" /\ q.algo # "FP8" -> {}
          [] OTHER -> IF m \in DOMAIN f.methods /\ f.methods[m].parameters # {}
                      THEN {[parameters |-> f.methods[m].parameters, kv_scales |-> f.methods[m].kv_scales]} ELSE {}

\* The last parts of the tensors' names that the version would refuse: no
\* parameter of the method, and named nowhere in the version's source.  A
\* scale of the KV cache is refused unless the method keeps such scales.
\* {} as well where it cannot be told.
LoadProblems(f, suffixes, q) ==
    UNION {{s \in suffixes \ (r.parameters \cup Plain) :
              IF s \in f.kv_scales THEN ~r.kv_scales ELSE s \notin f.names} : r \in Registers(f, q)}

(***************************************************************************)
(* The scheduler defaults, and the version that serves an architecture.    *)
(***************************************************************************)
\* A tier excludes the GPUs whose name has a mark, "" for none.
Falls(tier, gpu) == gpu.memory >= tier.memory /\ tier.excluded \notin gpu.marks

\* The first tier the GPU falls in.
BatchTier(f, gpu) ==
    f.tiers[CHOOSE i \in DOMAIN f.tiers : Falls(f.tiers[i], gpu) /\ \A j \in 1 .. i - 1 : ~Falls(f.tiers[j], gpu)]

\* The newest of the versions, newest first, that serves the architecture.
EngineFor(architecture, versions, engines) ==
    LET serving == {i \in DOMAIN versions : architecture \in engines[versions[i]].serves}
    IN  IF serving = {} THEN "" ELSE versions[CHOOSE i \in serving : \A j \in serving : i <= j]
=============================================================================
