------------------------- MODULE PlanPipelineProofs -------------------------
(***************************************************************************)
(* Proofs about PlanPipeline, for any checkpoints, GPUs, engine versions   *)
(* and given plans: whatever the calculator says, and whichever files were *)
(* read, the plan that boots is the one the claim was predicted for, a     *)
(* plan the state-block guard lowered still fits when predicted again, no  *)
(* prediction books less for a request than its layers keep, and none      *)
(* counts less for the weights than a rank holds of them.                  *)
(*                                                                         *)
(* The second takes the calculator apart: every term of a layered          *)
(* prediction is a number, none grows as max_num_seqs falls, and only four *)
(* families count their cache in state blocks.  The third goes through the *)
(* four layouts, and through the kinds of every family for what makes them *)
(* fit its layout.  The fourth adds up the tensors by where a rank holds   *)
(* them, and shows that what else is allocated is never negative.          *)
(***************************************************************************)
EXTENDS PlanPipeline, FoldLemmas, TLAPS

(* The dtype the engine serves when none is set.                           *)
ServedByConfig == ServedDtype(Field(Config, "torch_dtype", ""))

(* What a claim is predicted with when the guard sets n.                    *)
GuardedSeqs(n) == IF n > 0 THEN n ELSE DefaultSeqs

\* The tokens a planned engine serves one request.
PlannedContext == IF DeploymentChecks THEN ServedContext(Checkpoint) ELSE ShortInput + Output

\* Once the files are read, the calculator has the dtype that is served.
DtypeInv ==
    stage \in {"predict", "guard", "build", "parsers", "solve", "done"} =>
        metadata.torch_dtype = IF Dtype # "" THEN Dtype ELSE ServedByConfig

\* The claim is that of the limit the plan will set.
ClaimInv ==
    /\ stage = "guard" => claim.launch = Launch(DefaultSeqs)
    /\ stage \in {"build", "parsers", "solve", "done"} =>
         claim.launch = Launch(GuardedSeqs(limit)) /\ (~IsSeed => limit = 0)

\* The plan of a seed that has a prediction.
SeedPlanInv ==
    /\ stage \in {"parsers", "solve"} /\ Known =>
         /\ plan.util = Util /\ plan.dtype = ServedByConfig
         /\ plan.max_num_seqs = limit /\ plan.max_model_len = PlannedContext
    /\ stage \in {"parsers", "solve"} => DOMAIN plan = DOMAIN EmptyPlan

(* A plan is built only for a claim that is known, and status comes last.  *)
PlanInv ==
    /\ request \in Requests
    /\ status # "" => stage = "done"
    /\ stage = "build" => Known
    /\ stage \notin {"parsers", "solve", "done"} => plan = EmptyPlan
    /\ DtypeInv /\ ClaimInv /\ SeedPlanInv
    /\ stage = "done" /\ Known => PlanBootsAsPredicted

-----------------------------------------------------------------------------
(* What is planned does not change, and neither does the engine once the   *)

(* pipeline reads files for it; the launch is computed from these.         *)
Steady == request' = request /\ engine' = engine /\ metadata' = metadata

\* What is read of the request and the engine stays as long as they do.
LEMMA SameLaunch ==
  ASSUME Steady
  PROVE  /\ Launch(DefaultSeqs)' = Launch(DefaultSeqs)
         /\ Launch(GuardedSeqs(limit))' = Launch(GuardedSeqs(limit'))
         /\ IsSeed' = IsSeed /\ Dtype' = Dtype /\ ServedByConfig' = ServedByConfig
         /\ PlannedContext' = PlannedContext /\ Tier' = Tier /\ Config' = Config
<1>1. /\ IsSeed' = IsSeed /\ Dtype' = Dtype /\ Tier' = Tier /\ Config' = Config /\ Gpu' = Gpu
      /\ Given' = Given /\ Checkpoint' = Checkpoint /\ DeploymentChecks' = DeploymentChecks
  BY DEF Steady, IsSeed, Dtype, Tier, Facts, Gpu, Given, DeploymentChecks, Checkpoint, Config
<1>2. DefaultSeqs' = DefaultSeqs /\ TensorParallel' = TensorParallel /\ Utilization' = Utilization
  BY <1>1 DEF Steady, DefaultSeqs, TensorParallel, Utilization
<1>3. ServedContext(Checkpoint)' = ServedContext(Checkpoint)
  BY <1>1 DEF ServedContext
<1>4. ServedByConfig' = ServedByConfig /\ PlannedContext' = PlannedContext
  BY <1>1, <1>3 DEF ServedByConfig, PlannedContext
<1>5. GuardedSeqs(limit)' = GuardedSeqs(limit')
  BY <1>2 DEF GuardedSeqs
<1>6. Launch(DefaultSeqs)' = Launch(DefaultSeqs)
  BY <1>1, <1>2, <1>3 DEF Launch, Steady
<1>7. Launch(GuardedSeqs(limit))' = Launch(GuardedSeqs(limit'))
  BY <1>1, <1>2, <1>3, <1>5 DEF Launch, Steady
<1> QED
  BY <1>1, <1>2, <1>4, <1>5, <1>6, <1>7

\* Nothing is built or claimed before the pipeline starts.
LEMMA InitInv == Init => PlanInv
  BY DEF Init, PlanInv, DtypeInv, ClaimInv, SeedPlanInv

(* What the assumptions on the constants say of one request.               *)
LEMMA RequestTyped ==
  ASSUME request \in Requests
  PROVE  /\ request.count \in SeedCounts \/ ~IsSeed
         /\ IsSeed => request.count \in Nat \ {0}
         /\ ~IsSeed => Given.util \in Nat /\ Given.seqs \in Nat
         /\ ServedContext(Checkpoint) \in Nat
         /\ DeploymentChecks => ServedContext(Checkpoint) # 0
         /\ ~DeploymentChecks => ServedContext(Checkpoint) = 0
<1>1. request.model \in DOMAIN Checkpoints /\ request.count \in SeedCounts
      /\ request.given \in {0} \cup DOMAIN GivenPlans
  BY DEF Requests
<1>2. Field(Config, "max_position_embeddings", V3Context) \in Nat \ {0}
  BY <1>1, PlanAssumption DEF Config, Checkpoint
<1>3. ServedContext(Checkpoint) \in Nat
      /\ (DeploymentChecks <=> ServedContext(Checkpoint) # 0)
  BY <1>2, PlanAssumption DEF ServedContext, Smaller, Config
<1>4. ~IsSeed => Given.util \in Nat /\ Given.seqs \in Nat
  BY <1>1, PlanAssumption DEF IsSeed, Given
<1>5. SeedCounts \subseteq Nat \ {0}
  BY PlanAssumption
<1> QED
  BY <1>1, <1>3, <1>4, <1>5

(* A launch is for the context of the plan.                                *)
LEMMA LaunchContext ==
  ASSUME request \in Requests, NEW n
  PROVE  Launch(n).isl + Launch(n).osl = PlannedContext
<1> DEFINE c == ServedContext(Checkpoint)
<1>1. c \in Nat /\ (DeploymentChecks => c # 0) /\ (~DeploymentChecks => c = 0)
  BY RequestTyped
<1>2. Launch(n).isl = (IF c = 0 THEN ShortInput ELSE c - Output) /\ Launch(n).osl = Output
  BY DEF Launch
<1> HIDE DEF c
<1> QED
  BY <1>1, <1>2 DEF PlannedContext, ShortInput, Output, c

(* The last step: the seed's plan and a given one.                         *)
LEMMA SolveHolds ==
  ASSUME PlanInv, Solve, Known
  PROVE  PlanBootsAsPredicted'
<1> DEFINE e == claim.launch
<1>1. Steady /\ claim' = claim /\ limit' = limit
  BY DEF Solve, Steady
<1>2. stage = "solve" /\ request \in Requests /\ DOMAIN plan = DOMAIN EmptyPlan
  BY DEF Solve, PlanInv, SeedPlanInv
<1>3. e = Launch(GuardedSeqs(limit)) /\ (~IsSeed => limit = 0)
  BY <1>2 DEF PlanInv, ClaimInv
<1>4. e.tp = TensorParallel /\ e.util = Utilization /\ e.seqs = GuardedSeqs(limit)
      /\ e.isl + e.osl = PlannedContext
  BY <1>2, <1>3, LaunchContext DEF Launch
<1>5. metadata.torch_dtype = IF Dtype # "" THEN Dtype ELSE ServedByConfig
  BY <1>2 DEF PlanInv, DtypeInv
<1> HIDE DEF e
<1>6. ASSUME /\ plan'.tp = e.tp
             /\ e.util = (IF plan'.util > 0 THEN plan'.util ELSE DefaultUtil)
             /\ e.seqs = (IF plan'.max_num_seqs > 0 THEN plan'.max_num_seqs ELSE Tier.seqs)
             /\ metadata.torch_dtype = (IF plan'.dtype # "" THEN plan'.dtype ELSE ServedByConfig)
             /\ IsSeed => plan'.max_model_len = e.isl + e.osl
      PROVE  PlanBootsAsPredicted'
  <2>1. Tier' = Tier /\ IsSeed' = IsSeed /\ Config' = Config /\ metadata' = metadata
    BY <1>1, SameLaunch DEF Steady
  <2> QED
    BY <1>1, <1>6, <2>1 DEF PlanBootsAsPredicted, ServedByConfig, e
<1>7. CASE IsSeed
  <2>1. /\ plan.util = Util /\ plan.dtype = ServedByConfig
        /\ plan.max_num_seqs = limit /\ plan.max_model_len = PlannedContext
    BY <1>2 DEF PlanInv, SeedPlanInv
  <2>2. plan' = [plan EXCEPT !.tp = IF TensorParallel > 1 THEN TensorParallel
                                    ELSE IF request.count > 1 THEN @ ELSE 1]
    BY <1>7 DEF Solve
  <2>3. request.count \in Nat \ {0} /\ TensorParallel = request.count
    BY <1>2, <1>7, RequestTyped DEF TensorParallel
  <2>4. plan'.tp = e.tp
    BY <1>2, <1>4, <2>2, <2>3 DEF EmptyPlan
  <2>5. /\ plan'.util = Util /\ plan'.dtype = ServedByConfig
        /\ plan'.max_num_seqs = limit /\ plan'.max_model_len = PlannedContext
    BY <1>2, <2>1, <2>2 DEF EmptyPlan
  <2>6. e.util = (IF plan'.util > 0 THEN plan'.util ELSE DefaultUtil)
    BY <1>4, <1>7, <2>5 DEF Utilization, Util
  <2>7. e.seqs = (IF plan'.max_num_seqs > 0 THEN plan'.max_num_seqs ELSE Tier.seqs)
    BY <1>4, <1>7, <2>5 DEF GuardedSeqs, DefaultSeqs
  <2>8. metadata.torch_dtype = (IF plan'.dtype # "" THEN plan'.dtype ELSE ServedByConfig)
    BY <1>5, <1>7, <2>5 DEF Dtype
  <2> QED
    BY <1>4, <1>6, <2>4, <2>5, <2>6, <2>7, <2>8
<1>8. CASE ~IsSeed
  <2>1. plan' = [EmptyPlan EXCEPT !.tp = Given.tp, !.util = Given.util, !.dtype = Given.dtype,
                                  !.max_num_seqs = Given.seqs]
    BY <1>8 DEF Solve
  <2>2. plan'.tp = Given.tp /\ plan'.util = Given.util /\ plan'.dtype = Given.dtype
        /\ plan'.max_num_seqs = Given.seqs
    BY <2>1 DEF EmptyPlan
  <2>3. Given.util \in Nat /\ Given.seqs \in Nat /\ limit = 0
    BY <1>2, <1>3, <1>8, RequestTyped
  <2>4. e.seqs = (IF plan'.max_num_seqs > 0 THEN plan'.max_num_seqs ELSE Tier.seqs)
    BY <1>4, <1>8, <2>2, <2>3 DEF GuardedSeqs, DefaultSeqs
  <2> QED
    BY <1>4, <1>5, <1>6, <1>8, <2>2, <2>3, <2>4 DEF TensorParallel, Utilization, Dtype
<1> QED
  BY <1>7, <1>8

(* No stage breaks the invariant, whichever files it finds.                *)
LEMMA PlanNext == ASSUME PlanInv, [Next]_vars PROVE PlanInv'
<1> USE DEF PlanInv, DtypeInv, ClaimInv, SeedPlanInv
<1>1. CASE UNCHANGED vars
  <2>1. Steady /\ plan' = plan /\ claim' = claim /\ limit' = limit /\ stage' = stage /\ status' = status
    BY <1>1 DEF vars, Steady
  <2>2. request' = request /\ metadata' = metadata /\ (Known' <=> Known)
    BY <2>1 DEF Steady, Known
  <2>3. Launch(GuardedSeqs(limit))' = Launch(GuardedSeqs(limit))
    BY <2>1, SameLaunch
  <2>4. DtypeInv' /\ ClaimInv' /\ SeedPlanInv'
    BY <2>1, <2>2, <2>3, SameLaunch
  <2>5. PlanBootsAsPredicted' <=> PlanBootsAsPredicted
    <3>1. Tier' = Tier /\ IsSeed' = IsSeed /\ Config' = Config
      BY <2>1, SameLaunch
    <3> QED
      BY <2>1, <2>2, <3>1 DEF Steady, PlanBootsAsPredicted
  <2> QED
    BY <2>1, <2>2, <2>4, <2>5
<1>2. CASE ChooseEngine
  BY <1>2 DEF ChooseEngine
<1>3. CASE Resolve
  BY <1>3 DEF Resolve
<1>4. CASE Weigh
  <2>1. metadata'.torch_dtype = IF Dtype # "" THEN Dtype ELSE ServedByConfig
    <3>1. PICK w, processor, hybrid :
            metadata' = CalculatorMetadata(Checkpoint, w, Dtype, processor, hybrid)
      BY <1>4 DEF Weigh
    <3> DEFINE m == CalculatorMetadata(Checkpoint, w, Dtype, processor, hybrid)
    <3>2. m.torch_dtype
            = IF Dtype # "" THEN Dtype ELSE ServedDtype(Field(Checkpoint.config, "torch_dtype", ""))
      BY DEF CalculatorMetadata
    <3>3. metadata' = m
      BY <3>1
    <3> HIDE DEF m
    <3> QED
      BY <3>2, <3>3 DEF ServedByConfig, Config
  <2>2. Dtype' = Dtype /\ ServedByConfig' = ServedByConfig
    BY <1>4 DEF Weigh, Dtype, IsSeed, Given, ServedByConfig, Config, Checkpoint
  <2> QED
    BY <1>4, <2>1, <2>2 DEF Weigh
<1>5. ASSUME Steady, stage \in {"predict", "guard", "build", "parsers"}
      PROVE  DtypeInv' /\ request' \in Requests
  <2>1. Dtype' = Dtype /\ ServedByConfig' = ServedByConfig
    BY <1>5, SameLaunch
  <2> QED
    BY <1>5, <2>1 DEF Steady
<1>6. CASE Predict
  <2>1. Steady /\ stage = "predict" /\ stage' = "guard"
    BY <1>6 DEF Predict, Steady
  <2>2. claim'.launch = Launch(DefaultSeqs)
    BY <1>6 DEF Predict, Predicted
  <2>3. Launch(DefaultSeqs)' = Launch(DefaultSeqs)
    BY <2>1, SameLaunch
  <2> QED
    BY <1>5, <1>6, <2>1, <2>2, <2>3 DEF Predict
<1>7. CASE Guard
  <2>1. Steady /\ stage = "guard" /\ plan' = plan /\ status' = status /\ stage' \in {"solve", "build"}
    BY <1>7 DEF Guard, Steady
  <2>2. claim'.launch = Launch(GuardedSeqs(limit')) /\ (~IsSeed => limit' = 0)
    BY <1>7 DEF Guard, Predicted, GuardedSeqs
  <2>3. claim'.launch = Launch(GuardedSeqs(limit))' /\ IsSeed' = IsSeed
    BY <2>1, <2>2, SameLaunch
  <2>4. stage' = "build" <=> Known'
    BY <1>7 DEF Guard, Known
  <2> QED
    BY <1>5, <2>1, <2>2, <2>3, <2>4 DEF EmptyPlan
<1>8. CASE BuildPlan
  <2>1. Steady /\ stage = "build" /\ stage' = "parsers" /\ claim' = claim /\ limit' = limit /\ status' = status
    BY <1>8 DEF BuildPlan, Steady
  <2>2. /\ plan'.util = Util /\ plan'.dtype = ServedByConfig /\ plan'.max_num_seqs = limit
        /\ plan'.max_model_len = PlannedContext /\ DOMAIN plan' = DOMAIN EmptyPlan
    BY <1>8 DEF BuildPlan, BuiltPlan, EmptyPlan, ServedByConfig, Config, PlannedContext
  <2>3. claim'.launch = Launch(GuardedSeqs(limit))' /\ IsSeed' = IsSeed
        /\ ServedByConfig' = ServedByConfig /\ PlannedContext' = PlannedContext
    BY <2>1, SameLaunch
  <2> QED
    BY <1>5, <2>1, <2>2, <2>3
<1>9. CASE NameParsers
  <2>1. Steady /\ stage = "parsers" /\ stage' = "solve" /\ claim' = claim /\ limit' = limit /\ status' = status
    BY <1>9 DEF NameParsers, Steady
  <2>2. \E r, t : plan' = [plan EXCEPT !.reasoning_parser = r, !.tool_call_parser = t]
    BY <1>9 DEF NameParsers
  <2>3. /\ plan'.util = plan.util /\ plan'.dtype = plan.dtype /\ plan'.max_num_seqs = plan.max_num_seqs
        /\ plan'.max_model_len = plan.max_model_len /\ DOMAIN plan' = DOMAIN EmptyPlan
    BY <2>1, <2>2 DEF EmptyPlan
  <2>4. claim'.launch = Launch(GuardedSeqs(limit))' /\ IsSeed' = IsSeed
        /\ ServedByConfig' = ServedByConfig /\ PlannedContext' = PlannedContext
    BY <2>1, SameLaunch
  <2> QED
    BY <1>5, <2>1, <2>3, <2>4 DEF Known
<1>10. CASE Solve
  <2>1. Steady /\ stage = "solve" /\ stage' = "done" /\ claim' = claim /\ limit' = limit
    BY <1>10 DEF Solve, Steady
  <2>2. claim'.launch = Launch(GuardedSeqs(limit))' /\ IsSeed' = IsSeed
        /\ ServedByConfig' = ServedByConfig /\ Dtype' = Dtype
    BY <2>1, SameLaunch
  <2>3. Known' => PlanBootsAsPredicted'
    BY <1>10, <2>1, SolveHolds DEF Known
  <2> QED
    BY <2>1, <2>2, <2>3 DEF Steady
<1>11. CASE Ended
  BY <1>1, <1>11 DEF Ended
<1> QED
  BY <1>1, <1>2, <1>3, <1>4, <1>6, <1>7, <1>8, <1>9, <1>10, <1>11 DEF Next

(* A solution boots with the split, the utilization, the dtype, the number  *)
(* of sequences and the context its memory was predicted for, whichever    *)
(* files could be read and whatever the state-block guard lowered.         *)
THEOREM BootsAsPredicted == Spec => []PlanBootsAsPredicted
<1>1. PlanInv => PlanBootsAsPredicted
  BY DEF PlanInv, PlanBootsAsPredicted
<1> QED
  BY <1>1, InitInv, PlanNext, PTL DEF Spec

-----------------------------------------------------------------------------
(* The arithmetic of blocks and ranks.                                     *)

\* Division rounding up.
LEMMA CeilType == ASSUME NEW a \in Int, NEW b \in Nat \ {0}
  PROVE CeilDiv(a, b) \in Int /\ (a >= 0 => CeilDiv(a, b) \in Nat) /\ (a > 0 => CeilDiv(a, b) > 0)
  BY DEF CeilDiv

\* Something divided is never rounded up to nothing.
LEMMA CeilPositive == ASSUME NEW a \in Nat \ {0}, NEW b \in Nat \ {0} PROVE CeilDiv(a, b) \in Nat \ {0}
  BY CeilType

\* Division of natural numbers, rounding up.
LEMMA CeilNat == ASSUME NEW a \in Nat, NEW b \in Nat \ {0} PROVE CeilDiv(a, b) \in Nat
<1>1. a \in Int /\ a >= 0
  OBVIOUS
<1> QED
  BY <1>1, CeilType

\* Integer division keeps the order.
LEMMA DivGrows == ASSUME NEW a \in Int, NEW c \in Int, NEW b \in Nat \ {0}, a <= c
  PROVE a \div b <= c \div b
<1> DEFINE p == a \div b
           q == c \div b
<1>1. /\ p \in Int /\ q \in Int
      /\ a = b * p + (a % b) /\ c = b * q + (c % b)
      /\ a % b \in 0 .. b - 1 /\ c % b \in 0 .. b - 1
  OBVIOUS
<1> HIDE DEF p, q
<1>2. b * p < b * (q + 1)
  <2>1. b * (q + 1) = b * q + b
    BY <1>1
  <2>2. b * p \in Int /\ b * q \in Int
    BY <1>1
  <2> QED
    BY <1>1, <2>1, <2>2
<1>3. p < q + 1
  BY <1>1, <1>2
<1> QED
  BY <1>1, <1>3 DEF p, q

\* So does division rounding up.
LEMMA CeilGrows == ASSUME NEW a \in Int, NEW c \in Int, NEW b \in Nat \ {0}, a <= c
  PROVE CeilDiv(a, b) <= CeilDiv(c, b)
  BY DivGrows DEF CeilDiv

\* The sign of a product.
LEMMA TimesType == ASSUME NEW a \in Int, NEW b \in Int
  PROVE /\ a * b \in Int
        /\ a \in Nat /\ b \in Nat => a * b \in Nat
        /\ a > 0 /\ b > 0 => a * b > 0
  OBVIOUS

\* A product keeps the order of a factor.
LEMMA TimesGrows == ASSUME NEW a \in Int, NEW c \in Int, NEW b \in Nat, a <= c
  PROVE a * b <= c * b /\ b * a <= b * c
  OBVIOUS

\* The larger and the smaller of two numbers are one of them.
LEMMA LargerType == ASSUME NEW a \in Int, NEW b \in Int
  PROVE Larger(a, b) \in Int /\ Larger(a, b) >= a /\ Larger(a, b) >= b /\ Larger(a, b) \in {a, b}
        /\ Smaller(a, b) \in Int /\ Smaller(a, b) <= a /\ Smaller(a, b) <= b /\ Smaller(a, b) \in {a, b}
  BY DEF Larger, Smaller

\* Rounding up to a multiple.
LEMMA RoundType == ASSUME NEW a \in Nat, NEW b \in Nat \ {0}
  PROVE RoundUp(a, b) \in Nat /\ (a > 0 => RoundUp(a, b) > 0)
<1>1. CeilDiv(a, b) \in Nat /\ (a > 0 => CeilDiv(a, b) > 0)
  BY CeilType
<1> QED
  BY <1>1, TimesType DEF RoundUp

(* The largest of a finite set of numbers.                                 *)
LEMMA HasMost ==
  ASSUME NEW S, IsFiniteSet(S), S # {}, S \subseteq Int
  PROVE  Most(S) \in S /\ \A x \in S : x <= Most(S)
<1> DEFINE T == {s \in SUBSET S : s # {} => \E x \in s : \A y \in s : y <= x}
<1>1. ASSUME NEW s \in SUBSET S, \A t \in SUBSET s : t # s => t \in T PROVE s \in T
  <2> SUFFICES ASSUME s # {} PROVE \E x \in s : \A y \in s : y <= x
    OBVIOUS
  <2>1. PICK a \in s : TRUE
    OBVIOUS
  <2>2. s \ {a} \in T
    BY <1>1
  <2>3. CASE s \ {a} = {}
    BY <2>3
  <2>4. CASE s \ {a} # {}
    <3>1. PICK x \in s \ {a} : \A y \in s \ {a} : y <= x
      BY <2>2, <2>4
    <3>2. x \in Int /\ a \in Int /\ s \subseteq Int
      OBVIOUS
    <3>3. CASE a <= x
      BY <3>1, <3>2, <3>3
    <3>4. CASE x < a
      <4>1. ASSUME NEW y \in s PROVE y <= a
        BY <3>1, <3>2, <3>4
      <4> QED
        BY <4>1
    <3> QED
      BY <3>2, <3>3, <3>4
  <2> QED
    BY <2>3, <2>4
<1>2. SUBSET S \subseteq T
  <2> HIDE DEF T
  <2> QED
    BY <1>1, SubsetInduction
<1>3. \E x \in S : \A y \in S : y <= x
  BY <1>2
<1> QED
  BY <1>3 DEF Most

\* The same, of natural numbers.
LEMMA MostNat ==
  ASSUME NEW S, IsFiniteSet(S), S # {}, S \subseteq Nat PROVE Most(S) \in S /\ \A x \in S : x <= Most(S)
<1>1. S \subseteq Int
  OBVIOUS
<1> QED
  BY <1>1, HasMost

\* A set of natural numbers has a least.
LEMMA HasLeast ==
  ASSUME NEW S, S # {}, S \subseteq Nat PROVE Least(S) \in S /\ \A x \in S : Least(S) <= x
  BY Smallest DEF Least

\* A set whose every number is topped in another has no larger maximum.
LEMMA MostGrows ==
  ASSUME NEW S, IsFiniteSet(S), S # {}, S \subseteq Int, NEW R, IsFiniteSet(R), R # {}, R \subseteq Int,
         \A x \in S : \E y \in R : x <= y
  PROVE  Most(S) <= Most(R)
<1>1. Most(S) \in S /\ Most(R) \in R /\ \A y \in R : y <= Most(R)
  BY HasMost
<1>2. PICK y \in R : Most(S) <= y
  BY <1>1
<1>3. Most(S) \in Int /\ Most(R) \in Int /\ y \in Int /\ y <= Most(R)
  BY <1>1
<1> QED
  BY <1>2, <1>3

\* A function on a finite set has finitely many values.
LEMMA RangeFinite ==
  ASSUME NEW f, IsFiniteSet(DOMAIN f) PROVE IsFiniteSet(Range(f))
<1> DEFINE g == [x \in DOMAIN f |-> f[x]]
<1>1. g \in Surjection(DOMAIN f, Range(f))
  BY DEF Surjection, Range
<1> QED
  BY <1>1, FS_Surjection

-----------------------------------------------------------------------------
(* What a well-formed config is read as.                                   *)

\* The families whose layers keep states.
StateFamilies == {"qwen3_5", "nemotron_h", "qwen4_exp", "glm5_next"}
\* What a rank needs of its launch for the bytes of its caches to be numbers.
Rank(x) == x.tp \in Nat \ {0} /\ x.kv_bytes \in Nat \ {0} /\ x.model_bytes \in Nat \ {0} /\ x.sm \in Nat
\* The numbers of a layer kind are natural.
Counted(k) == k.count \in Nat /\ k.bytes_per_token \in Nat /\ k.state_bytes \in Nat /\ k.block_size \in Nat /\ k.page_bytes \in Nat

(* A field that is declared is a positive number.                          *)
LEMMA NumberField == ASSUME NEW c, WellFormed(c), NEW f \in NumberFields, f \in DOMAIN c PROVE c[f] \in Nat \ {0}
  BY DEF WellFormed, Numbered

\* A number field is positive, or what stands for it.
LEMMA FieldOr == ASSUME NEW c, WellFormed(c), NEW f \in NumberFields, NEW d PROVE
     Field(c, f, d) \in Nat \ {0} \/ Field(c, f, d) = d
  BY NumberField DEF Field

\* Layers of a type are counted in natural numbers.
LEMMA CountType == ASSUME NEW types, IsFiniteSet(DOMAIN types), NEW t PROVE CountOf(types, t) \in Nat
<1>1. {i \in DOMAIN types : types[i] = t} \in SUBSET DOMAIN types
  OBVIOUS
<1> QED
  BY <1>1, FS_Subset, FS_CardinalityType DEF CountOf

\* A list of the config is finite.
LEMMA ListFinite == ASSUME NEW c, WellFormed(c), NEW f \in ListFields, f \in DOMAIN c
   PROVE IsFiniteSet(DOMAIN c[f]) /\ Len(c[f]) \in Nat
<1>1. Len(c[f]) \in Nat /\ DOMAIN c[f] = 1 .. Len(c[f])
  BY DEF WellFormed
<1> QED
  BY <1>1, FS_Interval

\* So are the layers of one type.
LEMMA LayersType == ASSUME NEW c, WellFormed(c), NEW t PROVE LayersOf(c, t) \in Nat
<1>1. CASE "layer_types" \in DOMAIN c
  BY <1>1, ListFinite, CountType DEF LayersOf, Field, ListFields
<1>2. CASE "layer_types" \notin DOMAIN c
  <2>1. IsFiniteSet(DOMAIN <<>>)
    BY FS_EmptySet
  <2> QED
    BY <1>2, <2>1, CountType DEF LayersOf, Field
<1> QED
  BY <1>1, <1>2

\* A token of a layer takes at least a byte on every rank.
LEMMA PerTokenType ==
  ASSUME NEW heads \in Nat, NEW dim \in Nat \ {0}, NEW x, Rank(x)
  PROVE  HeadsPerGpu(heads, x.tp) \in Nat \ {0} /\ KvPerToken(heads, dim, x) \in Nat \ {0}
<1>1. HeadsPerGpu(heads, x.tp) \in Nat \ {0}
  <2>1. CeilDiv(heads, x.tp) \in Int
    BY CeilType DEF Rank
  <2> QED
    BY <2>1 DEF HeadsPerGpu, Larger
<1> DEFINE h == HeadsPerGpu(heads, x.tp)
<1> HIDE DEF h
<1>2. h * 2 \in Nat \ {0}
  BY <1>1 DEF h
<1>3. h * 2 * dim \in Nat \ {0}
  BY <1>2, TimesType
<1>4. h * 2 * dim * x.kv_bytes \in Nat \ {0}
  BY <1>3, TimesType DEF Rank
<1> QED
  BY <1>1, <1>4 DEF KvPerToken, h

\* Integer division of natural numbers.
LEMMA DivType == ASSUME NEW a \in Nat, NEW b \in Nat \ {0} PROVE a \div b \in Nat
  OBVIOUS

(* The state of a gated delta net.                                         *)
LEMMA DeltaNetType ==
  ASSUME NEW c, WellFormed(c), NEW x, Rank(x),
         DeltaNetFields \cup {"linear_num_value_heads"} \subseteq DOMAIN c
  PROVE  DeltaNetState(c, x) \in Nat /\ ConvWidth(c) \in Nat
<1>1. /\ c.linear_num_key_heads \in Nat \ {0} /\ c.linear_key_head_dim \in Nat \ {0}
      /\ c.linear_num_value_heads \in Nat \ {0} /\ c.linear_value_head_dim \in Nat \ {0}
      /\ c.linear_conv_kernel_dim \in Nat \ {0}
  BY NumberField DEF NumberFields, DeltaNetFields
<1>2. ConvWidth(c) \in Nat
  BY <1>1, TimesType DEF ConvWidth
<1>3. ConvWidth(c) \div x.tp \in Nat /\ c.linear_num_value_heads \div x.tp \in Nat
  BY <1>1, <1>2, DivType DEF Rank
<1>4. SsmBytes(c, "mamba_ssm_dtype") \in Nat
  BY DEF SsmBytes
<1> DEFINE w == ConvWidth(c) \div x.tp
           h == c.linear_num_value_heads \div x.tp
           s == SsmBytes(c, "mamba_ssm_dtype")
           k == c.linear_conv_kernel_dim - 1
<1>5. w \in Nat /\ h \in Nat /\ s \in Nat /\ k \in Nat
  BY <1>1, <1>3, <1>4
<1>6. DeltaNetState(c, x) = k * w * x.model_bytes + h * c.linear_value_head_dim * c.linear_key_head_dim * s
  BY DEF DeltaNetState
<1> HIDE DEF w, h, s, k
<1>7. k * w * x.model_bytes \in Nat
  BY <1>5, TimesType DEF Rank
<1>8. h * c.linear_value_head_dim \in Nat
  BY <1>1, <1>5, TimesType
<1>9. h * c.linear_value_head_dim * c.linear_key_head_dim \in Nat
  BY <1>1, <1>8, TimesType
<1>10. h * c.linear_value_head_dim * c.linear_key_head_dim * s \in Nat
  BY <1>5, <1>9, TimesType
<1> QED
  BY <1>2, <1>6, <1>7, <1>10

(* The kinds that hold layers, as the accounting takes them.               *)
Held(kinds) == /\ IsFiniteSet(DOMAIN kinds) /\ DOMAIN kinds # {} /\ DOMAIN kinds \subseteq Nat
               /\ \A i \in DOMAIN kinds : Counted(kinds[i]) /\ kinds[i].count > 0

\* Every kind that keeps no state caches its tokens.
Sized(kinds) == \A i \in DOMAIN kinds : kinds[i].kind # "state" => kinds[i].bytes_per_token > 0

\* A group's size is a number.
LEMMA GroupSizeType ==
  ASSUME NEW S, IsFiniteSet(S), S # {}, S \subseteq Nat PROVE GroupSize(S) \in Nat
<1>1. Most(S) \in S /\ Least(S) \in S
  BY MostNat, HasLeast
<1> QED
  BY <1>1 DEF GroupSize

\* The page all groups share.
LEMMA GroupedPageType ==
  ASSUME NEW kinds, Held(kinds), Sized(kinds) PROVE GroupedPage(kinds) \in Nat
<1> DEFINE attention == {i \in DOMAIN kinds : kinds[i].kind # "state"}
           widths == {kinds[i].bytes_per_token : i \in attention}
           states == {i \in DOMAIN kinds : kinds[i].kind = "state"}
           width == Most(widths)
<1>1. IsFiniteSet(widths)
  <2> DEFINE f == [i \in attention |-> kinds[i].bytes_per_token]
  <2>1. IsFiniteSet(attention)
    <3>1. attention \in SUBSET DOMAIN kinds
      OBVIOUS
    <3> QED
      BY <3>1, FS_Subset DEF Held
  <2>2. f \in Surjection(attention, widths)
    BY DEF Surjection
  <2> QED
    BY <2>1, <2>2, FS_Surjection
<1>2. widths \subseteq Nat \ {0}
  BY DEF Held, Sized, Counted
<1> HIDE DEF widths
<1>3. widths # {} => width \in Nat \ {0}
  <2>1. widths \subseteq Nat
    BY <1>2
  <2> QED
    BY <1>1, <1>2, <2>1, MostNat
<1>4. GroupedPage(kinds) = IF states = {}
        THEN IF \E w \in widths : (BaseBlock * width) % w # 0 THEN 0 ELSE BaseBlock * width
        ELSE IF Cardinality(states) # 1 \/ Cardinality(widths) # 1 THEN 0
        ELSE RoundUp(kinds[CHOOSE i \in states : TRUE].state_bytes, BaseBlock * width)
  BY DEF GroupedPage, widths
<1> HIDE DEF width
<1>5. CASE states = {}
  <2>1. widths # {}
    BY <1>5 DEF Held, widths
  <2>2. BaseBlock * width \in Nat
    BY <1>3, <2>1 DEF BaseBlock
  <2> QED
    BY <1>4, <1>5, <2>2
<1>6. CASE states # {} /\ Cardinality(widths) = 1
  <2>1. widths # {}
    BY <1>6, FS_EmptySet
  <2>2. BaseBlock * width \in Nat \ {0}
    BY <1>3, <2>1 DEF BaseBlock
  <2>3. (CHOOSE i \in states : TRUE) \in DOMAIN kinds
    BY <1>6
  <2>4. kinds[CHOOSE i \in states : TRUE].state_bytes \in Nat
    BY <2>3 DEF Held, Counted
  <2>5. RoundUp(kinds[CHOOSE i \in states : TRUE].state_bytes, BaseBlock * width) \in Nat
    BY <2>2, <2>4, RoundType
  <2> QED
    BY <1>4, <1>6, <2>5
<1> QED
  BY <1>4, <1>5, <1>6

\* The grouped layout's blocks and states are numbers.
LEMMA GroupedType ==
  ASSUME NEW kinds, Held(kinds), Sized(kinds), NEW L, NEW F
  PROVE  GroupedBlocks(kinds, L, F).bytes_per_block \in Nat
<1> DEFINE counts == {kinds[i].count : i \in DOMAIN kinds}
<1>1. IsFiniteSet(counts) /\ counts # {} /\ counts \subseteq Nat
  <2> DEFINE f == [i \in DOMAIN kinds |-> kinds[i].count]
  <2>1. f \in Surjection(DOMAIN kinds, counts)
    BY DEF Surjection
  <2> QED
    BY <2>1, FS_Surjection DEF Held, Counted
<1>2. GroupSize(counts) * GroupedPage(kinds) \in Nat
  <2>1. GroupSize(counts) \in Nat
    <3> HIDE DEF counts
    <3> QED
      BY <1>1, GroupSizeType
  <2> QED
    BY <2>1, GroupedPageType, TimesType
<1>3. GroupedBlocks(kinds, L, F).bytes_per_block \in {0, GroupSize(counts) * GroupedPage(kinds)}
  BY DEF GroupedBlocks, NotTraced, Blocks
<1> QED
  BY <1>2, <1>3

\* So are GLM5Next's.
LEMMA Glm5NextType ==
  ASSUME NEW kinds, Held(kinds), NEW L
  PROVE  Glm5NextBlocks(kinds, L).bytes_per_block \in Nat
<1> DEFINE of(k) == kinds[CHOOSE i \in DOMAIN kinds : kinds[i].kind = k]
<1>1. CASE {kinds[i].kind : i \in DOMAIN kinds} # {"compressed", "full", "state", "tail"}
  BY <1>1 DEF Glm5NextBlocks, NotTraced, Blocks
<1>2. CASE {kinds[i].kind : i \in DOMAIN kinds} = {"compressed", "full", "state", "tail"}
  <2>1. (\E i \in DOMAIN kinds : kinds[i].kind = "full") /\ (\E i \in DOMAIN kinds : kinds[i].kind = "compressed")
    <3>1. "full" \in {kinds[i].kind : i \in DOMAIN kinds} /\ "compressed" \in {kinds[i].kind : i \in DOMAIN kinds}
      BY <1>2
    <3> QED
      BY <3>1
  <2>2. Counted(of("full")) /\ Counted(of("compressed"))
    BY <2>1 DEF Held
  <2>3. of("full").count * of("full").page_bytes + of("compressed").count * of("compressed").page_bytes \in Nat
    BY <2>2, TimesType DEF Counted
  <2>4. Glm5NextBlocks(kinds, L).bytes_per_block \in
          {0, of("full").count * of("full").page_bytes + of("compressed").count * of("compressed").page_bytes}
    <3> HIDE DEF of
    <3> QED
      BY DEF Glm5NextBlocks, NotTraced, Blocks, of
  <2> QED
    BY <2>3, <2>4
<1> QED
  BY <1>1, <1>2

(* Buckets of positive page sizes, each with a positive number of layers.  *)
Sheets(page) == /\ IsFiniteSet(DOMAIN page) /\ DOMAIN page # {} /\ DOMAIN page \subseteq Nat \ {0}
                /\ \A p \in DOMAIN page : page[p] \in Nat \ {0}

\* Finitely many such buckets.
Shelves(pages) == /\ IsFiniteSet(DOMAIN pages) /\ DOMAIN pages # {}
                  /\ \A b \in DOMAIN pages : Sheets(pages[b])

\* A sum over finitely many is a natural number.
LEMMA TotalNat ==
  ASSUME NEW f, IsFiniteSet(DOMAIN f), NEW S, S = DOMAIN f, \A x \in S : f[x] \in Nat
  PROVE  Total(f) \in Nat /\ \A x \in S : f[x] <= Total(f)
<1> DEFINE g == [x \in S |-> f[x]]
<1>1. g \in [S -> Nat] /\ \A x \in S : g[x] = f[x]
  OBVIOUS
<1>2. PartialSums(f, S) = PartialSums(g, S)
  <2> DEFINE F(h) == [s \in SUBSET S |-> SumStep(f, h, s)]
             G(h) == [s \in SUBSET S |-> SumStep(g, h, s)]
  <2>1. ASSUME NEW h, NEW s \in SUBSET S PROVE SumStep(f, h, s) = SumStep(g, h, s)
    BY <1>1, Picked DEF SumStep
  <2>2. \A h : F(h) = G(h)
    BY <2>1
  <2> QED
    BY <2>2 DEF PartialSums
<1>3. SumFunction(f) = PartialSums(f, S)[S] /\ SumFunction(g) = PartialSums(g, S)[S]
  BY SumUnfolds
<1>4. SumFunction(g) \in Nat /\ \A x \in S : g[x] <= SumFunction(g)
  BY <1>1, SumNat
<1> QED
  BY <1>1, <1>2, <1>3, <1>4 DEF Total

\* The sheets of a bucket at a group size are counted.
LEMMA WidestType ==
  ASSUME NEW page, Sheets(page), NEW n \in Nat \ {0} PROVE Widest(page, n) \in Nat
<1> DEFINE f == [p \in DOMAIN page |-> CeilDiv(page[p], n) * p]
<1>1. ASSUME NEW p \in DOMAIN page PROVE f[p] \in Nat
  <2>1. page[p] \in Nat /\ p \in Nat
    BY DEF Sheets
  <2>2. CeilDiv(page[p], n) \in Nat
    BY <2>1, CeilType
  <2>3. CeilDiv(page[p], n) * p \in Nat
    BY <2>1, <2>2, TimesType
  <2> QED
    BY <2>3
<1>2. DOMAIN f = DOMAIN page /\ IsFiniteSet(DOMAIN page)
  BY DEF Sheets
<1>3. Total(f) \in Nat
  <2> HIDE DEF f
  <2> QED
    BY <1>1, <1>2, TotalNat
<1> QED
  BY <1>3 DEF Widest

\* The totals and maxima of a bucket are positive.
LEMMA SheetsType ==
  ASSUME NEW page, Sheets(page)
  PROVE  /\ Total(page) \in Nat \ {0} /\ Most(Range(page)) \in Nat \ {0} /\ Most(DOMAIN page) \in Nat \ {0}
<1>1. \A p \in DOMAIN page : page[p] \in Nat \ {0}
  BY DEF Sheets
<1>2. PICK p \in DOMAIN page : TRUE
  BY DEF Sheets
<1>3. Total(page) \in Nat /\ page[p] <= Total(page)
  BY <1>1, TotalNat DEF Sheets
<1>4. Total(page) \in Nat \ {0}
  BY <1>1, <1>3
<1>5. IsFiniteSet(Range(page)) /\ Range(page) # {} /\ Range(page) \subseteq Nat /\ 0 \notin Range(page)
  BY <1>1, <1>2, RangeFinite DEF Sheets, Range
<1>6. Most(Range(page)) \in Nat \ {0}
  BY <1>5, MostNat
<1>7. DOMAIN page \subseteq Nat /\ 0 \notin DOMAIN page
  BY DEF Sheets
<1>8. Most(DOMAIN page) \in Nat \ {0}
  BY <1>7, MostNat DEF Sheets
<1> QED
  BY <1>4, <1>6, <1>8

(* The repeat count is a number of the range it is looked for in.          *)
LEMMA RepeatCount ==
  ASSUME NEW top, IsFiniteSet(DOMAIN top), DOMAIN top # {}, \A b \in DOMAIN top : top[b] \in Nat,
         NEW low \in Nat \ {0}
  PROVE  ApproximateGcd(top, low) \in Nat \ {0}
<1> DEFINE most == Most({top[b] : b \in DOMAIN top})
           pad == [d \in low .. most |-> Total([b \in DOMAIN top |-> (d - (top[b] % d)) % d])]
           best == {d \in low .. most : \A x \in low .. most : pad[d] <= pad[x]}
<1>1. ApproximateGcd(top, low) = IF low > most THEN low ELSE Most(best)
  BY DEF ApproximateGcd
<1>2. most \in Nat
  <2>1. {top[b] : b \in DOMAIN top} = Range(top)
    BY DEF Range
  <2>2. IsFiniteSet({top[b] : b \in DOMAIN top}) 
    BY <2>1, RangeFinite
  <2>3. {top[b] : b \in DOMAIN top} \subseteq Nat /\ {top[b] : b \in DOMAIN top} # {}
    OBVIOUS
  <2>4. Most({top[b] : b \in DOMAIN top}) \in {top[b] : b \in DOMAIN top}
    BY <2>2, <2>3, MostNat
  <2> QED
    BY <2>3, <2>4
<1> HIDE DEF most
<1>3. CASE low > most
  BY <1>1, <1>3
<1>4. CASE low <= most
  <2>1. ASSUME NEW d \in low .. most PROVE pad[d] \in Nat
    <3> DEFINE f == [b \in DOMAIN top |-> (d - (top[b] % d)) % d]
    <3>1. d \in Nat \ {0}
      BY <1>2
    <3>2. \A b \in DOMAIN top : f[b] \in Nat
      BY <3>1
    <3>3. DOMAIN f = DOMAIN top
      OBVIOUS
    <3>4. Total(f) \in Nat
      <4> HIDE DEF f
      <4> QED
        BY <3>2, <3>3, TotalNat
    <3> QED
      BY <3>4
  <2> HIDE DEF pad
  <2>2. best # {}
    <3> DEFINE pads == {pad[d] : d \in low .. most}
    <3>1. pads \subseteq Nat /\ pads # {}
      BY <1>2, <1>4, <2>1
    <3>2. PICK n \in pads : \A m \in pads : n <= m
      <4> HIDE DEF pads
      <4> QED
        BY <3>1, Smallest
    <3>3. PICK d \in low .. most : pad[d] = n
      BY <3>2
    <3>4. \A x \in low .. most : pad[d] <= pad[x]
      BY <3>2, <3>3
    <3> QED
      BY <3>3, <3>4
  <2>3. IsFiniteSet(best) /\ best \subseteq Nat /\ 0 \notin best
    <3>1. best \in SUBSET (low .. most) /\ IsFiniteSet(low .. most)
      BY <1>2, FS_Interval
    <3> QED
      BY <1>2, <3>1, FS_Subset
  <2> HIDE DEF best
  <2>4. Most(best) \in best
    BY <2>2, <2>3, MostNat
  <2> QED
    BY <1>1, <1>2, <1>4, <2>3, <2>4
<1> QED
  BY <1>2, <1>3, <1>4

\* The buckets of kinds that have pages are such.
LEMMA PagesShelved ==
  ASSUME NEW kinds, Held(kinds), \A i \in DOMAIN kinds : kinds[i].page_bytes > 0
  PROVE  Shelves(BucketPages(kinds))
<1> DEFINE pages == BucketPages(kinds)
<1>1. DOMAIN pages = Buckets(kinds)
  BY DEF BucketPages
<1>2. IsFiniteSet(Buckets(kinds)) /\ Buckets(kinds) # {}
  <2> DEFINE f == [i \in DOMAIN kinds |-> BucketKey(kinds[i])]
  <2>1. f \in Surjection(DOMAIN kinds, Buckets(kinds))
    BY DEF Surjection, Buckets
  <2>2. Buckets(kinds) # {}
    BY DEF Held, Buckets
  <2> QED
    BY <2>1, <2>2, FS_Surjection DEF Held
<1>3. ASSUME NEW b \in Buckets(kinds) PROVE Sheets(pages[b])
  <2> DEFINE sizes == {kinds[i].page_bytes : i \in Members(kinds, b)}
             with(p) == {i \in Members(kinds, b) : kinds[i].page_bytes = p}
             number(p) == [i \in with(p) |-> kinds[i].count]
  <2>1. pages[b] = [p \in sizes |-> Total(number(p))]
    BY DEF BucketPages
  <2>2. Members(kinds, b) \subseteq DOMAIN kinds /\ Members(kinds, b) # {} /\ IsFiniteSet(Members(kinds, b))
    <3>1. Members(kinds, b) \in SUBSET DOMAIN kinds /\ Members(kinds, b) # {}
      BY DEF Members, Buckets
    <3> QED
      BY <3>1, FS_Subset DEF Held
  <2>3. IsFiniteSet(sizes) /\ sizes # {} /\ sizes \subseteq Nat \ {0}
    <3> DEFINE f == [i \in Members(kinds, b) |-> kinds[i].page_bytes]
    <3>1. f \in Surjection(Members(kinds, b), sizes)
      BY DEF Surjection
    <3>2. IsFiniteSet(sizes)
      BY <2>2, <3>1, FS_Surjection
    <3>3. \A i \in Members(kinds, b) : kinds[i].page_bytes \in Nat \ {0}
      BY <2>2 DEF Held, Counted
    <3> QED
      BY <2>2, <3>2, <3>3
  <2>4. ASSUME NEW p \in sizes PROVE Total(number(p)) \in Nat \ {0}
    <3>1. with(p) \subseteq DOMAIN kinds /\ with(p) # {} /\ IsFiniteSet(with(p))
      <4>1. with(p) \in SUBSET Members(kinds, b) /\ with(p) # {}
        OBVIOUS
      <4> QED
        BY <2>2, <4>1, FS_Subset
    <3>2. \A i \in with(p) : number(p)[i] \in Nat \ {0}
      BY <3>1 DEF Held, Counted
    <3>3. DOMAIN number(p) = with(p)
      OBVIOUS
    <3> DEFINE f == number(p)
               w == with(p)
    <3> HIDE DEF f, w
    <3>4. IsFiniteSet(w) /\ w = DOMAIN f /\ w # {} /\ \A i \in w : f[i] \in Nat \ {0}
      BY <3>1, <3>2, <3>3 DEF f, w
    <3>5. Total(f) \in Nat /\ \A i \in w : f[i] <= Total(f)
      BY <3>4, TotalNat
    <3> QED
      BY <3>4, <3>5 DEF f
  <2> HIDE DEF pages, number
  <2>5. DOMAIN pages[b] = sizes /\ \A p \in sizes : pages[b][p] = Total(number(p))
    BY <2>1
  <2> HIDE DEF sizes
  <2> QED
    BY <2>3, <2>4, <2>5 DEF Sheets
<1> QED
  BY <1>1, <1>2, <1>3 DEF Shelves

\* The repeat count is a number.
LEMMA RepeatsType == ASSUME NEW pages, Shelves(pages) PROVE Repeats(pages) \in Nat
<1> DEFINE top == [b \in Balanced(pages) |-> Most(Range(pages[b]))]
           split == {b \in Balanced(pages) : Cardinality(DOMAIN pages[b]) > 1}
           tops == {top[b] : b \in split}
<1>1. Balanced(pages) \in SUBSET DOMAIN pages /\ split \in SUBSET Balanced(pages)
  BY DEF Balanced
<1>2. IsFiniteSet(Balanced(pages)) /\ IsFiniteSet(split)
  BY <1>1, FS_Subset DEF Shelves
<1>3. \A b \in Balanced(pages) : top[b] \in Nat \ {0}
  BY <1>1, SheetsType DEF Shelves
<1>4. Repeats(pages) = IF split = {} THEN 0 ELSE ApproximateGcd(top, Most(tops))
  BY DEF Repeats
<1>5. CASE split # {}
  <2>1. IsFiniteSet(tops)
    <3> DEFINE f == [b \in split |-> top[b]]
    <3>1. f \in Surjection(split, tops)
      BY DEF Surjection
    <3> QED
      BY <1>2, <3>1, FS_Surjection
  <2>2. tops # {} /\ tops \subseteq Nat /\ 0 \notin tops
    BY <1>1, <1>3, <1>5
  <2> HIDE DEF tops
  <2>3. Most(tops) \in Nat \ {0}
    BY <2>1, <2>2, MostNat
  <2>4. DOMAIN top = Balanced(pages) /\ Balanced(pages) # {}
    BY <1>1, <1>5
  <2> HIDE DEF top
  <2>5. ApproximateGcd(top, Most(tops)) \in Nat \ {0}
    BY <1>2, <1>3, <2>3, <2>4, RepeatCount
  <2> QED
    BY <1>4, <1>5, <2>5
<1> QED
  BY <1>4, <1>5

\* So it has for any repeat count.
LEMMA GroupsType ==
  ASSUME NEW pages, Shelves(pages), NEW repeats \in Nat, NEW b \in DOMAIN pages
  PROVE  GroupsFor(pages, repeats)[b] \in Nat \ {0}
<1>1. Most(Range(pages[b])) \in Nat \ {0}
  BY SheetsType DEF Shelves
<1>2. repeats > 0 => CeilDiv(Most(Range(pages[b])), repeats) \in Nat \ {0}
  BY <1>1, CeilPositive
<1> QED
  BY <1>2 DEF GroupsFor

\* Every bucket of a packed layout has groups.
LEMMA CutType ==
  ASSUME NEW pages, Shelves(pages), NEW repeats \in Nat, NEW base, \A b \in DOMAIN pages : base[b] \in Nat \ {0}
  PROVE  \A b \in DOMAIN pages : PackedGroups(pages, repeats, base)[b] \in Nat \ {0}
<1> DEFINE wide(b) == Widest(pages[b], IF IsState(b, repeats) THEN Total(pages[b]) ELSE base[b])
           wides == {wide(b) : b \in DOMAIN pages}
           anchor == Most(wides)
<1>1. \A b \in DOMAIN pages : wide(b) \in Nat
  <2> SUFFICES ASSUME NEW b \in DOMAIN pages PROVE wide(b) \in Nat
    OBVIOUS
  <2>1. (IF IsState(b, repeats) THEN Total(pages[b]) ELSE base[b]) \in Nat \ {0}
    BY SheetsType DEF Shelves
  <2> QED
    BY <2>1, WidestType DEF Shelves
<1>2. anchor \in Nat
  <2>1. IsFiniteSet(wides)
    <3> DEFINE f == [b \in DOMAIN pages |-> wide(b)]
    <3>1. f \in Surjection(DOMAIN pages, wides)
      BY DEF Surjection
    <3> QED
      BY <3>1, FS_Surjection DEF Shelves
  <2>2. wides # {} /\ wides \subseteq Nat
    BY <1>1 DEF Shelves
  <2> HIDE DEF wides
  <2> QED
    BY <2>1, <2>2, MostNat
<1> HIDE DEF anchor
<1> SUFFICES ASSUME NEW b \in DOMAIN pages PROVE PackedGroups(pages, repeats, base)[b] \in Nat \ {0}
  OBVIOUS
<1>3. Total(pages[b]) \in Nat \ {0} /\ Most(DOMAIN pages[b]) \in Nat \ {0}
  BY SheetsType DEF Shelves
<1> DEFINE cut == CeilDiv(Total(pages[b]), Larger(anchor \div Most(DOMAIN pages[b]), 1))
<1>4. cut \in Nat
  <2>1. anchor \div Most(DOMAIN pages[b]) \in Nat
    BY <1>2, <1>3, DivType
  <2>2. Larger(anchor \div Most(DOMAIN pages[b]), 1) \in Nat \ {0}
    BY <2>1 DEF Larger
  <2> QED
    BY <1>3, <2>2, CeilPositive
<1>5. PackedGroups(pages, repeats, base)[b] \in {base[b], Larger(base[b], cut)}
  BY DEF PackedGroups, anchor
<1> HIDE DEF cut
<1>6. Larger(base[b], cut) \in Nat \ {0}
  BY <1>4 DEF Larger
<1> QED
  BY <1>5, <1>6

\* The packed layout's blocks and states are numbers.
LEMMA PackedType ==
  ASSUME NEW kinds, Held(kinds), \A i \in DOMAIN kinds : kinds[i].page_bytes > 0, NEW L, NEW F
  PROVE  PackedBlocks(kinds, L, F).bytes_per_block \in Nat
<1> DEFINE pages == BucketPages(kinds)
           repeats == Repeats(pages)
           groups == PackedGroups(pages, repeats, GroupsFor(pages, repeats))
           wides == {Widest(pages[b], groups[b]) : b \in DOMAIN pages}
<1>1. Shelves(pages) /\ repeats \in Nat
  BY PagesShelved, RepeatsType
<1>2. PackedBlocks(kinds, L, F) = PackedAccount(kinds, L, F, pages, repeats, groups)
  BY DEF PackedBlocks, PackedCut
<1> HIDE DEF pages, repeats
<1>3. \A b \in DOMAIN pages : groups[b] \in Nat \ {0}
  <2>1. \A b \in DOMAIN pages : GroupsFor(pages, repeats)[b] \in Nat \ {0}
    BY <1>1, GroupsType
  <2> QED
    BY <1>1, <2>1, CutType
<1> HIDE DEF groups
<1>4. Most(wides) \in Nat
  <2>1. \A b \in DOMAIN pages : Widest(pages[b], groups[b]) \in Nat
    BY <1>1, <1>3, WidestType DEF Shelves
  <2>2. IsFiniteSet(wides)
    <3> DEFINE f == [b \in DOMAIN pages |-> Widest(pages[b], groups[b])]
    <3>1. f \in Surjection(DOMAIN pages, wides)
      BY DEF Surjection
    <3> QED
      BY <1>1, <3>1, FS_Surjection DEF Shelves
  <2>3. wides # {} /\ wides \subseteq Nat
    BY <1>1, <2>1 DEF Shelves
  <2> HIDE DEF wides
  <2> QED
    BY <2>2, <2>3, MostNat
<1>5. PackedAccount(kinds, L, F, pages, repeats, groups).bytes_per_block \in {0, Most(wides)}
  BY DEF PackedAccount, NotTraced, Blocks
<1> QED
  BY <1>2, <1>4, <1>5

-----------------------------------------------------------------------------
(* The caches of the families that keep states, and their blocks.          *)

(* The kinds of a layout, as its accounting takes them.                    *)
Traced(kinds, layout) ==
    /\ IsFiniteSet(DOMAIN kinds) /\ DOMAIN kinds \subseteq Nat
    /\ \A i \in DOMAIN kinds : Counted(kinds[i])
    /\ layout = "grouped" => Sized(kinds)
    /\ layout = "packed" => \A i \in DOMAIN kinds : kinds[i].page_bytes > 0

\* The block of every traced layout is a number of bytes.
LEMMA BlockType ==
  ASSUME NEW all, NEW layout, Traced(all, layout), NEW L, NEW F,
         layout \in {"grouped", "packed", "glm5_next"}
  PROVE  BlockAccounting(all, L, F, layout).bytes_per_block \in Nat
<1> DEFINE held == {i \in DOMAIN all : all[i].count > 0}
           kinds == Restrict(all, held)
<1>1. DOMAIN kinds = held /\ \A i \in held : kinds[i] = all[i]
  BY DEF Restrict
<1>2. CASE held = {}
  BY <1>1, <1>2 DEF BlockAccounting, NotTraced, Blocks
<1>3. CASE held # {}
  <2>1. Held(kinds)
    <3>1. held \in SUBSET DOMAIN all
      OBVIOUS
    <3>2. IsFiniteSet(held) /\ held \subseteq Nat
      BY <3>1, FS_Subset DEF Traced
    <3> QED
      BY <1>1, <1>3, <3>2 DEF Held, Traced
  <2>2. /\ layout = "grouped" => Sized(kinds)
        /\ layout = "packed" => \A i \in DOMAIN kinds : kinds[i].page_bytes > 0
    BY <1>1 DEF Traced, Sized
  <2>3. BlockAccounting(all, L, F, layout) =
          CASE layout = "grouped" -> GroupedBlocks(kinds, L, F)
            [] layout = "packed" -> PackedBlocks(kinds, L, F)
            [] layout = "glm5_next" -> Glm5NextBlocks(kinds, L)
    BY <1>1, <1>3 DEF BlockAccounting
  <2> HIDE DEF kinds
  <2>4. CASE layout = "grouped"
    BY <2>1, <2>2, <2>3, <2>4, GroupedType
  <2>5. CASE layout = "packed"
    BY <2>1, <2>2, <2>3, <2>5, PackedType
  <2>6. CASE layout = "glm5_next"
    BY <2>1, <2>3, <2>6, Glm5NextType
  <2> QED
    BY <2>4, <2>5, <2>6
<1> QED
  BY <1>2, <1>3

\* Attention beside states is what the grouped accounting takes.
LEMMA TwoKinds ==
  ASSUME NEW j \in Nat, NEW k \in Nat, NEW b \in Nat \ {0}, NEW s \in Nat
  PROVE  Traced(<<Attention("full", j, b), StateLayers(k, s)>>, "grouped")
<1> DEFINE kinds == <<Attention("full", j, b), StateLayers(k, s)>>
<1>1. DOMAIN kinds = 1 .. 2 /\ kinds[1] = Attention("full", j, b) /\ kinds[2] = StateLayers(k, s)
  OBVIOUS
<1>2. Counted(Attention("full", j, b)) /\ Attention("full", j, b).bytes_per_token > 0
  BY DEF Counted, Attention, LayerKind
<1>3. Counted(StateLayers(k, s)) /\ StateLayers(k, s).kind = "state"
  BY DEF Counted, StateLayers, LayerKind
<1>4. IsFiniteSet(1 .. 2) /\ 1 .. 2 \subseteq Nat
  <2>1. \A n \in Nat : IsFiniteSet(1 .. n)
    BY FS_Interval
  <2>2. 2 \in Nat
    OBVIOUS
  <2>3. IsFiniteSet(1 .. 2)
    BY <2>1, <2>2, Zenon
  <2> QED
    BY <2>3
<1> HIDE DEF kinds
<1>5. \A i \in DOMAIN kinds : i = 1 \/ i = 2
  BY <1>1
<1> QED
  BY <1>1, <1>2, <1>3, <1>4, <1>5 DEF Traced, Sized, kinds

\* Qwen3.5's kinds are.
LEMMA Qwen35Traced ==
  ASSUME NEW c, WellFormed(c), NEW x, Rank(x), Family(c) = "qwen3_5"
  PROVE  Traced(Qwen35Kinds(c, x), "grouped")
<1>1. c.model_type = "qwen3_5" /\ Declares(c, {"linear_num_value_heads"})
  BY DEF Family
<1>2. DeltaNetFields \cup {"linear_num_value_heads", "num_hidden_layers"} \subseteq DOMAIN c
  BY <1>1 DEF WellFormed, FieldsRead, DeltaNetFields, Declares
<1> DEFINE types == IF Declares(c, {"layer_types"}) THEN c.layer_types
                    ELSE [i \in 1 .. c.num_hidden_layers |->
                            IF i % Field(c, "full_attention_interval", 4) = 0 THEN "full_attention" ELSE "linear_attention"]
<1>3. IsFiniteSet(DOMAIN types)
  <2>1. Declares(c, {"layer_types"}) => IsFiniteSet(DOMAIN c.layer_types)
    BY ListFinite DEF Declares, ListFields
  <2>2. c.num_hidden_layers \in Nat
    BY <1>2, NumberField DEF NumberFields
  <2>3. IsFiniteSet(1 .. c.num_hidden_layers)
    BY <2>2, FS_Interval
  <2> QED
    BY <2>1, <2>3
<1>4. Qwen35Kinds(c, x) = <<Attention("full", CountOf(types, "full_attention"), KvPerToken(c.num_key_value_heads, c.head_dim, x)),
                            StateLayers(CountOf(types, "linear_attention"), DeltaNetState(c, x))>>
  BY DEF Qwen35Kinds
<1> HIDE DEF types
<1>5. CountOf(types, "full_attention") \in Nat /\ CountOf(types, "linear_attention") \in Nat
  BY <1>3, CountType
<1>6. c.num_key_value_heads \in Nat /\ c.head_dim \in Nat \ {0}
  BY <1>2, NumberField DEF NumberFields, DeltaNetFields
<1>7. KvPerToken(c.num_key_value_heads, c.head_dim, x) \in Nat \ {0}
  BY <1>6, PerTokenType
<1>8. DeltaNetState(c, x) \in Nat
  BY <1>2, DeltaNetType
<1> QED
  BY <1>4, <1>5, <1>7, <1>8, TwoKinds

\* Nemotron-H's kinds are.
LEMMA NemotronTraced ==
  ASSUME NEW c, WellFormed(c), NEW x, Rank(x), Family(c) = "nemotron_h"
  PROVE  Traced(NemotronKinds(c, x), "grouped")
<1>1. c.model_type = "nemotron_h"
  BY DEF Family
<1>2. {"n_groups", "mamba_num_heads", "mamba_head_dim", "conv_kernel", "ssm_state_size",
       "num_key_value_heads"} \subseteq DOMAIN c
  BY <1>1 DEF WellFormed, FieldsRead, Declares
<1>3. /\ c.n_groups \in Nat \ {0} /\ c.mamba_num_heads \in Nat \ {0} /\ c.mamba_head_dim \in Nat \ {0}
      /\ c.conv_kernel \in Nat \ {0} /\ c.ssm_state_size \in Nat \ {0} /\ c.num_key_value_heads \in Nat \ {0}
  BY <1>2, NumberField DEF NumberFields
<1> DEFINE groups == IF c.n_groups % x.tp = 0 THEN c.n_groups ELSE x.tp
           inner == c.mamba_num_heads * c.mamba_head_dim
           wide == (inner + 2 * groups * c.ssm_state_size) \div x.tp
           k == c.conv_kernel - 1
           conv == k * wide * x.model_bytes
           bytes == SsmBytes(c, "mamba_ssm_cache_dtype")
           h == c.mamba_num_heads \div x.tp
           temporal == h * c.mamba_head_dim * c.ssm_state_size * bytes
           dim == Field(c, "head_dim", c.hidden_size \div c.num_attention_heads)
           pattern == NemotronPattern(c)
<1>4. NemotronKinds(c, x) = <<Attention("full", CountOf(pattern, "*"), KvPerToken(c.num_key_value_heads, dim, x)),
                              StateLayers(CountOf(pattern, "M"), conv + temporal)>>
  BY DEF NemotronKinds
<1>5. IsFiniteSet(DOMAIN pattern)
  <2>1. "hybrid_override_pattern" \in DOMAIN c => IsFiniteSet(DOMAIN c.hybrid_override_pattern)
    BY ListFinite DEF ListFields
  <2>2. "layers_block_type" \in DOMAIN c => IsFiniteSet(DOMAIN c.layers_block_type)
    BY ListFinite DEF ListFields
  <2>3. IsFiniteSet(DOMAIN <<>>)
    BY FS_EmptySet
  <2>4. IsFiniteSet(DOMAIN Field(c, "layers_block_type", <<>>))
    BY <2>2, <2>3 DEF Field
  <2>5. DOMAIN pattern \in {DOMAIN c.hybrid_override_pattern, DOMAIN Field(c, "layers_block_type", <<>>), DOMAIN <<>>}
        /\ ("hybrid_override_pattern" \notin DOMAIN c =>
              DOMAIN pattern \in {DOMAIN Field(c, "layers_block_type", <<>>), DOMAIN <<>>})
    BY DEF NemotronPattern, Declares
  <2> QED
    BY <2>1, <2>3, <2>4, <2>5
<1>6. CountOf(pattern, "*") \in Nat /\ CountOf(pattern, "M") \in Nat
  BY <1>5, CountType
<1>7. conv \in Nat
  <2>1. groups \in Nat
    BY <1>3 DEF Rank
  <2> HIDE DEF groups
  <2>2. inner + 2 * groups * c.ssm_state_size \in Nat
    <3>1. inner \in Nat /\ 2 * groups \in Nat
      BY <1>3, <2>1, TimesType
    <3> HIDE DEF inner
    <3>2. 2 * groups * c.ssm_state_size \in Nat
      BY <1>3, <3>1, TimesType
    <3> QED
      BY <3>1, <3>2
  <2>3. wide \in Nat
    <3> HIDE DEF inner
    <3> QED
      BY <2>2, DivType DEF Rank
  <2> HIDE DEF wide
  <2>4. k * wide \in Nat
    BY <1>3, <2>3, TimesType
  <2> HIDE DEF k
  <2> QED
    BY <2>4, TimesType DEF Rank
<1>8. temporal \in Nat
  <2>1. h \in Nat
    BY <1>3, DivType DEF Rank
  <2>2. bytes \in Nat
    BY DEF SsmBytes
  <2> HIDE DEF h, bytes
  <2>3. h * c.mamba_head_dim \in Nat
    BY <1>3, <2>1, TimesType
  <2>4. h * c.mamba_head_dim * c.ssm_state_size \in Nat
    BY <1>3, <2>3, TimesType
  <2> QED
    BY <2>2, <2>4, TimesType
<1>9. KvPerToken(c.num_key_value_heads, dim, x) \in Nat \ {0}
  <2>1. "head_dim" \in DOMAIN c => c.head_dim \in Nat \ {0}
    BY NumberField DEF NumberFields
  <2>2. CASE "head_dim" \notin DOMAIN c
    <3>1. c.hidden_size \in Nat \ {0} /\ c.num_attention_heads \in Nat \ {0} /\ c.hidden_size >= c.num_attention_heads
      <4>1. {"hidden_size", "num_attention_heads"} \subseteq DOMAIN c /\ c.hidden_size >= c.num_attention_heads
        BY <1>1, <2>2 DEF WellFormed, Declares
      <4> QED
        BY <4>1, NumberField DEF NumberFields
    <3>2. c.num_attention_heads \div c.num_attention_heads = 1
      BY <3>1
    <3>3. c.hidden_size \div c.num_attention_heads \in Nat \ {0}
      <4>1. c.num_attention_heads \div c.num_attention_heads <= c.hidden_size \div c.num_attention_heads
        BY <3>1, DivGrows
      <4>2. c.hidden_size \div c.num_attention_heads \in Nat
        BY <3>1
      <4> QED
        BY <3>2, <4>1, <4>2
    <3>4. dim \in Nat \ {0}
      BY <2>2, <3>3 DEF Field
    <3> HIDE DEF dim
    <3> QED
      BY <1>3, <3>4, PerTokenType
  <2>3. CASE "head_dim" \in DOMAIN c
    <3>1. dim \in Nat \ {0}
      BY <2>1, <2>3 DEF Field
    <3> HIDE DEF dim
    <3> QED
      BY <1>3, <3>1, PerTokenType
  <2> QED
    BY <2>2, <2>3
<1> QED
  <2>1. conv + temporal \in Nat
    BY <1>7, <1>8
  <2> HIDE DEF conv, temporal, dim, pattern
  <2> QED
    BY <1>4, <1>6, <1>9, <2>1, TwoKinds

\* The places of a list.
LEMMA PlacesOf == ASSUME NEW s, NEW n \in Nat, DOMAIN s = 1 .. n PROVE IsFiniteSet(DOMAIN s) /\ DOMAIN s \subseteq Nat
  BY FS_Interval

\* A product of three positive numbers.
LEMMA Product3 == ASSUME NEW a \in Nat \ {0}, NEW b \in Nat \ {0}, NEW d \in Nat \ {0} PROVE a * b * d \in Nat \ {0}
<1>1. a * b \in Nat \ {0}
  BY TimesType
<1> QED
  BY <1>1, TimesType

(* What a whole share of a positive number is.                             *)
LEMMA ShareOf == ASSUME NEW a \in Nat \ {0}, NEW b \in Nat \ {0}, a % b = 0 PROVE a \div b \in Nat \ {0}
<1>1. a = b * (a \div b) + (a % b) /\ a \div b \in Nat
  OBVIOUS
<1> DEFINE q == a \div b
<1> HIDE DEF q
<1>2. q = 0 => b * q = 0
  OBVIOUS
<1> QED
  BY <1>1, <1>2 DEF q

\* A gated delta net keeps a state.
LEMMA DeltaNetHolds ==
  ASSUME NEW c, WellFormed(c), NEW x, Rank(x),
         DeltaNetFields \cup {"linear_num_value_heads"} \subseteq DOMAIN c, c.linear_num_value_heads % x.tp = 0
  PROVE  DeltaNetState(c, x) \in Nat \ {0}
<1>1. /\ c.linear_key_head_dim \in Nat \ {0} /\ c.linear_num_value_heads \in Nat \ {0}
      /\ c.linear_value_head_dim \in Nat \ {0} /\ c.linear_conv_kernel_dim \in Nat \ {0}
  BY NumberField DEF NumberFields, DeltaNetFields
<1> DEFINE w == ConvWidth(c) \div x.tp
           h == c.linear_num_value_heads \div x.tp
           s == SsmBytes(c, "mamba_ssm_dtype")
           k == c.linear_conv_kernel_dim - 1
           conv == k * w * x.model_bytes
           temporal == h * c.linear_value_head_dim * c.linear_key_head_dim * s
<1>2. w \in Nat /\ k \in Nat
  BY <1>1, DeltaNetType, DivType DEF Rank
<1>3. h \in Nat \ {0} /\ s \in Nat \ {0}
  BY <1>1, ShareOf DEF Rank, SsmBytes
<1>4. DeltaNetState(c, x) = conv + temporal
  BY DEF DeltaNetState
<1> HIDE DEF w, h, s, k
<1>5. k * w \in Nat
  BY <1>2, TimesType
<1>6. conv \in Nat
  BY <1>5, TimesType DEF Rank
<1>7. h * c.linear_value_head_dim * c.linear_key_head_dim \in Nat \ {0}
  BY <1>1, <1>3, Product3
<1>8. temporal \in Nat \ {0}
  BY <1>3, <1>7, TimesType
<1> HIDE DEF conv, temporal
<1> QED
  BY <1>4, <1>6, <1>8

\* A paged kind is counted.
LEMMA PagedType ==
  ASSUME NEW kind, NEW n \in Nat, NEW block \in Nat, NEW page \in Nat
  PROVE  Counted(Paged(kind, n, block, page)) /\ Paged(kind, n, block, page).page_bytes = page
  BY DEF Counted, Paged, LayerKind

\* A paged kind caches no bytes per token of its own.
LEMMA PagedTokens ==
  ASSUME NEW kind, NEW n \in Nat, NEW block \in Nat, NEW page \in Nat, NEW b \in Nat
  PROVE  /\ Counted([Paged(kind, n, block, page) EXCEPT !.bytes_per_token = b])
         /\ [Paged(kind, n, block, page) EXCEPT !.bytes_per_token = b].page_bytes = page
  BY DEF Counted, Paged, LayerKind

\* The shape of a KDA layer.
LEMMA ShapeType ==
  ASSUME NEW c, WellFormed(c)
  PROVE  KdaShape(c).heads \in Nat \ {0} /\ KdaShape(c).dim \in Nat \ {0} /\ KdaShape(c).kernel \in Nat \ {0}
<1> DEFINE l == Field(c, "linear_attn_config", [x \in {} |-> 0])
           or(f, g, d) == Field(l, f, Field(c, g, d))
<1>1. KdaShape(c) = [heads |-> or("num_heads", "linear_num_heads", 64), dim |-> or("head_dim", "linear_head_dim", 128),
                     kernel |-> or("short_conv_kernel_size", "linear_conv_kernel_dim", 4)]
  BY DEF KdaShape
<1>2. Numbered(l, {"num_heads", "head_dim", "short_conv_kernel_size"})
  BY DEF WellFormed, Field, Numbered
<1> HIDE DEF l
<1>3. \A f \in {"num_heads", "head_dim", "short_conv_kernel_size"} : f \in DOMAIN l => l[f] \in Nat \ {0}
  BY <1>2 DEF Numbered
<1>4. \A g \in {"linear_num_heads", "linear_head_dim", "linear_conv_kernel_dim"} :
        \A d \in Nat \ {0} : Field(c, g, d) \in Nat \ {0}
  BY NumberField DEF Field, NumberFields
<1>5. /\ Field(c, "linear_num_heads", 64) \in Nat \ {0} /\ Field(c, "linear_head_dim", 128) \in Nat \ {0}
      /\ Field(c, "linear_conv_kernel_dim", 4) \in Nat \ {0}
  BY <1>4
<1>6. \A f \in {"num_heads", "head_dim", "short_conv_kernel_size"} : \A d \in Nat \ {0} : Field(l, f, d) \in Nat \ {0}
  BY <1>3 DEF Field
<1> QED
  BY <1>1, <1>5, <1>6

(* No other family has a state kind.                                       *)
Stateless(kinds) == \A i \in DOMAIN kinds : kinds[i].kind # "state"

\* Lists without a state kind.
LEMMA StatelessLists ==
  /\ Stateless(<<>>)
  /\ \A a, b : a.kind # "state" /\ b.kind # "state" => Stateless(<<a, b>>)
  /\ \A a, b, d, e, f, g, h :
       /\ a.kind # "state" /\ b.kind # "state" /\ d.kind # "state" /\ e.kind # "state"
       /\ f.kind # "state" /\ g.kind # "state" /\ h.kind # "state"
       => Stateless(<<a, b, d, e, f, g, h>>)
<1>1. Stateless(<<>>)
  BY DEF Stateless
<1>2. ASSUME NEW a, NEW b, a.kind # "state", b.kind # "state" PROVE Stateless(<<a, b>>)
  BY <1>2 DEF Stateless
<1>3. ASSUME NEW a, NEW b, NEW d, NEW e, NEW f, NEW g, NEW h,
             a.kind # "state", b.kind # "state", d.kind # "state", e.kind # "state",
             f.kind # "state", g.kind # "state", h.kind # "state"
      PROVE  Stateless(<<a, b, d, e, f, g, h>>)
  BY <1>3 DEF Stateless
<1> QED
  BY <1>1, <1>2, <1>3

\* The families with attention only keep no states.
LEMMA PlainStateless ==
  ASSUME NEW c, NEW x
  PROVE  /\ Stateless(Gemma4Kinds(c, x)) /\ Stateless(MixedSlidingKinds(c, x)) /\ Stateless(DeepseekV4Kinds(c, x))
         /\ Stateless(GlmMoeDsaKinds(c, x)) /\ Stateless(MinimaxKinds(c, x))
<1>1. Stateless(Gemma4Kinds(c, x))
  <2> DEFINE dim == Field(c, "global_head_dim", c.head_dim)
             heads == IF Declares(c, {"attention_k_eq_v"})
                      THEN Field(c, "num_global_key_value_heads", c.num_key_value_heads)
                      ELSE c.num_key_value_heads
             k1 == Attention("full", LayersOf(c, "full_attention"), KvPerToken(heads, dim, x))
             k2 == [Attention("sliding", LayersOf(c, "sliding_attention"), KvPerToken(c.num_key_value_heads, c.head_dim, x))
                    EXCEPT !.window = c.sliding_window]
  <2>1. Gemma4Kinds(c, x) \in {<<>>, <<k1, k2>>}
    BY DEF Gemma4Kinds
  <2>2. k1.kind # "state" /\ k2.kind # "state"
    BY DEF Attention, LayerKind
  <2> HIDE DEF k1, k2
  <2> QED
    BY <2>1, <2>2, StatelessLists
<1>2. Stateless(MixedSlidingKinds(c, x))
  <2> DEFINE bytes == KvPerToken(c.num_key_value_heads, c.head_dim, x)
             k1 == Attention("full", LayersOf(c, "full_attention"), bytes)
             k2 == [Attention("sliding", LayersOf(c, "sliding_attention"), bytes) EXCEPT !.window = c.sliding_window]
  <2>1. MixedSlidingKinds(c, x) = <<k1, k2>>
    BY DEF MixedSlidingKinds
  <2>2. k1.kind # "state" /\ k2.kind # "state"
    BY DEF Attention, LayerKind
  <2> HIDE DEF k1, k2
  <2> QED
    BY <2>1, <2>2, StatelessLists
<1>3. Stateless(DeepseekV4Kinds(c, x))
  <2> DEFINE n == c.num_hidden_layers
             ratios == [i \in 1 .. Smaller(n, Len(c.compress_ratios)) |-> Larger(1, c.compress_ratios[i])]
             c4 == CountOf(ratios, 4)
             c128 == CountOf(ratios, 128)
             mla(states, content) == RoundUp(states * content, DsMlaAlign)
             sliding(count, window, block, page) == [Paged("sliding", count, block, page) EXCEPT !.window = window]
             k1 == sliding(n, c.sliding_window, 64, mla(64, DsMlaRecord))
             k2 == Paged("full", c4, 256, mla(64, DsMlaRecord))
             k3 == Paged("full", c128, 256, mla(2, DsMlaRecord))
             k4 == Paged("compressed", c4, 256, mla(64, IndexRow(c.index_head_dim)))
             k5 == sliding(c4, 8, 4, mla(4, 16 * c.head_dim))
             k6 == sliding(c128, 128, 8, mla(8, 8 * c.head_dim))
             k7 == sliding(c4, 8, 4, mla(4, 16 * c.index_head_dim))
  <2>1. DeepseekV4Kinds(c, x) \in {<<>>, <<k1, k2, k3, k4, k5, k6, k7>>}
    BY DEF DeepseekV4Kinds
  <2>2. /\ k1.kind # "state" /\ k2.kind # "state" /\ k3.kind # "state" /\ k4.kind # "state"
        /\ k5.kind # "state" /\ k6.kind # "state" /\ k7.kind # "state"
    BY DEF Paged, LayerKind
  <2> HIDE DEF k1, k2, k3, k4, k5, k6, k7
  <2> QED
    BY <2>1, <2>2, StatelessLists
<1>4. Stateless(GlmMoeDsaKinds(c, x))
  <2> DEFINE per_token == (c.kv_lora_rank + c.qk_rope_head_dim) * x.kv_bytes
             k1 == [Paged("full", c.num_hidden_layers, 64, 64 * per_token) EXCEPT !.bytes_per_token = per_token]
             k2 == Paged("compressed", Cardinality(DsaIndexerLayers(c)), 64, 64 * IndexRow(c.index_head_dim))
  <2>1. GlmMoeDsaKinds(c, x) \in {<<>>, <<k1, k2>>}
    BY DEF GlmMoeDsaKinds
  <2>2. k1.kind # "state" /\ k2.kind # "state"
    BY DEF Paged, LayerKind
  <2> HIDE DEF k1, k2
  <2> QED
    BY <2>1, <2>2, StatelessLists
<1>5. Stateless(MinimaxKinds(c, x))
  <2> DEFINE sparse == c.sparse_attention_config
             per_token == KvPerToken(c.num_key_value_heads, c.head_dim, x)
             k1 == [Paged("full", c.num_hidden_layers, 128, 128 * per_token) EXCEPT !.bytes_per_token = per_token]
             k2 == Paged("compressed", MinimaxSparseLayers(c), 128, 256 * sparse.sparse_index_dim)
  <2>1. MinimaxKinds(c, x) \in {<<>>, <<k1, k2>>}
    BY DEF MinimaxKinds
  <2>2. k1.kind # "state" /\ k2.kind # "state"
    BY DEF Paged, LayerKind
  <2> HIDE DEF k1, k2
  <2> QED
    BY <2>1, <2>2, StatelessLists
<1> QED
  BY <1>1, <1>2, <1>3, <1>4, <1>5

(* The kinds a sequence of a finite set lists are its members.             *)
LEMMA ListOf ==
  ASSUME NEW S, IsFiniteSet(S)
  PROVE  DOMAIN SetToSeq(S) = 1 .. Cardinality(S) /\ \A i \in DOMAIN SetToSeq(S) : SetToSeq(S)[i] \in S
<1>1. PICK f \in Bijection(1 .. Cardinality(S), S) : TRUE
  BY FS_CardinalityType DEF ExistsBijection
<1>2. f \in [1 .. Cardinality(S) -> S] /\ IsInjective(f)
  BY <1>1 DEF Bijection, Injection, IsInjective
<1>3. SetToSeq(S) \in [1 .. Cardinality(S) -> S]
  BY <1>2 DEF SetToSeq
<1> QED
  BY <1>3

-----------------------------------------------------------------------------
(* What the blocks of a request hold.                                      *)

\* Division rounding up leaves nothing over.
LEMMA CeilHolds == ASSUME NEW a \in Nat, NEW b \in Nat \ {0} PROVE CeilDiv(a, b) * b >= a /\ CeilDiv(a, b) \in Nat
<1> DEFINE q == (a + b - 1) \div b
<1>1. q \in Int /\ a + b - 1 = b * q + ((a + b - 1) % b) /\ (a + b - 1) % b \in 0 .. b - 1
  OBVIOUS
<1> HIDE DEF q
<1>2. b * q \in Int /\ b * q = q * b
  BY <1>1
<1>3. q * b >= a
  BY <1>1, <1>2
<1>4. CeilDiv(a, b) = q
  BY DEF CeilDiv, q
<1> QED
  BY <1>3, <1>4, CeilNat

\* A multiple that something is rounded up to.
LEMMA RoundHolds == ASSUME NEW a \in Nat, NEW b \in Nat \ {0} PROVE RoundUp(a, b) >= a
  BY CeilHolds DEF RoundUp

\* A product grows with both factors.
LEMMA ProductGrows ==
  ASSUME NEW a \in Nat, NEW b \in Nat, NEW c \in Nat, NEW d \in Nat, a <= c, b <= d
  PROVE  a * b <= c * d /\ a * b \in Nat /\ c * d \in Nat
<1>1. a * b <= c * b /\ c * b <= c * d
  BY TimesGrows
<1>2. a * b \in Nat /\ c * b \in Nat /\ c * d \in Nat
  BY TimesType
<1> QED
  BY <1>1, <1>2

\* A product of three does not depend on the order.
LEMMA Regroup == ASSUME NEW a \in Nat, NEW b \in Nat, NEW c \in Nat, NEW d \in Nat
  PROVE (a * b) * (c * d) = (a * c) * (b * d)
<1>1. a * b \in Nat /\ c * d \in Nat /\ a * c \in Nat /\ b * d \in Nat /\ b * c \in Nat /\ c * b \in Nat
  BY TimesType
<1>2. \A p, q, r \in Nat : (p * q) * r = p * (q * r) /\ p * q = q * p
  OBVIOUS
<1>3. (a * b) * (c * d) = a * (b * (c * d)) /\ b * (c * d) = (b * c) * d /\ b * c = c * b /\ (c * b) * d = c * (b * d)
      /\ a * (c * (b * d)) = (a * c) * (b * d)
  BY <1>1, <1>2
<1> QED
  BY <1>3

-----------------------------------------------------------------------------
(* What one layer keeps.                                                   *)

\* A kind as one layer of it is paged.
Layer(k) == /\ Counted(k) /\ {"kind", "window", "block_size"} \subseteq DOMAIN k
            /\ k.page_bytes > 0 => k.block_size > 0
            /\ k.kind = "sliding" => k.window \in Nat \ {0}

\* The tokens a layer has to hold.
Spanned(k, L, F) == IF k.kind = "sliding" THEN WindowSpan(k, L, F) ELSE L

\* They are a number.
LEMMA SpanType ==
  ASSUME NEW k, Layer(k), NEW L \in Nat, NEW F \in Nat PROVE Spanned(k, L, F) \in Nat
<1>1. CASE k.kind = "sliding"
  <2>1. k.window - 1 + F \in Nat
    BY <1>1 DEF Layer
  <2> DEFINE w == k.window - 1 + F
  <2> HIDE DEF w
  <2>2. Smaller(w, L) \in Nat
    BY <2>1 DEF Smaller, w
  <2> QED
    BY <1>1, <2>2 DEF Spanned, WindowSpan, w
<1> QED
  BY <1>1 DEF Spanned

(* What a layer of any kind keeps is a number of bytes.                    *)
LEMMA OwnType ==
  ASSUME NEW k, Layer(k), NEW L \in Nat, NEW F \in Nat PROVE OwnBytes(k, L, F) \in Nat
<1> DEFINE t == Spanned(k, L, F)
<1>1. t \in Nat
  BY SpanType
<1>2. /\ k.kind \in {"full", "compressed"} => t = L
      /\ k.kind = "sliding" => t = WindowSpan(k, L, F)
  BY DEF Spanned
<1> HIDE DEF t
<1> DEFINE cached == IF k.page_bytes = 0 THEN t * k.bytes_per_token ELSE CeilDiv(t, k.block_size) * k.page_bytes
<1>3. cached \in Nat
  <2>1. k.page_bytes > 0 => CeilDiv(t, k.block_size) \in Nat
    BY <1>1, CeilNat DEF Layer, Counted
  <2> QED
    BY <1>1, <2>1, TimesType DEF Layer, Counted
<1>4. StateBlocks * k.state_bytes \in Nat /\ k.page_bytes \in Nat
  BY DEF StateBlocks, Layer, Counted
<1>5. OwnBytes(k, L, F) \in {cached, StateBlocks * k.state_bytes, k.page_bytes}
  BY <1>2 DEF OwnBytes
<1> QED
  BY <1>3, <1>4, <1>5

(* What the layers of all kinds keep.                                      *)
Kept(kinds, L, F) == Total([i \in DOMAIN kinds |-> kinds[i].count * OwnBytes(kinds[i], L, F)])

\* That is what the property compares.
LEMMA KeptIs == ASSUME NEW kinds, NEW e PROVE KeptBytes(kinds, e) = Kept(kinds, e.isl + e.osl, 2 * e.tokens)
  BY DEF KeptBytes, Kept, SumOver

(* Every layer's bytes are a number.                                       *)
Layers(kinds) == IsFiniteSet(DOMAIN kinds) /\ DOMAIN kinds \subseteq Nat /\ \A i \in DOMAIN kinds : Layer(kinds[i])

\* Every term of that sum is a number.
LEMMA KeptTerms ==
  ASSUME NEW kinds, Layers(kinds), NEW L \in Nat, NEW F \in Nat
  PROVE  [i \in DOMAIN kinds |-> kinds[i].count * OwnBytes(kinds[i], L, F)] \in [DOMAIN kinds -> Int]
<1>1. ASSUME NEW i \in DOMAIN kinds PROVE kinds[i].count * OwnBytes(kinds[i], L, F) \in Int
  <2>1. kinds[i].count \in Nat /\ OwnBytes(kinds[i], L, F) \in Nat
    BY OwnType DEF Layers, Layer, Counted
  <2> QED
    BY <2>1, TimesType
<1> QED
  BY <1>1

(* Kinds without layers keep nothing.                                      *)
LEMMA KeptHeld ==
  ASSUME NEW all, Layers(all), NEW L \in Nat, NEW F \in Nat
  PROVE  LET kinds == Restrict(all, {i \in DOMAIN all : all[i].count > 0})
         IN  Layers(kinds) /\ Kept(all, L, F) = Kept(kinds, L, F)
<1> DEFINE held == {i \in DOMAIN all : all[i].count > 0}
           kinds == Restrict(all, held)
           f == [i \in DOMAIN all |-> all[i].count * OwnBytes(all[i], L, F)]
           g == [i \in DOMAIN kinds |-> kinds[i].count * OwnBytes(kinds[i], L, F)]
<1>1. DOMAIN kinds = held /\ \A i \in held : kinds[i] = all[i]
  BY DEF Restrict
<1>2. held \in SUBSET DOMAIN all
  OBVIOUS
<1>3. Layers(kinds)
  BY <1>1, <1>2, FS_Subset DEF Layers
<1>4. f \in [DOMAIN all -> Int] /\ g \in [held -> Int]
  BY <1>1, <1>3, KeptTerms
<1>5. \A i \in held : f[i] = g[i]
  BY <1>1
<1>6. \A i \in DOMAIN all \ held : f[i] = 0
  <2> SUFFICES ASSUME NEW i \in DOMAIN all \ held PROVE f[i] = 0
    OBVIOUS
  <2>0. Layer(all[i]) /\ all[i].count \in Nat /\ ~(all[i].count > 0)
    BY DEF Layers, Layer, Counted
  <2> HIDE DEF f, g, kinds, held
  <2>1. all[i].count = 0 /\ OwnBytes(all[i], L, F) \in Nat
    <3>1. all[i].count = 0
      BY <2>0
    <3>2. OwnBytes(all[i], L, F) \in Nat
      BY ONLY <2>0, OwnType, L \in Nat, F \in Nat
    <3> QED
      BY <3>1, <3>2
  <2>2. 0 * OwnBytes(all[i], L, F) = 0
    BY <2>1
  <2> QED
    BY <2>1, <2>2 DEF f
<1> HIDE DEF f, g, held, kinds
<1>7. SumFunction(f) = SumFunction(g)
  BY <1>2, <1>4, <1>5, <1>6, SumDrops DEF Layers
<1> QED
  BY <1>3, <1>7 DEF Kept, Total, f, g, held, kinds

-----------------------------------------------------------------------------
(* The grouped layout.                                                     *)

(* Kinds that share a page: attention without pages of its own, and states.*)
Shared(kinds) == \A i \in DOMAIN kinds : kinds[i].kind \in {"full", "sliding", "state"} /\ kinds[i].page_bytes = 0

\* A group's size is one of the counts.
LEMMA GroupSizePositive ==
  ASSUME NEW S, IsFiniteSet(S), S # {}, S \subseteq Nat \ {0} PROVE GroupSize(S) \in Nat \ {0}
<1>1. S \subseteq Nat
  OBVIOUS
<1>2. Most(S) \in S /\ Least(S) \in S
  BY <1>1, MostNat, HasLeast
<1> QED
  BY <1>2 DEF GroupSize

(* The page holds whole tokens of every attention kind, and every state.   *)
LEMMA PageShared ==
  ASSUME NEW kinds, Held(kinds), Sized(kinds), GroupedPage(kinds) # 0, NEW i \in DOMAIN kinds
  PROVE  IF kinds[i].kind = "state" THEN GroupedPage(kinds) >= kinds[i].state_bytes
         ELSE GroupedPage(kinds) % kinds[i].bytes_per_token = 0
<1> DEFINE attention == {j \in DOMAIN kinds : kinds[j].kind # "state"}
           widths == {kinds[j].bytes_per_token : j \in attention}
           states == {j \in DOMAIN kinds : kinds[j].kind = "state"}
           width == Most(widths)
           page == GroupedPage(kinds)
           s == CHOOSE j \in states : TRUE
<1>1. page = IF states = {}
        THEN IF \E w \in widths : (BaseBlock * width) % w # 0 THEN 0 ELSE BaseBlock * width
        ELSE IF Cardinality(states) # 1 \/ Cardinality(widths) # 1 THEN 0
        ELSE RoundUp(kinds[s].state_bytes, BaseBlock * width)
  BY DEF GroupedPage
<1>2. widths \subseteq Nat \ {0} /\ \A j \in attention : kinds[j].bytes_per_token \in widths
  BY DEF Held, Sized, Counted
<1>3. kinds[i].kind # "state" => i \in attention
  OBVIOUS
<1>4. kinds[i].kind = "state" => i \in states
  OBVIOUS
<1>5. \A j \in states : kinds[j].state_bytes \in Nat
  BY DEF Held, Counted
<1> HIDE DEF widths, width, page, attention
<1>6. CASE states = {}
  <2>1. kinds[i].kind # "state"
    BY <1>4, <1>6
  <2>2. page = BaseBlock * width /\ \A w \in widths : (BaseBlock * width) % w = 0
    BY <1>1, <1>6 DEF page
  <2> QED
    BY <1>2, <1>3, <2>1, <2>2 DEF page
<1>7. CASE states # {}
  <2>1. Cardinality(states) = 1 /\ Cardinality(widths) = 1 /\ page = RoundUp(kinds[s].state_bytes, BaseBlock * width)
    BY <1>1, <1>7 DEF page
  <2>2. PICK w : widths = {w}
    <3> DEFINE f == [j \in attention |-> kinds[j].bytes_per_token]
    <3>1. attention \in SUBSET DOMAIN kinds
      BY DEF attention
    <3>2. IsFiniteSet(attention)
      BY <3>1, FS_Subset DEF Held
    <3>3. f \in Surjection(attention, widths)
      BY DEF Surjection, widths
    <3> HIDE DEF f
    <3>4. IsFiniteSet(widths)
      BY <3>2, <3>3, FS_Surjection
    <3> QED
      BY <2>1, <3>4, FS_Singleton
  <2>3. width = w /\ w \in Nat \ {0}
    <3>1. w \in Nat \ {0} /\ \A y \in {w} : y <= w
      BY <1>2, <2>2
    <3>2. Most({w}) = w
      BY <3>1 DEF Most
    <3> QED
      BY <2>2, <3>1, <3>2 DEF width
  <2>4. s \in states
    BY <1>7
  <2>5. kinds[s].state_bytes \in Nat
    BY <1>5, <2>4
  <2> DEFINE b == kinds[s].state_bytes
             n == CeilDiv(b, BaseBlock * w)
  <2>6. BaseBlock * w \in Nat \ {0} /\ BaseBlock * w = 16 * w
    BY <2>3 DEF BaseBlock
  <2>7. n \in Nat /\ page = n * (16 * w) /\ page >= b
    BY <2>1, <2>3, <2>5, <2>6, CeilHolds DEF RoundUp
  <2> HIDE DEF n, b
  <2>8. CASE kinds[i].kind = "state"
    <3>1. states = {i}
      <4>1. PICK z : states = {z}
        <5> HIDE DEF states
        <5>1. IsFiniteSet(states)
          <6>1. states \in SUBSET DOMAIN kinds
            BY DEF states
          <6> QED
            BY <6>1, FS_Subset DEF Held
        <5> QED
          BY <2>1, <5>1, FS_Singleton
      <4> QED
        BY <1>4, <2>8, <4>1
    <3>2. s = i
      BY <2>4, <3>1
    <3> QED
      BY <2>7, <2>8, <3>2 DEF b, page
  <2>9. CASE kinds[i].kind # "state"
    <3>1. kinds[i].bytes_per_token = w
      BY <1>2, <1>3, <2>2, <2>9
    <3>2. (n * (16 * w)) % w = 0
      <4>1. n * (16 * w) = w * (16 * n) /\ 16 * n \in Nat
        BY <2>3, <2>7
      <4>2. \A k \in Nat : (w * k) % w = 0
        BY <2>3
      <4> QED
        BY <4>1, <4>2
    <3> QED
      BY <2>7, <2>9, <3>1, <3>2 DEF page
  <2> QED
    BY <2>8, <2>9
<1> QED
  BY <1>6, <1>7

\* Whole shares add up again.
LEMMA ShareTimes == ASSUME NEW a \in Nat, NEW b \in Nat \ {0}, a % b = 0 PROVE a = (a \div b) * b
<1> DEFINE q == a \div b
<1>1. a = b * q + (a % b) /\ q \in Nat
  OBVIOUS
<1> HIDE DEF q
<1>2. b * q = q * b
  BY <1>1
<1> QED
  BY <1>1, <1>2 DEF q

(* A sum whose terms are within multiples of another's is within that       *)
(* multiple of it.                                                         *)
LEMMA SumCovered ==
  ASSUME NEW S, IsFiniteSet(S), NEW f \in [S -> Int], NEW h \in [S -> Int], NEW c \in Int,
         \A e \in S : f[e] <= c * h[e]
  PROVE  SumFunction(f) <= c * SumFunction(h)
<1> DEFINE g == [e \in S |-> c * h[e]]
<1>1. ASSUME NEW e \in S PROVE g[e] \in Int
  BY TimesType
<1>2. g \in [S -> Int] /\ \A e \in S : f[e] <= g[e] /\ g[e] = c * h[e]
  BY <1>1
<1> HIDE DEF g
<1>3. SumFunction(f) <= SumFunction(g)
  BY <1>2, SumBounded
<1>4. SumFunction(g) = c * SumFunction(h)
  BY <1>2, SumScaled
<1> QED
  BY <1>3, <1>4

\* The bytes of a kind's layers are within those of its groups.
LEMMA ProductCovered ==
  ASSUME NEW count \in Nat, NEW own \in Nat, NEW groups \in Nat, NEW blocks \in Nat, NEW size \in Nat, NEW page \in Nat,
         count <= size * groups, own <= page * blocks
  PROVE  /\ count * own <= (size * page) * (groups * blocks)
         /\ count * own \in Int /\ groups * blocks \in Int /\ size * page \in Int
<1>1. size * groups \in Nat /\ page * blocks \in Nat
  BY TimesType
<1>2. count * own <= (size * groups) * (page * blocks) /\ count * own \in Nat
  BY <1>1, ProductGrows
<1>3. (size * groups) * (page * blocks) = (size * page) * (groups * blocks)
  BY Regroup
<1>4. groups * blocks \in Nat /\ size * page \in Nat
  BY TimesType
<1> QED
  BY <1>2, <1>3, <1>4

(* A kind's blocks in the shared page.                                     *)
InPage(k, page) == IF k.kind = "state" THEN k ELSE [k EXCEPT !.block_size = page \div k.bytes_per_token]

(* The blocks of one layer, each a page, hold what it keeps.               *)
LEMMA PageHolds ==
  ASSUME NEW k, Layer(k), k.kind \in {"full", "sliding", "state"}, k.page_bytes = 0,
         NEW page \in Nat \ {0}, NEW L \in Nat, NEW F \in Nat,
         k.kind = "state" => page >= k.state_bytes,
         k.kind # "state" => k.bytes_per_token > 0 /\ page % k.bytes_per_token = 0
  PROVE  BlocksPerRequest(InPage(k, page), L, F) \in Nat
         /\ OwnBytes(k, L, F) <= page * BlocksPerRequest(InPage(k, page), L, F)
<1>1. CASE k.kind = "state"
  <2>1. BlocksPerRequest(InPage(k, page), L, F) = 2 /\ OwnBytes(k, L, F) = 2 * k.state_bytes
    BY <1>1 DEF BlocksPerRequest, InPage, StateBlocks, OwnBytes
  <2>2. k.state_bytes \in Nat /\ page >= k.state_bytes
    BY <1>1 DEF Layer, Counted
  <2> QED
    BY <2>1, <2>2
<1>2. CASE k.kind # "state"
  <2> DEFINE w == k.bytes_per_token
             q == page \div w
             t == Spanned(k, L, F)
             s == [k EXCEPT !.block_size = q]
             n == CeilDiv(t, q)
  <2>1. w \in Nat \ {0} /\ page % w = 0
    BY <1>2 DEF Layer, Counted
  <2>2. q \in Nat \ {0} /\ page = q * w
    <3>1. q \in Nat \ {0}
      BY <2>1, ShareOf
    <3> QED
      BY <2>1, <3>1, ShareTimes
  <2>3. t \in Nat
    BY SpanType
  <2>4. s.kind = k.kind /\ s.window = k.window /\ s.block_size = q /\ InPage(k, page) = s
    BY <1>2 DEF Layer, InPage
  <2>5. WindowSpan(s, L, F) = WindowSpan(k, L, F)
    BY <2>4 DEF WindowSpan
  <2>6. OwnBytes(k, L, F) = t * w
    BY <1>2 DEF OwnBytes, Spanned
  <2>7. BlocksPerRequest(s, L, F) \in {n, n + 1}
    BY <1>2, <2>4, <2>5 DEF BlocksPerRequest, Spanned
  <2> HIDE DEF w, q, t, s
  <2>8. n \in Nat /\ n * q >= t
    BY <2>2, <2>3, CeilHolds
  <2> HIDE DEF n
  <2>9. t * w <= (n * q) * w
    <3>1. n * q \in Nat
      BY <2>2, <2>8, TimesType
    <3> DEFINE z == n * q
    <3> HIDE DEF z
    <3>2. z \in Nat /\ t <= z
      BY <2>8, <3>1 DEF z
    <3>3. t * w <= z * w
      BY <2>1, <2>3, <3>2, TimesGrows
    <3> QED
      BY <3>3 DEF z
  <2>10. (n * q) * w = page * n
    <3>1. \A a, b, d \in Nat : (a * b) * d = (b * d) * a
      OBVIOUS
    <3> QED
      BY <2>1, <2>2, <2>8, <3>1
  <2>11. page * n <= page * BlocksPerRequest(s, L, F) /\ BlocksPerRequest(s, L, F) \in Nat
    <3>1. n <= BlocksPerRequest(s, L, F) /\ BlocksPerRequest(s, L, F) \in Nat
      BY <2>7, <2>8
    <3> QED
      BY <2>8, <3>1, TimesGrows
  <2>12. t * w \in Nat /\ page * n \in Nat /\ page * BlocksPerRequest(s, L, F) \in Nat
    BY <2>1, <2>3, <2>8, <2>11, TimesType
  <2> QED
    BY <2>4, <2>6, <2>9, <2>10, <2>11, <2>12
<1> QED
  BY <1>1, <1>2

(* A request's blocks in the grouped layout hold what its layers keep.     *)
LEMMA GroupedCovers ==
  ASSUME NEW kinds, Held(kinds), Sized(kinds), Layers(kinds), Shared(kinds), NEW L \in Nat, NEW F \in Nat,
         GroupedBlocks(kinds, L, F) # NotTraced
  PROVE  Kept(kinds, L, F) <= BytesPerSequence(GroupedBlocks(kinds, L, F))
<1> DEFINE S == DOMAIN kinds
           page == GroupedPage(kinds)
           counts == {kinds[i].count : i \in S}
           size == GroupSize(counts)
           groups == [i \in S |-> CeilDiv(kinds[i].count, size)]
<1>1. page \in Nat
  BY GroupedPageType
<1>2. GroupedBlocks(kinds, L, F) = IF page = 0 THEN NotTraced
        ELSE Blocks(size * page, Total([i \in S |-> groups[i] * BlocksPerRequest(InPage(kinds[i], page), L, F)]), Total(groups))
  BY DEF GroupedBlocks, InPage
<1>3. page # 0
  BY <1>2
<1>4. size \in Nat \ {0}
  <2>1. counts \subseteq Nat \ {0} /\ counts # {}
    BY DEF Held, Counted
  <2>2. IsFiniteSet(counts)
    <3> DEFINE count == [i \in S |-> kinds[i].count]
    <3>1. count \in Surjection(S, counts)
      BY DEF Surjection
    <3> QED
      BY <3>1, FS_Surjection DEF Held
  <2> HIDE DEF counts
  <2> QED
    BY <2>1, <2>2, GroupSizePositive
<1> HIDE DEF page, size
<1>5. ASSUME NEW i \in S
      PROVE  /\ kinds[i].count \in Nat /\ OwnBytes(kinds[i], L, F) \in Nat
             /\ CeilDiv(kinds[i].count, size) \in Nat /\ CeilDiv(kinds[i].count, size) * size >= kinds[i].count
             /\ BlocksPerRequest(InPage(kinds[i], page), L, F) \in Nat
             /\ OwnBytes(kinds[i], L, F) <= page * BlocksPerRequest(InPage(kinds[i], page), L, F)
  <2>1. Layer(kinds[i]) /\ kinds[i].count \in Nat
    BY DEF Layers, Layer, Counted
  <2>2. kinds[i].kind \in {"full", "sliding", "state"} /\ kinds[i].page_bytes = 0
    BY DEF Shared
  <2>3. /\ kinds[i].kind = "state" => page >= kinds[i].state_bytes
        /\ kinds[i].kind # "state" => kinds[i].bytes_per_token > 0 /\ page % kinds[i].bytes_per_token = 0
    BY <1>3, PageShared DEF page, Sized
  <2>4. OwnBytes(kinds[i], L, F) \in Nat
    BY <2>1, OwnType
  <2>5. page \in Nat \ {0}
    BY <1>1, <1>3
  <2> QED
    BY <1>4, <2>1, <2>2, <2>3, <2>4, <2>5, PageHolds, CeilHolds
<1> DEFINE f == [i \in S |-> kinds[i].count * OwnBytes(kinds[i], L, F)]
           h == [i \in S |-> groups[i] * BlocksPerRequest(InPage(kinds[i], page), L, F)]
<1>6. ASSUME NEW i \in S PROVE f[i] \in Int /\ h[i] \in Int /\ size * page \in Int /\ f[i] <= (size * page) * h[i]
  <2> DEFINE c == kinds[i].count
             o == OwnBytes(kinds[i], L, F)
             g == CeilDiv(kinds[i].count, size)
             b == BlocksPerRequest(InPage(kinds[i], page), L, F)
  <2>1. c \in Nat /\ o \in Nat /\ g \in Nat /\ b \in Nat /\ g * size >= c /\ o <= page * b
    BY <1>5
  <2>2. f[i] = c * o /\ h[i] = g * b
    OBVIOUS
  <2> HIDE DEF c, o, g, b, f, h
  <2>3. c <= size * g /\ size \in Nat
    BY <1>4, <2>1
  <2> QED
    BY <1>1, <2>1, <2>2, <2>3, ProductCovered
<1>7. f \in [S -> Int] /\ h \in [S -> Int] /\ size * page \in Int /\ \A i \in S : f[i] <= (size * page) * h[i]
  <2>1. \E i \in S : TRUE
    BY DEF Held
  <2> QED
    BY <1>6, <2>1
<1>8. Kept(kinds, L, F) = SumFunction(f)
  BY DEF Kept, Total
<1>9. BytesPerSequence(GroupedBlocks(kinds, L, F)) = (size * page) * SumFunction(h)
  BY <1>2, <1>3 DEF BytesPerSequence, Blocks, Total
<1>10. IsFiniteSet(S)
  BY DEF Held
<1> HIDE DEF S, f, h
<1>11. SumFunction(f) <= (size * page) * SumFunction(h)
  BY ONLY <1>7, <1>10, SumCovered
<1> QED
  BY <1>8, <1>9, <1>11

-----------------------------------------------------------------------------
(* The packed layout.                                                      *)

(* Kinds with pages of their own, which hold their states.                 *)
Own(kinds) == \A i \in DOMAIN kinds : kinds[i].page_bytes > 0 /\ kinds[i].state_bytes <= kinds[i].page_bytes

\* The blocks of one layer, each a page of its own, hold what it keeps.
LEMMA PagesHold ==
  ASSUME NEW k, Layer(k), k.page_bytes > 0, k.state_bytes <= k.page_bytes, NEW L \in Nat, NEW F \in Nat
  PROVE  BlocksPerRequest(k, L, F) \in Nat /\ OwnBytes(k, L, F) <= k.page_bytes * BlocksPerRequest(k, L, F)
<1> DEFINE p == k.page_bytes
           t == Spanned(k, L, F)
           n == CeilDiv(t, k.block_size)
<1>1. p \in Nat /\ k.state_bytes \in Nat /\ k.block_size \in Nat \ {0}
  BY DEF Layer, Counted
<1>2. n \in Nat
  <2>1. t \in Nat
    BY SpanType
  <2> QED
    BY <1>1, <2>1, CeilNat
<1>3. CASE k.kind \in {"full", "compressed", "sliding"}
  <2>1. OwnBytes(k, L, F) = n * p
    BY <1>3 DEF OwnBytes, Spanned
  <2>2. BlocksPerRequest(k, L, F) \in {n, n + 1}
    BY <1>3 DEF BlocksPerRequest, Spanned
  <2> HIDE DEF n, p
  <2>3. BlocksPerRequest(k, L, F) \in Nat /\ n <= BlocksPerRequest(k, L, F)
    BY <1>2, <2>2
  <2>4. p * n <= p * BlocksPerRequest(k, L, F) /\ p * n = n * p
    BY <1>1, <1>2, <2>3, TimesGrows
  <2> QED
    BY <2>1, <2>3, <2>4 DEF p
<1>4. CASE k.kind = "state"
  <2>1. OwnBytes(k, L, F) = 2 * k.state_bytes /\ BlocksPerRequest(k, L, F) = 2
    BY <1>4 DEF OwnBytes, BlocksPerRequest, StateBlocks
  <2> QED
    BY <1>1, <2>1
<1>5. CASE k.kind \notin {"full", "compressed", "sliding", "state"}
  <2>1. OwnBytes(k, L, F) = p /\ BlocksPerRequest(k, L, F) = 1
    BY <1>5 DEF OwnBytes, BlocksPerRequest
  <2> QED
    BY <1>1, <2>1
<1> QED
  BY <1>3, <1>4, <1>5

\* The members of a bucket are kinds.
LEMMA MembersFinite ==
  ASSUME NEW kinds, IsFiniteSet(DOMAIN kinds), NEW b
  PROVE  IsFiniteSet(Members(kinds, b)) /\ Members(kinds, b) \subseteq DOMAIN kinds
<1>1. Members(kinds, b) \in SUBSET DOMAIN kinds
  BY DEF Members
<1> QED
  BY <1>1, FS_Subset

(* The bytes of the pages of a bucket's layers, one each, are its sheets'. *)
LEMMA SheetBytes ==
  ASSUME NEW kinds, Held(kinds), NEW b \in Buckets(kinds)
  PROVE  LET page == BucketPages(kinds)[b]
             M == Members(kinds, b)
         IN  SumFunction([i \in M |-> kinds[i].count * kinds[i].page_bytes])
             = SumFunction([p \in DOMAIN page |-> page[p] * p])
<1> DEFINE M == Members(kinds, b)
           V == {kinds[i].page_bytes : i \in M}
           page == BucketPages(kinds)[b]
           f == [i \in M |-> kinds[i].count * kinds[i].page_bytes]
           key == [i \in M |-> kinds[i].page_bytes]
           layers(p) == [i \in {i \in M : kinds[i].page_bytes = p} |-> kinds[i].count]
           g == [p \in V |-> SumFunction(KeyPart(f, key, p))]
           h == [p \in DOMAIN page |-> page[p] * p]
<1>1. IsFiniteSet(M) /\ M \subseteq DOMAIN kinds
  BY MembersFinite DEF Held
<1>2. ASSUME NEW i \in M PROVE kinds[i].count \in Nat /\ kinds[i].page_bytes \in Nat /\ kinds[i].count * kinds[i].page_bytes \in Int
  <2>1. kinds[i].count \in Nat /\ kinds[i].page_bytes \in Nat
    BY <1>1 DEF Held, Counted
  <2> QED
    BY <2>1, TimesType
<1>3. f \in [M -> Int] /\ \A i \in M : key[i] \in V
  BY <1>2
<1>4. IsFiniteSet(V)
  <2>1. key \in Surjection(M, V)
    BY DEF Surjection
  <2> QED
    BY <1>1, <2>1, FS_Surjection
<1>5. page = [p \in V |-> Total(layers(p))]
  BY DEF BucketPages
<1>6. ASSUME NEW p \in V PROVE SumFunction(KeyPart(f, key, p)) = page[p] * p
  <2> DEFINE P == {i \in M : kinds[i].page_bytes = p}
             q == KeyPart(f, key, p)
             l == layers(p)
  <2>1. P \in SUBSET M /\ IsFiniteSet(P)
    BY <1>1, FS_Subset
  <2>2. DOMAIN q = P /\ \A i \in P : q[i] = f[i]
    BY DEF KeyPart
  <2>3. q = [i \in P |-> f[i]]
    BY DEF KeyPart
  <2>4. q \in [P -> Int]
    BY <1>3, <2>3
  <2>5. l \in [P -> Int] /\ p \in Nat
    BY <1>2
  <2>6. ASSUME NEW i \in P PROVE q[i] = p * l[i]
    <3>1. q[i] = kinds[i].count * kinds[i].page_bytes /\ kinds[i].page_bytes = p /\ l[i] = kinds[i].count
      BY <2>2
    <3>2. kinds[i].count * p = p * kinds[i].count
      BY <1>2, <2>5
    <3> QED
      BY <3>1, <3>2
  <2>7. page[p] = SumFunction(l)
    BY <1>5 DEF Total
  <2> HIDE DEF P, q, l, page, f, key
  <2>8. SumFunction(q) = p * SumFunction(l)
    BY <2>1, <2>4, <2>5, <2>6, SumScaled
  <2>9. SumFunction(l) \in Int
    BY <2>1, <2>5, SumType
  <2>10. p * SumFunction(l) = SumFunction(l) * p
    BY <2>5, <2>9
  <2> QED
    BY <2>7, <2>8, <2>10 DEF q
<1>7. g = h
  <2>1. DOMAIN page = V
    BY <1>5
  <2> HIDE DEF page, V, f, key
  <2> QED
    BY <1>6, <2>1
<1> HIDE DEF M, V, page, f, key, h
<1>8. SumFunction(f) = SumFunction(g)
  BY <1>1, <1>3, <1>4, SumParted
<1> QED
  BY <1>7, <1>8 DEF f, h, page, M

(* Cut into groups, the bucket's sheets are no wider than the widest group.*)
LEMMA SheetsCut ==
  ASSUME NEW page, Sheets(page), NEW n \in Nat \ {0}
  PROVE  LET bytes == SumFunction([p \in DOMAIN page |-> page[p] * p])
         IN  bytes \in Int /\ bytes <= n * Widest(page, n)
<1> DEFINE S == DOMAIN page
           f == [p \in S |-> page[p] * p]
           h == [p \in S |-> CeilDiv(page[p], n) * p]
<1>1. ASSUME NEW p \in S PROVE f[p] \in Int /\ h[p] \in Int /\ f[p] <= n * h[p]
  <2>1. page[p] \in Nat /\ p \in Nat
    BY DEF Sheets
  <2> DEFINE a == page[p]
             c == CeilDiv(a, n)
  <2>2. f[p] = a * p /\ h[p] = c * p
    OBVIOUS
  <2> HIDE DEF a, f, h
  <2>3. a \in Nat
    BY <2>1 DEF a
  <2>4. c \in Nat /\ c * n >= a
    BY <2>3, CeilHolds
  <2> HIDE DEF c
  <2>5. c * n \in Nat /\ c * p \in Nat /\ a * p \in Nat
    BY <2>1, <2>3, <2>4, TimesType
  <2> DEFINE z == c * n
  <2> HIDE DEF z
  <2>6. a * p <= z * p
    BY <2>1, <2>3, <2>4, <2>5, TimesGrows DEF z
  <2>7. z * p = n * (c * p)
    <3>1. \A x, y, w \in Nat : (x * y) * w = y * (x * w)
      OBVIOUS
    <3> QED
      BY <2>1, <2>4, <3>1 DEF z
  <2> QED
    BY <2>2, <2>5, <2>6, <2>7
<1>2. f \in [S -> Int] /\ h \in [S -> Int] /\ \A p \in S : f[p] <= n * h[p]
  BY <1>1
<1>3. IsFiniteSet(S) /\ n \in Int
  BY DEF Sheets
<1>4. Widest(page, n) = SumFunction(h)
  BY DEF Widest, Total
<1> HIDE DEF S, f, h
<1>5. SumFunction(f) <= n * SumFunction(h) /\ SumFunction(f) \in Int
  BY <1>2, <1>3, SumCovered, SumType
<1> QED
  BY <1>4, <1>5 DEF f, S

(* What a bucket's layers keep is within its blocks, each of its groups'   *)
(* width.                                                                  *)
LEMMA BucketHolds ==
  ASSUME NEW kinds, Held(kinds), Layers(kinds), Own(kinds), NEW b \in Buckets(kinds),
         NEW n \in Nat \ {0}, NEW L \in Nat, NEW F \in Nat
  PROVE  LET M == Members(kinds, b)
             per == Most({BlocksPerRequest(kinds[i], L, F) : i \in M})
             kept == SumFunction([i \in M |-> kinds[i].count * OwnBytes(kinds[i], L, F)])
         IN  kept \in Int /\ per \in Nat /\ kept <= (n * per) * Widest(BucketPages(kinds)[b], n)
<1> DEFINE M == Members(kinds, b)
           B == {BlocksPerRequest(kinds[i], L, F) : i \in M}
           per == Most(B)
           f == [i \in M |-> kinds[i].count * OwnBytes(kinds[i], L, F)]
           h == [i \in M |-> kinds[i].count * kinds[i].page_bytes]
           page == BucketPages(kinds)[b]
           w == Widest(page, n)
<1>1. IsFiniteSet(M) /\ M \subseteq DOMAIN kinds /\ M # {}
  BY MembersFinite DEF Held, Members, Buckets
<1>2. ASSUME NEW i \in M
      PROVE  /\ BlocksPerRequest(kinds[i], L, F) \in Nat /\ OwnBytes(kinds[i], L, F) \in Nat
             /\ OwnBytes(kinds[i], L, F) <= kinds[i].page_bytes * BlocksPerRequest(kinds[i], L, F)
             /\ kinds[i].count \in Nat /\ kinds[i].page_bytes \in Nat
  <2>1. Layer(kinds[i]) /\ kinds[i].page_bytes > 0 /\ kinds[i].state_bytes <= kinds[i].page_bytes
    BY <1>1 DEF Layers, Own
  <2> QED
    BY <2>1, PagesHold, OwnType DEF Layer, Counted
<1>3. per \in Nat /\ \A i \in M : BlocksPerRequest(kinds[i], L, F) <= per
  <2> DEFINE g == [i \in M |-> BlocksPerRequest(kinds[i], L, F)]
  <2>1. g \in Surjection(M, B)
    BY DEF Surjection
  <2>2. IsFiniteSet(B)
    BY <1>1, <2>1, FS_Surjection
  <2>3. B # {} /\ B \subseteq Nat /\ \A i \in M : BlocksPerRequest(kinds[i], L, F) \in B
    BY <1>1, <1>2
  <2> HIDE DEF B
  <2> QED
    BY <2>2, <2>3, MostNat
<1> HIDE DEF per
<1>4. ASSUME NEW i \in M PROVE f[i] \in Int /\ h[i] \in Int /\ f[i] <= per * h[i]
  <2> DEFINE c == kinds[i].count
             o == OwnBytes(kinds[i], L, F)
             p == kinds[i].page_bytes
             k == BlocksPerRequest(kinds[i], L, F)
  <2>1. c \in Nat /\ o \in Nat /\ p \in Nat /\ k \in Nat /\ o <= p * k /\ k <= per
    BY <1>2, <1>3
  <2>2. f[i] = c * o /\ h[i] = c * p
    OBVIOUS
  <2> HIDE DEF c, o, p, k, f, h
  <2>3. p * k <= p * per /\ p * k \in Nat /\ p * per \in Nat
    BY <1>3, <2>1, ProductGrows
  <2>4. o <= p * per
    BY <2>1, <2>3
  <2>5. c * o <= c * (p * per) /\ c * o \in Nat /\ c * (p * per) \in Nat
    <3> DEFINE z == p * per
    <3> HIDE DEF z
    <3>1. z \in Nat /\ o <= z
      BY <2>3, <2>4 DEF z
    <3>2. c * o <= c * z /\ c * o \in Nat /\ c * z \in Nat
      BY <2>1, <3>1, TimesGrows, TimesType
    <3> QED
      BY <3>2 DEF z
  <2>6. c * (p * per) = per * (c * p) /\ c * p \in Nat
    <3>1. \A x, y, z \in Nat : x * (y * z) = z * (x * y)
      OBVIOUS
    <3> QED
      BY <1>3, <2>1, <3>1, TimesType
  <2> QED
    BY <2>2, <2>5, <2>6
<1>5. f \in [M -> Int] /\ h \in [M -> Int] /\ \A i \in M : f[i] <= per * h[i]
  BY <1>4
<1>6. SumFunction(h) = SumFunction([p \in DOMAIN page |-> page[p] * p])
  BY SheetBytes
<1>7. Sheets(page)
  <2>1. \A i \in DOMAIN kinds : kinds[i].page_bytes > 0
    BY DEF Own
  <2>2. Shelves(BucketPages(kinds)) /\ DOMAIN BucketPages(kinds) = Buckets(kinds)
    BY <2>1, PagesShelved DEF BucketPages
  <2> QED
    BY <2>2 DEF Shelves
<1>8. w \in Nat
  BY <1>7, WidestType
<1> HIDE DEF M, f, h, page, w
<1>9. SumFunction(h) \in Int /\ SumFunction(h) <= n * w
  BY <1>6, <1>7, SheetsCut DEF w
<1>10. SumFunction(f) <= per * SumFunction(h) /\ SumFunction(f) \in Int
  BY <1>1, <1>3, <1>5, SumCovered, SumType
<1>11. per * SumFunction(h) <= (n * per) * w
  <2> DEFINE s == SumFunction(h)
             z == n * w
  <2>1. z \in Nat
    BY <1>8, TimesType
  <2> HIDE DEF s, z
  <2>2. s \in Int /\ s <= z
    BY <1>9 DEF s, z
  <2>3. per * s <= per * z
    BY <1>3, <2>1, <2>2, TimesGrows
  <2>4. per * z = (n * per) * w
    <3>1. \A x, y, v \in Nat : x * (y * v) = (y * x) * v
      OBVIOUS
    <3> QED
      BY <1>3, <1>8, <3>1 DEF z
  <2> QED
    BY <2>3, <2>4 DEF s
<1>12. per * SumFunction(h) \in Int /\ (n * per) * w \in Int
  BY <1>3, <1>8, <1>9, TimesType
<1>13. SumFunction(f) <= (n * per) * w
  BY <1>10, <1>11, <1>12
<1> QED
  BY <1>3, <1>10, <1>13 DEF f, per, w, page, M

(* A request's blocks in a packed layout hold what its layers keep.        *)
LEMMA PackedCovers ==
  ASSUME NEW kinds, Held(kinds), Layers(kinds), Own(kinds), NEW L \in Nat, NEW F \in Nat,
         PackedBlocks(kinds, L, F) # NotTraced
  PROVE  Kept(kinds, L, F) <= BytesPerSequence(PackedBlocks(kinds, L, F))
<1> DEFINE S == DOMAIN kinds
           pages == BucketPages(kinds)
           V == DOMAIN pages
           repeats == Repeats(pages)
           groups == PackedGroups(pages, repeats, GroupsFor(pages, repeats))
           wides == {Widest(pages[b], groups[b]) : b \in V}
           anchor == Most(wides)
           per(b) == Most({BlocksPerRequest(kinds[i], L, F) : i \in Members(kinds, b)})
           f == [i \in S |-> kinds[i].count * OwnBytes(kinds[i], L, F)]
           key == [i \in S |-> BucketKey(kinds[i])]
           part == [b \in V |-> SumFunction(KeyPart(f, key, b))]
           h == [b \in V |-> groups[b] * per(b)]
<1>1. V = Buckets(kinds) /\ Shelves(pages) /\ repeats \in Nat
  <2>1. \A i \in DOMAIN kinds : kinds[i].page_bytes > 0
    BY DEF Own
  <2>2. Shelves(pages)
    BY <2>1, PagesShelved
  <2> QED
    BY <2>2, RepeatsType DEF BucketPages
<1>2. PackedBlocks(kinds, L, F) = PackedAccount(kinds, L, F, pages, repeats, groups)
  BY DEF PackedBlocks, PackedCut
<1>3. PackedBlocks(kinds, L, F) = Blocks(anchor, Total(h), Total(groups))
  BY <1>2 DEF PackedAccount
<1> HIDE DEF pages, repeats
<1>4. \A b \in V : groups[b] \in Nat \ {0}
  <2>1. \A b \in V : GroupsFor(pages, repeats)[b] \in Nat \ {0}
    BY <1>1, GroupsType
  <2> QED
    BY <1>1, <2>1, CutType
<1> HIDE DEF groups
<1>5. IsFiniteSet(V) /\ V # {}
  BY <1>1 DEF Shelves
<1>6. \A b \in V : Widest(pages[b], groups[b]) \in Nat
  BY <1>1, <1>4, WidestType DEF Shelves
<1>7. anchor \in Nat /\ \A b \in V : Widest(pages[b], groups[b]) <= anchor
  <2> DEFINE g == [b \in V |-> Widest(pages[b], groups[b])]
  <2>1. g \in Surjection(V, wides)
    BY DEF Surjection
  <2>2. IsFiniteSet(wides) /\ wides # {} /\ wides \subseteq Nat /\ \A b \in V : Widest(pages[b], groups[b]) \in wides
    BY <1>5, <1>6, <2>1, FS_Surjection
  <2> HIDE DEF wides
  <2> QED
    BY <2>2, MostNat
<1> HIDE DEF anchor, wides
<1>8. ASSUME NEW b \in V PROVE part[b] \in Int /\ h[b] \in Int /\ part[b] <= anchor * h[b]
  <2> DEFINE M == Members(kinds, b)
             kept == SumFunction([i \in M |-> kinds[i].count * OwnBytes(kinds[i], L, F)])
             n == groups[b]
             w == Widest(pages[b], n)
             p == per(b)
  <2>1. n \in Nat \ {0} /\ w \in Nat /\ w <= anchor /\ b \in Buckets(kinds)
    BY <1>1, <1>4, <1>6, <1>7
  <2>2. kept \in Int /\ p \in Nat /\ kept <= (n * p) * w
    <3> HIDE DEF n
    <3>1. /\ kept \in Int /\ p \in Nat
          /\ kept <= (n * p) * Widest(BucketPages(kinds)[b], n)
      BY <2>1, BucketHolds
    <3> QED
      BY <3>1 DEF pages
  <2>3. part[b] = kept /\ h[b] = n * p
    <3>1. {i \in S : key[i] = b} = M /\ M \subseteq S
      BY DEF Members
    <3>2. KeyPart(f, key, b) = [i \in {i \in S : key[i] = b} |-> f[i]]
      BY DEF KeyPart
    <3>3. KeyPart(f, key, b) = [i \in M |-> kinds[i].count * OwnBytes(kinds[i], L, F)]
      BY <3>1, <3>2
    <3> QED
      BY <3>3
  <2> HIDE DEF kept, n, w, p, part, h
  <2>4. n * p \in Nat
    BY <2>1, <2>2, TimesType
  <2> DEFINE z == n * p
  <2> HIDE DEF z
  <2>5. z * w <= z * anchor /\ z * anchor = anchor * z /\ z * w \in Nat /\ z * anchor \in Nat
    BY <1>7, <2>1, <2>4, TimesGrows, TimesType DEF z
  <2>6. kept <= anchor * z /\ z \in Int
    BY <2>2, <2>4, <2>5 DEF z
  <2> QED
    BY <2>2, <2>3, <2>6 DEF z
<1>9. part \in [V -> Int] /\ h \in [V -> Int] /\ anchor \in Int /\ \A b \in V : part[b] <= anchor * h[b]
  <2>1. DOMAIN part = V /\ DOMAIN h = V /\ part = [b \in V |-> part[b]] /\ h = [b \in V |-> h[b]]
    OBVIOUS
  <2> HIDE DEF part, h
  <2>2. \A b \in V : part[b] \in Int /\ h[b] \in Int /\ part[b] <= anchor * h[b]
    BY <1>8
  <2> QED
    BY <1>7, <2>1, <2>2
<1>10. f \in [S -> Int] /\ IsFiniteSet(S) /\ \A i \in S : key[i] \in V
  BY <1>1, KeptTerms DEF Layers, Buckets
<1>11. Kept(kinds, L, F) = SumFunction(f)
  BY DEF Kept, Total
<1>12. BytesPerSequence(PackedBlocks(kinds, L, F)) = anchor * SumFunction(h)
  BY <1>3 DEF BytesPerSequence, Blocks, Total
<1> HIDE DEF f, key, h, S, V
<1>13. SumFunction(f) = SumFunction(part)
  BY <1>5, <1>10, SumParted
<1> HIDE DEF part
<1>14. SumFunction(part) <= anchor * SumFunction(h)
  BY ONLY <1>5, <1>9, SumCovered
<1> QED
  BY <1>11, <1>12, <1>13, <1>14

-----------------------------------------------------------------------------
(* The uniform layout and GLM5Next's.                                      *)

(* A request's blocks in the uniform layout hold what its layers keep.     *)
LEMMA UniformCovers ==
  ASSUME NEW kinds, Held(kinds), Layers(kinds), Own(kinds), NEW L \in Nat, NEW F \in Nat,
         UniformBlocks(kinds, L) # NotTraced
  PROVE  Kept(kinds, L, F) <= BytesPerSequence(UniformBlocks(kinds, L))
<1> DEFINE S == DOMAIN kinds
           block == kinds[Least(S)].block_size
           n == CeilDiv(L, block)
           f == [i \in S |-> kinds[i].count * OwnBytes(kinds[i], L, F)]
           h == [i \in S |-> kinds[i].count * kinds[i].page_bytes]
<1>1. /\ UniformBlocks(kinds, L) = Blocks(Total(h), n, 1)
      /\ \A i \in S : kinds[i].kind \in {"full", "compressed"} /\ kinds[i].block_size = block
      /\ ~(block <= 0)
  BY DEF UniformBlocks
<1>2. block \in Nat \ {0}
  <2>1. Least(S) \in S
    BY HasLeast DEF Held
  <2>2. block \in Nat
    BY <2>1 DEF Held, Counted
  <2> QED
    BY <1>1, <2>2
<1> HIDE DEF block
<1>3. n \in Nat
  BY <1>2, CeilNat
<1>4. ASSUME NEW i \in S PROVE f[i] \in Int /\ h[i] \in Int /\ f[i] <= n * h[i]
  <2> DEFINE c == kinds[i].count
             p == kinds[i].page_bytes
  <2>1. c \in Nat /\ p \in Nat /\ p > 0
    BY DEF Layers, Layer, Counted, Own
  <2>2. OwnBytes(kinds[i], L, F) = n * p
    BY <1>1, <2>1 DEF OwnBytes
  <2>3. f[i] = c * (n * p) /\ h[i] = c * p
    BY <2>2
  <2> HIDE DEF c, p, f, h, n
  <2>4. c * (n * p) = n * (c * p) /\ c * p \in Nat /\ n * (c * p) \in Nat
    <3>1. \A x, y, z \in Nat : x * (y * z) = y * (x * z)
      OBVIOUS
    <3>2. c * p \in Nat
      BY <2>1, TimesType
    <3> DEFINE z == c * p
    <3> HIDE DEF z
    <3>3. n * z \in Nat
      BY <1>3, <3>2, TimesType DEF z
    <3> QED
      BY <1>3, <2>1, <3>1, <3>2, <3>3 DEF z
  <2> QED
    BY <2>3, <2>4
<1>5. f \in [S -> Int] /\ h \in [S -> Int] /\ n \in Int /\ \A i \in S : f[i] <= n * h[i]
  BY <1>3, <1>4
<1>6. IsFiniteSet(S)
  BY DEF Held
<1>7. Kept(kinds, L, F) = SumFunction(f)
  BY DEF Kept, Total
<1>8. BytesPerSequence(UniformBlocks(kinds, L)) = SumFunction(h) * n
  BY <1>1 DEF BytesPerSequence, Blocks, Total
<1> HIDE DEF f, h, S, n
<1>9. SumFunction(f) <= n * SumFunction(h) /\ SumFunction(h) \in Int
  BY <1>5, <1>6, SumCovered, SumType
<1>10. n * SumFunction(h) = SumFunction(h) * n
  BY <1>3, <1>9
<1> QED
  BY <1>7, <1>8, <1>9, <1>10

(* GLM5Next's four kinds: as many latents as indices and tails, and a tail *)
(* no larger than a latent's and an index's page.                          *)
Tailed(kinds) ==
    \A a, b, c \in DOMAIN kinds :
      kinds[a].kind = "full" /\ kinds[b].kind = "compressed" /\ kinds[c].kind = "tail" =>
        /\ kinds[b].count = kinds[a].count /\ kinds[c].count = kinds[a].count
        /\ kinds[b].block_size = kinds[a].block_size /\ kinds[a].page_bytes > 0 /\ kinds[b].page_bytes > 0
        /\ kinds[c].page_bytes <= kinds[a].page_bytes + kinds[b].page_bytes

\* A sum with one term more.
LEMMA SumExtends ==
  ASSUME NEW S, IsFiniteSet(S), NEW x, x \notin S, NEW T, T = S \cup {x},
         NEW f \in [T -> Int], NEW g \in [S -> Int], \A e \in S : f[e] = g[e]
  PROVE  SumFunction(f) = SumFunction(g) + f[x]
<1>1. f \in [S \cup {x} -> Int]
  OBVIOUS
<1> QED
  BY <1>1, SumGrows

\* Four different elements, and a sum of four terms.
FourOf(S, a, b, c, d) ==
    S = {a, b, c, d} /\ a # b /\ a # c /\ a # d /\ b # c /\ b # d /\ c # d

\* A sum of four terms.
LEMMA SumFour ==
  ASSUME NEW S, NEW a, NEW b, NEW c, NEW d, FourOf(S, a, b, c, d), NEW f \in [S -> Int]
  PROVE  SumFunction(f) = f[a] + f[b] + f[c] + f[d]
<1> USE DEF FourOf
<1> DEFINE A1 == {a}
           A2 == {a, b}
           A3 == {a, b, c}
           A4 == {a, b, c, d}
           f0 == [i \in {} |-> f[i]]
           f1 == [i \in A1 |-> f[i]]
           f2 == [i \in A2 |-> f[i]]
           f3 == [i \in A3 |-> f[i]]
<1>1. A1 = {} \cup {a} /\ A2 = A1 \cup {b} /\ A3 = A2 \cup {c} /\ A4 = A3 \cup {d}
  OBVIOUS
<1>2. a \notin {} /\ b \notin A1 /\ c \notin A2 /\ d \notin A3 /\ a \in A1 /\ b \in A2 /\ c \in A3 /\ d \in A4
  OBVIOUS
<1>3. A1 \subseteq A4 /\ A2 \subseteq A4 /\ A3 \subseteq A4 /\ A1 \subseteq A2 /\ A2 \subseteq A3 /\ f \in [A4 -> Int]
  OBVIOUS
<1> HIDE DEF A1, A2, A3, A4
<1>4. IsFiniteSet({}) /\ IsFiniteSet(A1) /\ IsFiniteSet(A2) /\ IsFiniteSet(A3)
  <2>1. IsFiniteSet({})
    BY FS_EmptySet
  <2>2. IsFiniteSet(A1)
    BY <1>1, <2>1, FS_AddElement
  <2>3. IsFiniteSet(A2)
    BY <1>1, <2>2, FS_AddElement
  <2> QED
    BY <1>1, <2>1, <2>2, <2>3, FS_AddElement
<1>5. f0 \in [{} -> Int] /\ f1 \in [A1 -> Int] /\ f2 \in [A2 -> Int] /\ f3 \in [A3 -> Int]
  BY <1>3
<1>6. /\ f1[a] = f[a] /\ f2[b] = f[b] /\ f3[c] = f[c]
      /\ \A e \in A1 : f2[e] = f1[e]
      /\ \A e \in A2 : f3[e] = f2[e]
      /\ \A e \in A3 : f[e] = f3[e]
      /\ \A e \in {} : f1[e] = f0[e]
  BY <1>2, <1>3
<1>7. f[a] \in Int /\ f[b] \in Int /\ f[c] \in Int /\ f[d] \in Int
  BY <1>2, <1>3
<1> HIDE DEF f0, f1, f2, f3
<1>8. SumFunction(f0) = 0
  BY <1>4, <1>5, SumZero
<1>9. SumFunction(f1) = SumFunction(f0) + f1[a]
  <2>1. IsFiniteSet({}) /\ a \notin {} /\ A1 = {} \cup {a} /\ f1 \in [A1 -> Int] /\ f0 \in [{} -> Int]
        /\ \A e \in {} : f1[e] = f0[e]
    BY <1>1, <1>2, <1>3, <1>4, <1>5, <1>6
  <2> QED
    BY ONLY <2>1, SumExtends, ZenonT(30)
<1>10. SumFunction(f2) = SumFunction(f1) + f2[b]
  <2>1. IsFiniteSet(A1) /\ b \notin A1 /\ A2 = A1 \cup {b} /\ f2 \in [A2 -> Int] /\ f1 \in [A1 -> Int]
        /\ \A e \in A1 : f2[e] = f1[e]
    BY <1>1, <1>2, <1>3, <1>4, <1>5, <1>6
  <2> QED
    BY ONLY <2>1, SumExtends, ZenonT(30)
<1>11. SumFunction(f3) = SumFunction(f2) + f3[c]
  <2>1. IsFiniteSet(A2) /\ c \notin A2 /\ A3 = A2 \cup {c} /\ f3 \in [A3 -> Int] /\ f2 \in [A2 -> Int]
        /\ \A e \in A2 : f3[e] = f2[e]
    BY <1>1, <1>2, <1>3, <1>4, <1>5, <1>6
  <2> QED
    BY ONLY <2>1, SumExtends, ZenonT(30)
<1>12. SumFunction(f) = SumFunction(f3) + f[d]
  <2>1. IsFiniteSet(A3) /\ d \notin A3 /\ A4 = A3 \cup {d} /\ f \in [A4 -> Int] /\ f3 \in [A3 -> Int]
        /\ \A e \in A3 : f[e] = f3[e]
    BY <1>1, <1>2, <1>3, <1>4, <1>5, <1>6
  <2> QED
    BY ONLY <2>1, SumExtends, ZenonT(30)
<1> QED
  BY <1>6, <1>7, <1>8, <1>9, <1>10, <1>11, <1>12

\* Four different elements are a set of four.
LEMMA FourElements ==
  ASSUME NEW a, NEW b, NEW c, NEW d, a # b, a # c, a # d, b # c, b # d, c # d
  PROVE  IsFiniteSet({a, b, c, d}) /\ Cardinality({a, b, c, d}) = 4
<1> DEFINE A1 == {a}
           A2 == {a, b}
           A3 == {a, b, c}
           A4 == {a, b, c, d}
<1>1. A2 = A1 \cup {b} /\ A3 = A2 \cup {c} /\ A4 = A3 \cup {d}
  OBVIOUS
<1>2. b \notin A1 /\ c \notin A2 /\ d \notin A3
  OBVIOUS
<1>3. IsFiniteSet(A1) /\ Cardinality(A1) = 1
  BY FS_Singleton
<1> HIDE DEF A1, A2, A3, A4
<1>4. IsFiniteSet(A2) /\ Cardinality(A2) = 2
  BY <1>1, <1>2, <1>3, FS_AddElement
<1>5. IsFiniteSet(A3) /\ Cardinality(A3) = 3
  BY <1>1, <1>2, <1>4, FS_AddElement
<1>6. IsFiniteSet(A4) /\ Cardinality(A4) = 4
  BY <1>1, <1>2, <1>5, FS_AddElement
<1> QED
  BY <1>6 DEF A4

\* The one kind of a name among four kinds of different names.
FourNames(kinds) ==
    Cardinality(DOMAIN kinds) = 4 /\ {kinds[i].kind : i \in DOMAIN kinds} = {"compressed", "full", "state", "tail"}
\* Those four, by their kind.
Named(kinds, a, b, c, d) ==
    /\ kinds[a].kind = "full" /\ kinds[b].kind = "compressed" /\ kinds[c].kind = "tail" /\ kinds[d].kind = "state"
    /\ FourOf(DOMAIN kinds, a, b, c, d)

\* There is one of each.
LEMMA OneOfFour ==
  ASSUME NEW kinds, Held(kinds), FourNames(kinds)
  PROVE  \E a, b, c, d \in DOMAIN kinds : Named(kinds, a, b, c, d)
<1> USE DEF FourNames
<1> DEFINE S == DOMAIN kinds
<1>1. "full" \in {kinds[i].kind : i \in S} /\ "compressed" \in {kinds[i].kind : i \in S}
      /\ "tail" \in {kinds[i].kind : i \in S} /\ "state" \in {kinds[i].kind : i \in S}
  OBVIOUS
<1>2. PICK a \in S : kinds[a].kind = "full"
  BY <1>1
<1>3. PICK b \in S : kinds[b].kind = "compressed"
  BY <1>1
<1>4. PICK c \in S : kinds[c].kind = "tail"
  BY <1>1
<1>5. PICK d \in S : kinds[d].kind = "state"
  BY <1>1
<1>6. a # b /\ a # c /\ a # d /\ b # c /\ b # d /\ c # d
  BY <1>2, <1>3, <1>4, <1>5
<1>7. Cardinality({a, b, c, d}) = 4
  BY <1>6, FourElements
<1>8. {a, b, c, d} \in SUBSET S /\ IsFiniteSet(S) /\ Cardinality(S) = 4
  BY DEF Held
<1> HIDE DEF S
<1>9. S = {a, b, c, d}
  BY <1>7, <1>8, FS_Subset
<1> QED
  BY <1>2, <1>3, <1>4, <1>5, <1>6, <1>9 DEF S, Named, FourOf

\* The bytes of latents, indices, tails and states fit the blocks of the
\* layout, term by term.
LEMMA FourTermsFit ==
  ASSUME NEW nf \in Nat, NEW ns \in Nat, NEW n \in Nat, NEW g \in Nat, NEW pf \in Nat, NEW pc \in Nat,
         NEW pt \in Nat, NEW st \in Nat, ns <= g * nf, pt <= pf + pc, st <= pf
  PROVE  nf * (n * pf) + nf * (n * pc) + nf * pt + ns * (2 * st)
         <= (nf * pf + nf * pc) * (n + 2 * g + 1)
<1> DEFINE X == nf * pf + nf * pc
<1>1. nf * pf \in Nat /\ nf * pc \in Nat
  BY TimesType
<1>2. X \in Nat
  BY <1>1
<1>3. nf * (n * pf) = n * (nf * pf) /\ nf * (n * pc) = n * (nf * pc)
  <2>1. \A x, y, z \in Nat : x * (y * z) = y * (x * z)
    OBVIOUS
  <2> QED
    BY <2>1
<1>4. n * X = n * (nf * pf) + n * (nf * pc)
  <2>1. \A x, y, z \in Nat : x * (y + z) = x * y + x * z
    OBVIOUS
  <2> QED
    BY <1>1, <2>1
<1>5. nf * pt <= X /\ nf * pt \in Nat
  <2>1. pf + pc \in Nat /\ nf * (pf + pc) = X
    OBVIOUS
  <2> DEFINE p == pf + pc
  <2> HIDE DEF p, X
  <2>2. nf * pt <= nf * p /\ nf * pt \in Nat
    BY <2>1, ProductGrows DEF p
  <2> QED
    BY <2>1, <2>2 DEF p
<1>6. ns * (2 * st) <= (2 * g) * X /\ ns * (2 * st) \in Nat /\ (2 * g) * X \in Nat
  <2>1. g * nf \in Nat /\ 2 * st \in Nat /\ 2 * pf \in Nat /\ 2 * st <= 2 * pf
    BY TimesType
  <2> DEFINE gn == g * nf
             s2 == 2 * st
             p2 == 2 * pf
  <2> HIDE DEF gn, s2, p2, X
  <2>2. ns * s2 <= gn * p2 /\ ns * s2 \in Nat /\ gn * p2 \in Nat
    BY <2>1, ProductGrows DEF gn, s2, p2
  <2>3. gn * p2 = (2 * g) * (nf * pf)
    <3>1. (g * nf) * (2 * pf) = (g * 2) * (nf * pf)
      BY Regroup
    <3>2. g * 2 = 2 * g
      OBVIOUS
    <3> QED
      BY <3>1, <3>2 DEF gn, p2
  <2>4. nf * pf <= X
    BY <1>1 DEF X
  <2> DEFINE x1 == nf * pf
             g2 == 2 * g
  <2>5. x1 \in Nat /\ g2 \in Nat /\ x1 <= X
    BY <1>1, <2>4
  <2> HIDE DEF x1, g2
  <2>6. g2 * x1 <= g2 * X /\ g2 * X \in Nat
    BY <1>2, <2>5, ProductGrows
  <2> QED
    BY <2>2, <2>3, <2>6 DEF x1, g2, s2
<1>7. X * (n + 2 * g + 1) = n * X + (2 * g) * X + X
  <2> HIDE DEF X
  <2>1. \A x, y, z \in Nat : x * (y + z + 1) = y * x + z * x + x
    OBVIOUS
  <2>2. 2 * g \in Nat
    OBVIOUS
  <2> QED
    BY <1>2, <2>1, <2>2
<1>8. n * X \in Nat /\ n * (nf * pf) \in Nat /\ n * (nf * pc) \in Nat
  BY <1>1, <1>2, TimesType
<1> DEFINE lhs == nf * (n * pf) + nf * (n * pc)
           t3 == nf * pt
           t4 == ns * (2 * st)
           r1 == n * X
           r2 == (2 * g) * X
<1>9. lhs = r1
  BY <1>3, <1>4
<1>10. t3 \in Nat /\ t4 \in Nat /\ r1 \in Nat /\ r2 \in Nat /\ t3 <= X /\ t4 <= r2
  BY <1>5, <1>6, <1>8
<1>11. X * (n + 2 * g + 1) = r1 + r2 + X
  BY <1>7
<1> HIDE DEF X, lhs, t3, t4, r1, r2
<1>12. lhs + t3 + t4 <= r1 + r2 + X
  BY <1>2, <1>9, <1>10
<1> QED
  BY <1>11, <1>12 DEF lhs, t3, t4, X

(* A request's blocks in GLM5Next's layout hold what its layers keep: each *)
(* tail fits a latent's and an index's page, each state one of the state   *)
(* groups' pages.                                                          *)
LEMMA Glm5Covers ==
  ASSUME NEW kinds, Held(kinds), Layers(kinds), Tailed(kinds), NEW L \in Nat, NEW F \in Nat,
         Glm5NextBlocks(kinds, L) # NotTraced
  PROVE  Kept(kinds, L, F) <= BytesPerSequence(Glm5NextBlocks(kinds, L))
<1> DEFINE of(k) == kinds[CHOOSE i \in DOMAIN kinds : kinds[i].kind = k]
           sg == CeilDiv(of("state").count, of("full").count)
           f == [i \in DOMAIN kinds |-> kinds[i].count * OwnBytes(kinds[i], L, F)]
<1>1. /\ Cardinality(DOMAIN kinds) = 4 /\ {kinds[i].kind : i \in DOMAIN kinds} = {"compressed", "full", "state", "tail"}
      /\ ~(of("state").state_bytes > of("full").page_bytes)
      /\ Glm5NextBlocks(kinds, L) =
           Blocks(of("full").count * of("full").page_bytes + of("compressed").count * of("compressed").page_bytes,
                  CeilDiv(L, of("full").block_size) + StateBlocks * sg + 1, 2 + sg)
  <2> HIDE DEF of
  <2> QED
    BY DEF Glm5NextBlocks, of
<1>2. PICK a, b, c, d \in DOMAIN kinds : Named(kinds, a, b, c, d)
  BY <1>1, OneOfFour DEF FourNames
<1> USE DEF Named
<1>3. of("full") = kinds[a] /\ of("compressed") = kinds[b] /\ of("state") = kinds[d]
  <2>1. \A i \in DOMAIN kinds : (kinds[i].kind = "full" => i = a) /\ (kinds[i].kind = "compressed" => i = b)
                                /\ (kinds[i].kind = "state" => i = d)
    BY <1>2 DEF FourOf
  <2>2. (CHOOSE i \in DOMAIN kinds : kinds[i].kind = "full") = a
    BY <1>2, <2>1
  <2>3. (CHOOSE i \in DOMAIN kinds : kinds[i].kind = "compressed") = b
    BY <1>2, <2>1
  <2>4. (CHOOSE i \in DOMAIN kinds : kinds[i].kind = "state") = d
    BY <1>2, <2>1
  <2> QED
    BY <2>2, <2>3, <2>4
<1> DEFINE nf == kinds[a].count
           ns == kinds[d].count
           pf == kinds[a].page_bytes
           pc == kinds[b].page_bytes
           pt == kinds[c].page_bytes
           st == kinds[d].state_bytes
           n == CeilDiv(L, kinds[a].block_size)
<1>4. /\ nf \in Nat \ {0} /\ ns \in Nat \ {0} /\ pf \in Nat \ {0} /\ pc \in Nat \ {0} /\ pt \in Nat /\ st \in Nat
      /\ kinds[a].block_size \in Nat \ {0}
      /\ kinds[b].count = nf /\ kinds[c].count = nf /\ kinds[b].block_size = kinds[a].block_size /\ pt <= pf + pc
  <2>1. Counted(kinds[a]) /\ Counted(kinds[b]) /\ Counted(kinds[c]) /\ Counted(kinds[d])
        /\ kinds[a].count > 0 /\ kinds[d].count > 0
    BY <1>2 DEF Held
  <2>2. kinds[b].count = nf /\ kinds[c].count = nf /\ kinds[b].block_size = kinds[a].block_size /\ pt <= pf + pc
        /\ pf > 0 /\ pc > 0
    BY <1>2 DEF Tailed
  <2>3. kinds[a].block_size > 0
    BY <1>2, <2>2 DEF Layers, Layer
  <2> QED
    BY <2>1, <2>2, <2>3 DEF Counted
<1>5. n \in Nat
  BY <1>4, CeilNat
<1>6. sg \in Nat /\ ns <= sg * nf
  BY <1>3, <1>4, CeilHolds
<1>7. /\ OwnBytes(kinds[a], L, F) = n * pf /\ OwnBytes(kinds[b], L, F) = n * pc
      /\ OwnBytes(kinds[c], L, F) = pt /\ OwnBytes(kinds[d], L, F) = 2 * st
  <2>1. OwnBytes(kinds[a], L, F) = n * pf
    BY <1>2, <1>4 DEF OwnBytes
  <2>2. OwnBytes(kinds[b], L, F) = n * pc
    BY <1>2, <1>4 DEF OwnBytes
  <2>3. OwnBytes(kinds[c], L, F) = pt /\ OwnBytes(kinds[d], L, F) = 2 * st
    BY <1>2 DEF OwnBytes, StateBlocks
  <2> QED
    BY <2>1, <2>2, <2>3
<1>8. f[a] = nf * (n * pf) /\ f[b] = nf * (n * pc) /\ f[c] = nf * pt /\ f[d] = ns * (2 * st)
  BY <1>2, <1>4, <1>7
<1>9. Kept(kinds, L, F) = SumFunction(f) /\ f \in [DOMAIN kinds -> Int]
  BY KeptTerms DEF Kept, Total
<1>10. BytesPerSequence(Glm5NextBlocks(kinds, L)) = (nf * pf + nf * pc) * (n + 2 * sg + 1)
  <2>1. BytesPerSequence(Glm5NextBlocks(kinds, L)) = (nf * pf + kinds[b].count * pc) * (n + StateBlocks * sg + 1)
    BY <1>1, <1>3 DEF BytesPerSequence, Blocks
  <2> QED
    BY <1>4, <2>1 DEF StateBlocks
<1>11. SumFunction(f) = f[a] + f[b] + f[c] + f[d]
  <2> HIDE DEF f
  <2> QED
    BY <1>2, <1>9, SumFour
<1>12. st <= pf
  BY <1>1, <1>3, <1>4
<1> HIDE DEF nf, ns, pf, pc, pt, st, n, sg, f, of
<1>13. nf * (n * pf) + nf * (n * pc) + nf * pt + ns * (2 * st) <= (nf * pf + nf * pc) * (n + 2 * sg + 1)
  BY <1>4, <1>5, <1>6, <1>12, FourTermsFit
<1> QED
  BY <1>8, <1>9, <1>10, <1>11, <1>13

-----------------------------------------------------------------------------
(* The blocks of any layout.                                               *)

\* Kinds of which a layout's blocks hold what the layers keep.
Bookable(kinds, layout) ==
    /\ Layers(kinds) /\ Traced(kinds, layout)
    /\ layout = "grouped" => Shared(kinds)
    /\ layout \in {"packed", "uniform"} => Own(kinds)
    /\ layout = "glm5_next" => Tailed(kinds)

\* Leaving out kinds without layers leaves the layout's kinds as they are.
LEMMA BookableHeld ==
  ASSUME NEW all, NEW layout, Bookable(all, layout), NEW kinds, NEW held \in SUBSET DOMAIN all,
         DOMAIN kinds = held, \A i \in held : kinds[i] = all[i] /\ all[i].count > 0, held # {}
  PROVE  /\ Held(kinds)
         /\ layout = "grouped" => Shared(kinds) /\ Sized(kinds)
         /\ layout \in {"packed", "uniform"} => Own(kinds)
         /\ layout = "glm5_next" => Tailed(kinds)
<1>1. Held(kinds)
  <2>1. IsFiniteSet(held) /\ held \subseteq Nat
    BY FS_Subset DEF Bookable, Traced
  <2> QED
    BY <2>1 DEF Held, Bookable, Traced
<1>2. layout = "grouped" => Shared(kinds) /\ Sized(kinds)
  BY DEF Bookable, Traced, Shared, Sized
<1>3. layout \in {"packed", "uniform"} => Own(kinds)
  BY DEF Bookable, Own
<1>4. layout = "glm5_next" => Tailed(kinds)
  <2> SUFFICES ASSUME layout = "glm5_next", NEW a \in DOMAIN kinds, NEW b \in DOMAIN kinds, NEW c \in DOMAIN kinds,
                      kinds[a].kind = "full", kinds[b].kind = "compressed", kinds[c].kind = "tail"
               PROVE  /\ kinds[b].count = kinds[a].count /\ kinds[c].count = kinds[a].count
                      /\ kinds[b].block_size = kinds[a].block_size /\ kinds[a].page_bytes > 0 /\ kinds[b].page_bytes > 0
                      /\ kinds[c].page_bytes <= kinds[a].page_bytes + kinds[b].page_bytes
    BY DEF Tailed
  <2>1. kinds[a] = all[a] /\ kinds[b] = all[b] /\ kinds[c] = all[c] /\ a \in DOMAIN all /\ b \in DOMAIN all /\ c \in DOMAIN all
    OBVIOUS
  <2>2. Tailed(all)
    BY DEF Bookable
  <2> QED
    BY <2>1, <2>2 DEF Tailed
<1> QED
  BY <1>1, <1>2, <1>3, <1>4

(* The blocks of any layout hold what the layers keep.                     *)
LEMMA AccountCovers ==
  ASSUME NEW all, NEW layout \in {"grouped", "packed", "glm5_next", "uniform"}, Bookable(all, layout),
         NEW L \in Nat, NEW F \in Nat, BlockAccounting(all, L, F, layout) # NotTraced
  PROVE  Kept(all, L, F) <= BytesPerSequence(BlockAccounting(all, L, F, layout))
<1> DEFINE held == {i \in DOMAIN all : all[i].count > 0}
           kinds == Restrict(all, held)
<1>1. DOMAIN kinds = held /\ \A i \in held : kinds[i] = all[i] /\ all[i].count > 0
  BY DEF Restrict
<1>2. held # {}
  <2>1. held = {} => BlockAccounting(all, L, F, layout) = NotTraced
    BY <1>1 DEF BlockAccounting
  <2> QED
    BY <2>1
<1>3. held \in SUBSET DOMAIN all
  OBVIOUS
<1>4. Layers(kinds) /\ Kept(all, L, F) = Kept(kinds, L, F)
  BY KeptHeld DEF Bookable
<1>5. BlockAccounting(all, L, F, layout) =
          CASE layout = "grouped" -> GroupedBlocks(kinds, L, F)
            [] layout = "packed" -> PackedBlocks(kinds, L, F)
            [] layout = "glm5_next" -> Glm5NextBlocks(kinds, L)
            [] layout = "uniform" -> UniformBlocks(kinds, L)
  BY <1>1, <1>2 DEF BlockAccounting
<1> HIDE DEF kinds, held
<1>6. /\ Held(kinds)
      /\ layout = "grouped" => Shared(kinds) /\ Sized(kinds)
      /\ layout \in {"packed", "uniform"} => Own(kinds)
      /\ layout = "glm5_next" => Tailed(kinds)
  BY <1>1, <1>2, <1>3, BookableHeld
<1>7. CASE layout = "grouped"
  BY <1>4, <1>5, <1>6, <1>7, GroupedCovers
<1>8. CASE layout = "packed"
  BY <1>4, <1>5, <1>6, <1>8, PackedCovers
<1>9. CASE layout = "glm5_next"
  BY <1>4, <1>5, <1>6, <1>9, Glm5Covers
<1>10. CASE layout = "uniform"
  BY <1>4, <1>5, <1>6, <1>10, UniformCovers
<1> QED
  BY <1>7, <1>8, <1>9, <1>10

-----------------------------------------------------------------------------
(* The kinds of every family can be booked in its layout.                  *)

\* A kind as a layer of its layout.
Fit(k, layout) ==
    /\ Layer(k)
    /\ layout = "grouped" => /\ k.kind \in {"full", "sliding", "state"} /\ k.page_bytes = 0
                             /\ k.kind # "state" => k.bytes_per_token > 0
    /\ layout \in {"packed", "uniform"} => k.page_bytes > 0 /\ k.state_bytes <= k.page_bytes

\* A list of such kinds, on a layout other than GLM5Next's.
LEMMA FitsBook ==
  ASSUME NEW kinds, NEW layout, layout # "glm5_next", IsFiniteSet(DOMAIN kinds), DOMAIN kinds \subseteq Nat,
         \A i \in DOMAIN kinds : Fit(kinds[i], layout)
  PROVE  Bookable(kinds, layout)
<1>1. Layers(kinds)
  BY DEF Layers, Fit
<1>2. Traced(kinds, layout)
  BY DEF Traced, Fit, Layer, Sized
<1>3. layout = "grouped" => Shared(kinds)
  BY DEF Shared, Fit
<1>4. layout \in {"packed", "uniform"} => Own(kinds)
  BY DEF Own, Fit
<1> QED
  BY <1>1, <1>2, <1>3, <1>4 DEF Bookable

\* No kinds book nothing.
LEMMA NoneBooks == ASSUME NEW layout PROVE Bookable(<<>>, layout)
<1>1. DOMAIN <<>> = {} /\ IsFiniteSet(DOMAIN <<>>)
  BY FS_EmptySet
<1> QED
  BY <1>1 DEF Bookable, Layers, Traced, Sized, Shared, Own, Tailed

\* Two kinds.
LEMMA TwoBook ==
  ASSUME NEW a, NEW b, NEW layout, layout # "glm5_next", Fit(a, layout), Fit(b, layout)
  PROVE  Bookable(<<a, b>>, layout)
<1> DEFINE kinds == <<a, b>>
<1>1. DOMAIN kinds = 1 .. 2 /\ \A i \in DOMAIN kinds : kinds[i] \in {a, b}
  OBVIOUS
<1> HIDE DEF kinds
<1>2. IsFiniteSet(DOMAIN kinds) /\ DOMAIN kinds \subseteq Nat
  <2>1. 2 \in Nat
    OBVIOUS
  <2> QED
    BY <1>1, <2>1, PlacesOf
<1>3. \A i \in DOMAIN kinds : Fit(kinds[i], layout)
  BY <1>1
<1>4. Bookable(kinds, layout)
  BY <1>2, <1>3, FitsBook
<1> QED
  BY <1>4 DEF kinds

\* Attention without pages of its own, with and without a window, and states.
LEMMA AttentionFits ==
  ASSUME NEW n \in Nat, NEW b \in Nat \ {0}
  PROVE  /\ Fit(Attention("full", n, b), "grouped")
         /\ \A w \in Nat \ {0} : Fit([Attention("sliding", n, b) EXCEPT !.window = w], "grouped")
<1>1. Fit(Attention("full", n, b), "grouped")
  BY DEF Fit, Layer, Counted, Attention, LayerKind
<1>2. ASSUME NEW w \in Nat \ {0} PROVE Fit([Attention("sliding", n, b) EXCEPT !.window = w], "grouped")
  BY DEF Fit, Layer, Counted, Attention, LayerKind
<1> QED
  BY <1>1, <1>2

\* States without a page of their own.
LEMMA StatesFit ==
  ASSUME NEW n \in Nat, NEW s \in Nat PROVE Fit(StateLayers(n, s), "grouped")
  BY DEF Fit, Layer, Counted, StateLayers, LayerKind

\* Attention with pages of its own.
LEMMA PagedFits ==
  ASSUME NEW kind, kind # "sliding", NEW n \in Nat, NEW block \in Nat \ {0}, NEW page \in Nat \ {0},
         NEW layout \in {"packed", "uniform"}
  PROVE  /\ Fit(Paged(kind, n, block, page), layout)
         /\ \A b \in Nat : Fit([Paged(kind, n, block, page) EXCEPT !.bytes_per_token = b], layout)
<1>1. Fit(Paged(kind, n, block, page), layout)
  BY DEF Fit, Layer, Counted, Paged, LayerKind
<1>2. ASSUME NEW b \in Nat PROVE Fit([Paged(kind, n, block, page) EXCEPT !.bytes_per_token = b], layout)
  BY DEF Fit, Layer, Counted, Paged, LayerKind
<1> QED
  BY <1>1, <1>2

\* Pages of layers with a window.
Windowed(n, w, block, page) == [Paged("sliding", n, block, page) EXCEPT !.window = w]

\* They fit a packed layout.
LEMMA SlidingFits ==
  ASSUME NEW n \in Nat, NEW block \in Nat \ {0}, NEW page \in Nat \ {0}, NEW w \in Nat \ {0}
  PROVE  Fit(Windowed(n, w, block, page), "packed")
  BY DEF Fit, Layer, Counted, Paged, LayerKind, Windowed

\* Rounding up keeps what is positive positive.
LEMMA RoundPositive ==
  ASSUME NEW a \in Nat \ {0}, NEW b \in Nat \ {0} PROVE RoundUp(a, b) \in Nat \ {0}
<1>1. RoundUp(a, b) \in Nat /\ RoundUp(a, b) >= a
  BY RoundType, RoundHolds
<1> QED
  BY <1>1

\* An indexer's row has bytes.
LEMMA IndexRowPositive == ASSUME NEW dim \in Nat \ {0} PROVE IndexRow(dim) \in Nat \ {0}
  BY DEF IndexRow

-----------------------------------------------------------------------------
\* Gemma4's kinds.
LEMMA Gemma4Books ==
  ASSUME NEW c, WellFormed(c), NEW x, Rank(x), Family(c) = "gemma4"
  PROVE  Bookable(Gemma4Kinds(c, x), "grouped")
<1> DEFINE dim == Field(c, "global_head_dim", c.head_dim)
           heads == IF Declares(c, {"attention_k_eq_v"})
                    THEN Field(c, "num_global_key_value_heads", c.num_key_value_heads)
                    ELSE c.num_key_value_heads
           j == LayersOf(c, "full_attention")
           k == LayersOf(c, "sliding_attention")
           b1 == KvPerToken(heads, dim, x)
           b2 == KvPerToken(c.num_key_value_heads, c.head_dim, x)
<1>1. Gemma4Kinds(c, x) = IF Declares(c, {"num_kv_shared_layers"}) THEN <<>>
        ELSE <<Attention("full", j, b1), [Attention("sliding", k, b2) EXCEPT !.window = c.sliding_window]>>
  BY DEF Gemma4Kinds
<1>2. CASE Declares(c, {"num_kv_shared_layers"})
  BY <1>1, <1>2, NoneBooks
<1>3. CASE ~Declares(c, {"num_kv_shared_layers"})
  <2>1. WindowFields \subseteq DOMAIN c
    BY <1>3 DEF WellFormed, Declares
  <2>2. c.num_key_value_heads \in Nat \ {0} /\ c.head_dim \in Nat \ {0} /\ c.sliding_window \in Nat \ {0}
    BY <2>1, NumberField DEF NumberFields, WindowFields
  <2>3. dim \in Nat \ {0} /\ heads \in Nat \ {0}
    BY <2>2, NumberField DEF Field, NumberFields
  <2>4. b1 \in Nat \ {0} /\ b2 \in Nat \ {0}
    BY <2>2, <2>3, PerTokenType
  <2>5. j \in Nat /\ k \in Nat
    BY LayersType
  <2> HIDE DEF b1, b2, j, k
  <2>6. Fit(Attention("full", j, b1), "grouped")
    BY <2>4, <2>5, AttentionFits
  <2>7. Fit([Attention("sliding", k, b2) EXCEPT !.window = c.sliding_window], "grouped")
    BY <2>2, <2>4, <2>5, AttentionFits
  <2> QED
    BY <1>1, <1>3, <2>6, <2>7, TwoBook
<1> QED
  BY <1>2, <1>3

\* Muse Glimmer's kinds.
LEMMA MixedBooks ==
  ASSUME NEW c, WellFormed(c), NEW x, Rank(x), Family(c) = "mixed_sliding"
  PROVE  Bookable(MixedSlidingKinds(c, x), "grouped")
<1> DEFINE j == LayersOf(c, "full_attention")
           k == LayersOf(c, "sliding_attention")
           b == KvPerToken(c.num_key_value_heads, c.head_dim, x)
<1>1. MixedSlidingKinds(c, x) =
        <<Attention("full", j, b), [Attention("sliding", k, b) EXCEPT !.window = c.sliding_window]>>
  BY DEF MixedSlidingKinds
<1>2. WindowFields \subseteq DOMAIN c
  BY DEF WellFormed, FieldsRead
<1>3. c.num_key_value_heads \in Nat \ {0} /\ c.head_dim \in Nat \ {0} /\ c.sliding_window \in Nat \ {0}
  BY <1>2, NumberField DEF NumberFields, WindowFields
<1>4. b \in Nat \ {0} /\ j \in Nat /\ k \in Nat
  BY <1>3, PerTokenType, LayersType
<1> HIDE DEF b, j, k
<1>5. Fit(Attention("full", j, b), "grouped")
  BY <1>4, AttentionFits
<1>6. Fit([Attention("sliding", k, b) EXCEPT !.window = c.sliding_window], "grouped")
  BY <1>3, <1>4, AttentionFits
<1> QED
  BY <1>1, <1>5, <1>6, TwoBook

\* Attention beside states.
LEMMA TracedBooks ==
  ASSUME NEW n, NEW b, NEW k, NEW s, Traced(<<Attention("full", n, b), StateLayers(k, s)>>, "grouped")
  PROVE  Bookable(<<Attention("full", n, b), StateLayers(k, s)>>, "grouped")
<1> DEFINE kinds == <<Attention("full", n, b), StateLayers(k, s)>>
<1>1. 1 \in DOMAIN kinds /\ 2 \in DOMAIN kinds /\ kinds[1] = Attention("full", n, b) /\ kinds[2] = StateLayers(k, s)
  OBVIOUS
<1>2. Counted(kinds[1]) /\ Counted(kinds[2]) /\ (kinds[1].kind # "state" => kinds[1].bytes_per_token > 0)
  BY <1>1 DEF Traced, Sized
<1>3. n \in Nat /\ b \in Nat /\ b > 0 /\ k \in Nat /\ s \in Nat
  <2> HIDE DEF kinds
  <2>1. /\ Attention("full", n, b).count = n /\ Attention("full", n, b).bytes_per_token = b
        /\ Attention("full", n, b).kind = "full"
        /\ StateLayers(k, s).count = k /\ StateLayers(k, s).state_bytes = s
    BY DEF Attention, StateLayers, LayerKind
  <2> QED
    BY <1>1, <1>2, <2>1 DEF Counted
<1>4. Fit(Attention("full", n, b), "grouped") /\ Fit(StateLayers(k, s), "grouped")
  BY <1>3, AttentionFits, StatesFit
<1> QED
  BY <1>4, TwoBook

\* Qwen3.5's and Nemotron-H's kinds.
LEMMA Qwen35Books ==
  ASSUME NEW c, WellFormed(c), NEW x, Rank(x), Family(c) = "qwen3_5"
  PROVE  Bookable(Qwen35Kinds(c, x), "grouped")
<1>1. \E n, b, k, s : Qwen35Kinds(c, x) = <<Attention("full", n, b), StateLayers(k, s)>>
  BY DEF Qwen35Kinds
<1> QED
  BY <1>1, Qwen35Traced, TracedBooks

\* Nemotron-H's kinds.
LEMMA NemotronBooks ==
  ASSUME NEW c, WellFormed(c), NEW x, Rank(x), Family(c) = "nemotron_h"
  PROVE  Bookable(NemotronKinds(c, x), "grouped")
<1>1. \E n, b, k, s : NemotronKinds(c, x) = <<Attention("full", n, b), StateLayers(k, s)>>
  BY DEF NemotronKinds
<1> QED
  BY <1>1, NemotronTraced, TracedBooks

\* GLM-5.x's kinds.
LEMMA GlmMoeDsaBooks ==
  ASSUME NEW c, WellFormed(c), NEW x, Rank(x), Family(c) = "glm_moe_dsa"
  PROVE  Bookable(GlmMoeDsaKinds(c, x), "uniform")
<1> DEFINE n == c.num_hidden_layers
           own == Cardinality(DsaIndexerLayers(c))
           b == (c.kv_lora_rank + c.qk_rope_head_dim) * x.kv_bytes
           k1 == [Paged("full", n, 64, 64 * b) EXCEPT !.bytes_per_token = b]
           k2 == Paged("compressed", own, 64, 64 * IndexRow(c.index_head_dim))
<1>1. GlmMoeDsaKinds(c, x) \in {<<>>, <<k1, k2>>}
  BY DEF GlmMoeDsaKinds
<1>2. {"kv_lora_rank", "qk_rope_head_dim", "index_head_dim", "num_hidden_layers"} \subseteq DOMAIN c
  <2>1. {"kv_lora_rank", "qk_rope_head_dim", "index_head_dim"} \subseteq DOMAIN c
    BY DEF Family, Declares
  <2>2. "num_hidden_layers" \in DOMAIN c
    BY DEF WellFormed, FieldsRead
  <2> QED
    BY <2>1, <2>2
<1>3. c.kv_lora_rank \in Nat \ {0} /\ c.qk_rope_head_dim \in Nat \ {0} /\ c.index_head_dim \in Nat \ {0} /\ n \in Nat \ {0}
  BY <1>2, NumberField DEF NumberFields
<1>4. b \in Nat \ {0}
  <2>1. c.kv_lora_rank + c.qk_rope_head_dim \in Nat \ {0}
    BY <1>3
  <2> QED
    BY <2>1, TimesType DEF Rank
<1>5. own \in Nat
  <2>1. DsaIndexerLayers(c) \in SUBSET (0 .. n - 1)
    BY DEF DsaIndexerLayers
  <2>2. IsFiniteSet(0 .. n - 1)
    BY <1>3, FS_Interval
  <2>3. IsFiniteSet(DsaIndexerLayers(c))
    BY <2>1, <2>2, FS_Subset
  <2> QED
    BY <2>3, FS_CardinalityType
<1>6. IndexRow(c.index_head_dim) \in Nat \ {0}
  BY <1>3, IndexRowPositive
<1> DEFINE p1 == 64 * b
           p2 == 64 * IndexRow(c.index_head_dim)
<1> HIDE DEF b, own
<1>7. p1 \in Nat \ {0} /\ p2 \in Nat \ {0}
  BY <1>4, <1>6
<1>8. Fit(k1, "uniform") /\ Fit(k2, "uniform")
  <2> HIDE DEF n, p1, p2
  <2>1. Fit([Paged("full", n, 64, p1) EXCEPT !.bytes_per_token = b], "uniform")
    BY <1>3, <1>4, <1>7, PagedFits
  <2>2. Fit(Paged("compressed", own, 64, p2), "uniform")
    BY <1>5, <1>7, PagedFits
  <2> QED
    BY <2>1, <2>2 DEF p1, p2
<1> HIDE DEF k1, k2
<1>9. Bookable(<<k1, k2>>, "uniform")
  BY <1>8, TwoBook
<1> QED
  BY <1>1, <1>9, NoneBooks

\* MiniMax-M3's kinds.
LEMMA MinimaxBooks ==
  ASSUME NEW c, WellFormed(c), NEW x, Rank(x), Family(c) = "minimax_m3"
  PROVE  Bookable(MinimaxKinds(c, x), "uniform")
<1> DEFINE n == c.num_hidden_layers
           sparse == c.sparse_attention_config
           freq == sparse.sparse_attention_freq
           own == MinimaxSparseLayers(c)
           b == KvPerToken(c.num_key_value_heads, c.head_dim, x)
           k1 == [Paged("full", n, 128, 128 * b) EXCEPT !.bytes_per_token = b]
           k2 == Paged("compressed", own, 128, 256 * sparse.sparse_index_dim)
<1>1. MinimaxKinds(c, x) \in {<<>>, <<k1, k2>>}
  BY DEF MinimaxKinds
<1>2. own >= 0
  BY DEF Family
<1>3. /\ {"sparse_attention_config", "num_hidden_layers", "num_key_value_heads", "head_dim"} \subseteq DOMAIN c
      /\ {"sparse_attention_freq", "sparse_index_dim"} \subseteq DOMAIN sparse
      /\ own = n - CountOf(freq, 0)
  BY <1>2 DEF MinimaxSparseLayers, Declares
<1>4. n \in Nat \ {0} /\ c.num_key_value_heads \in Nat \ {0} /\ c.head_dim \in Nat \ {0}
  BY <1>3, NumberField DEF NumberFields
<1>5. sparse.sparse_index_dim \in Nat \ {0} /\ Listed(freq)
  <2>1. Numbered(sparse, {"sparse_index_dim"}) /\ Listed(freq)
    BY <1>3 DEF WellFormed
  <2> QED
    BY <1>3, <2>1 DEF Numbered
<1>6. own \in Nat
  <2> HIDE DEF freq
  <2>1. IsFiniteSet(DOMAIN freq)
    <3>1. Len(freq) \in Nat /\ DOMAIN freq = 1 .. Len(freq)
      BY <1>5 DEF Listed
    <3> QED
      BY <3>1, PlacesOf
  <2>2. CountOf(freq, 0) \in Nat
    BY <2>1, CountType
  <2> HIDE DEF own
  <2> QED
    BY <1>2, <1>3, <1>4, <2>2
<1>7. b \in Nat \ {0}
  BY <1>4, PerTokenType
<1> DEFINE p1 == 128 * b
           p2 == 256 * sparse.sparse_index_dim
<1> HIDE DEF b, own
<1>8. p1 \in Nat \ {0} /\ p2 \in Nat \ {0}
  BY <1>5, <1>7
<1>9. Fit(k1, "uniform") /\ Fit(k2, "uniform")
  <2> HIDE DEF n, p1, p2
  <2>1. Fit([Paged("full", n, 128, p1) EXCEPT !.bytes_per_token = b], "uniform")
    BY <1>4, <1>7, <1>8, PagedFits
  <2>2. Fit(Paged("compressed", own, 128, p2), "uniform")
    BY <1>6, <1>8, PagedFits
  <2> QED
    BY <2>1, <2>2 DEF p1, p2
<1> HIDE DEF k1, k2
<1>10. Bookable(<<k1, k2>>, "uniform")
  BY <1>9, TwoBook
<1> QED
  BY <1>1, <1>10, NoneBooks

\* DeepSeek V4's kinds.
LEMMA V4Books ==
  ASSUME NEW c, WellFormed(c), NEW x, Rank(x), Family(c) = "deepseek_v4"
  PROVE  Bookable(DeepseekV4Kinds(c, x), "packed")
<1> DEFINE n == c.num_hidden_layers
           ratios == [i \in 1 .. Smaller(n, Len(c.compress_ratios)) |-> Larger(1, c.compress_ratios[i])]
           c4 == CountOf(ratios, 4)
           c128 == CountOf(ratios, 128)
           mla(states, content) == RoundUp(states * content, DsMlaAlign)
           sliding(count, window, block, page) == [Paged("sliding", count, block, page) EXCEPT !.window = window]
           p1 == mla(64, DsMlaRecord)
           p3 == mla(2, DsMlaRecord)
           p4 == mla(64, IndexRow(c.index_head_dim))
           p5 == mla(4, 16 * c.head_dim)
           p6 == mla(8, 8 * c.head_dim)
           p7 == mla(4, 16 * c.index_head_dim)
           k1 == sliding(n, c.sliding_window, 64, p1)
           k2 == Paged("full", c4, 256, p1)
           k3 == Paged("full", c128, 256, p3)
           k4 == Paged("compressed", c4, 256, p4)
           k5 == sliding(c4, 8, 4, p5)
           k6 == sliding(c128, 128, 8, p6)
           k7 == sliding(c4, 8, 4, p7)
           kinds == <<k1, k2, k3, k4, k5, k6, k7>>
<1>1. DeepseekV4Kinds(c, x) \in {<<>>, kinds}
  BY DEF DeepseekV4Kinds
<1>2. {"compress_ratios", "index_head_dim", "sliding_window", "num_hidden_layers", "head_dim"} \subseteq DOMAIN c
  <2>1. {"compress_ratios", "index_head_dim", "sliding_window"} \subseteq DOMAIN c
    BY DEF Family, Declares
  <2>2. {"num_hidden_layers", "head_dim"} \subseteq DOMAIN c
    BY DEF WellFormed, FieldsRead
  <2> QED
    BY <2>1, <2>2
<1>3. n \in Nat \ {0} /\ c.head_dim \in Nat \ {0} /\ c.index_head_dim \in Nat \ {0} /\ c.sliding_window \in Nat \ {0}
  BY <1>2, NumberField DEF NumberFields
<1>4. c4 \in Nat /\ c128 \in Nat
  <2>1. Len(c.compress_ratios) \in Nat
    BY <1>2 DEF WellFormed, Listed, ListFields
  <2>2. Smaller(n, Len(c.compress_ratios)) \in Nat
    BY <1>3, <2>1 DEF Smaller
  <2>3. IsFiniteSet(DOMAIN ratios)
    BY <2>2, FS_Interval
  <2> HIDE DEF ratios
  <2> QED
    BY <2>3, CountType
<1>5. \A a, b \in Nat \ {0} : mla(a, b) \in Nat \ {0}
  <2> SUFFICES ASSUME NEW a \in Nat \ {0}, NEW b \in Nat \ {0} PROVE mla(a, b) \in Nat \ {0}
    OBVIOUS
  <2>1. a * b \in Nat \ {0}
    BY TimesType
  <2> QED
    BY <2>1, RoundPositive DEF DsMlaAlign
<1>6. /\ IndexRow(c.index_head_dim) \in Nat \ {0} /\ DsMlaRecord \in Nat \ {0}
      /\ 16 * c.head_dim \in Nat \ {0} /\ 8 * c.head_dim \in Nat \ {0} /\ 16 * c.index_head_dim \in Nat \ {0}
  BY <1>3, IndexRowPositive DEF DsMlaRecord
<1> HIDE DEF mla, n, c4, c128, ratios
<1>7. /\ p1 \in Nat \ {0} /\ p3 \in Nat \ {0} /\ p4 \in Nat \ {0}
      /\ p5 \in Nat \ {0} /\ p6 \in Nat \ {0} /\ p7 \in Nat \ {0}
  BY <1>5, <1>6
<1> HIDE DEF p1, p3, p4, p5, p6, p7
<1>8. Fit(k1, "packed") /\ Fit(k5, "packed") /\ Fit(k6, "packed") /\ Fit(k7, "packed")
  <2>1. Fit(Windowed(n, c.sliding_window, 64, p1), "packed")
    BY <1>3, <1>7, SlidingFits
  <2>2. Fit(Windowed(c4, 8, 4, p5), "packed")
    BY <1>4, <1>7, SlidingFits
  <2>3. Fit(Windowed(c128, 128, 8, p6), "packed")
    BY <1>4, <1>7, SlidingFits
  <2>4. Fit(Windowed(c4, 8, 4, p7), "packed")
    BY <1>4, <1>7, SlidingFits
  <2> QED
    BY <2>1, <2>2, <2>3, <2>4 DEF Windowed
<1>9. Fit(k2, "packed") /\ Fit(k3, "packed") /\ Fit(k4, "packed")
  BY <1>4, <1>7, PagedFits
<1> HIDE DEF k1, k2, k3, k4, k5, k6, k7
<1>10. DOMAIN kinds = 1 .. 7 /\ \A i \in DOMAIN kinds : kinds[i] \in {k1, k2, k3, k4, k5, k6, k7}
  OBVIOUS
<1> HIDE DEF kinds
<1>11. IsFiniteSet(DOMAIN kinds) /\ DOMAIN kinds \subseteq Nat
  <2>1. 7 \in Nat
    OBVIOUS
  <2> QED
    BY <1>10, <2>1, PlacesOf
<1>12. \A i \in DOMAIN kinds : Fit(kinds[i], "packed")
  BY <1>8, <1>9, <1>10
<1>13. Bookable(kinds, "packed")
  BY <1>11, <1>12, FitsBook
<1> QED
  BY <1>1, <1>13, NoneBooks

\* DeepSeek V4.1's kinds: a window, and the pages its source layers list.
LEMMA V41Listed ==
  ASSUME NEW c, WellFormed(c), NEW x, Family(c) = "deepseek_v41"
  PROVE  LET kinds == DeepseekV41Kinds(c, x)
         IN  /\ IsFiniteSet(DOMAIN kinds) /\ DOMAIN kinds \subseteq Nat
             /\ \A i \in DOMAIN kinds :
                  \/ \E n, w, block, page \in Nat \ {0} : kinds[i] = Windowed(n, w, block, page)
                  \/ \E kind \in {"full", "compressed", "ring"}, n \in Nat, block \in Nat \ {0}, page \in Nat \ {0} :
                       kinds[i] = Paged(kind, n, block, page)
<1> DEFINE n == c.num_hidden_layers
           sm10 == x.sm \div 10 = 10
           record == IF sm10 THEN 528 ELSE DsMlaRecord
           align == IF sm10 THEN 512 ELSE DsMlaAlign
           block == IF sm10 THEN 128 ELSE 64
           sources == {i \in Range(c.kv_source_layer_ids) : i < n}
           ratio(i) == c.compress_ratios[i + 1]
           fullPage(i) == RoundUp((block \div ratio(i)) * record, align)
           indexPage(i) == RoundUp((block \div ratio(i)) * IndexRow(c.index_head_dim), align)
           full(i) == <<"full", block, fullPage(i)>>
           index(i) == <<"compressed", block, indexPage(i)>>
           ring == <<"ring", 8, 64 * c.head_dim>>
           pages(i) == {full(i)} \cup (IF i \in Range(c.index_source_layer_ids) THEN {index(i)} ELSE {})
                       \cup (IF ratio(i) > 1 THEN {ring} ELSE {})
           listed == UNION {pages(i) : i \in sources}
           rows == SetToSeq(listed)
           first == RoundUp(32 * record, align)
           sliding == Windowed(n, c.sliding_window, 32, first)
           number(k) == Cardinality({i \in sources : rows[k] \in pages(i)})
           held == [k \in DOMAIN rows |-> Paged(rows[k][1], number(k), rows[k][2], rows[k][3])]
           refused == ~DeepseekTraced(x) \/ \E i \in sources : i >= Len(c.compress_ratios) \/ ratio(i) \notin {1, 2}
           kinds == DeepseekV41Kinds(c, x)
<1>1. kinds = IF refused THEN <<>> ELSE <<sliding>> \o held
  BY DEF DeepseekV41Kinds, Windowed
<1>2. CASE refused
  <2>1. DOMAIN <<>> = {} /\ IsFiniteSet(DOMAIN <<>>)
    BY FS_EmptySet
  <2>2. kinds = <<>>
    BY <1>1, <1>2
  <2> HIDE DEF kinds
  <2> QED
    BY <2>1, <2>2 DEF kinds
<1>3. CASE ~refused
  <2>1. IsFiniteSet(sources)
    <3>1. "kv_source_layer_ids" \in DOMAIN c
      BY DEF Family, Declares
    <3>2. IsFiniteSet(DOMAIN c.kv_source_layer_ids)
      BY <3>1, ListFinite DEF ListFields
    <3>3. IsFiniteSet(Range(c.kv_source_layer_ids))
      BY <3>2, RangeFinite
    <3> QED
      BY <3>3, FS_Subset
  <2>2. IsFiniteSet(listed)
    <3>1. \A i \in sources : IsFiniteSet(pages(i))
      <4> SUFFICES ASSUME NEW i \in sources PROVE IsFiniteSet(pages(i))
        OBVIOUS
      <4> DEFINE a == full(i)
                 b == index(i)
                 d == ring
      <4>1. pages(i) \in SUBSET ({a} \cup {b} \cup {d})
        OBVIOUS
      <4> HIDE DEF a, b, d, pages
      <4>2. IsFiniteSet({a} \cup {b} \cup {d})
        BY FS_Singleton, FS_Union
      <4> QED
        BY <4>1, <4>2, FS_Subset
    <3>2. IsFiniteSet({pages(i) : i \in sources})
      <4> DEFINE f == [i \in sources |-> pages(i)]
      <4>1. f \in Surjection(sources, {pages(i) : i \in sources})
        BY DEF Surjection
      <4> QED
        BY <2>1, <4>1, FS_Surjection
    <3>3. \A T \in {pages(i) : i \in sources} : IsFiniteSet(T)
      BY <3>1
    <3> QED
      BY <3>2, <3>3, FS_UNION
  <2>3. /\ n \in Nat \ {0} /\ c.head_dim \in Nat \ {0} /\ c.index_head_dim \in Nat \ {0} /\ c.sliding_window \in Nat \ {0}
    <3>1. {"index_head_dim", "sliding_window"} \subseteq DOMAIN c
      BY DEF Family, Declares
    <3>2. {"num_hidden_layers", "head_dim"} \subseteq DOMAIN c
      BY DEF WellFormed, FieldsRead
    <3> QED
      BY <3>1, <3>2, NumberField DEF NumberFields
  <2>4. record \in Nat \ {0} /\ align \in Nat \ {0} /\ block \in {64, 128}
    BY DEF DsMlaRecord, DsMlaAlign
  <2>5. first \in Nat \ {0}
    <3> HIDE DEF record, align
    <3>1. 32 * record \in Nat \ {0}
      BY <2>4
    <3> QED
      BY <2>4, <3>1, RoundPositive
  <2>6. \A i \in sources : fullPage(i) \in Nat \ {0} /\ indexPage(i) \in Nat \ {0}
    <3> SUFFICES ASSUME NEW i \in sources PROVE fullPage(i) \in Nat \ {0} /\ indexPage(i) \in Nat \ {0}
      OBVIOUS
    <3>1. ratio(i) \in {1, 2}
      BY <1>3
    <3> DEFINE states == block \div ratio(i)
               row == IndexRow(c.index_head_dim)
    <3>2. states \in Nat \ {0}
      BY <2>4, <3>1
    <3>3. row \in Nat \ {0}
      BY <2>3, IndexRowPositive
    <3> HIDE DEF record, align, block, states, row
    <3>4. states * record \in Nat \ {0} /\ states * row \in Nat \ {0}
      BY <2>4, <3>2, <3>3, TimesType
    <3>5. RoundUp(states * record, align) \in Nat \ {0} /\ RoundUp(states * row, align) \in Nat \ {0}
      BY <2>4, <3>4, RoundPositive
    <3> QED
      BY <3>5 DEF states, row
  <2> HIDE DEF fullPage, indexPage, first
  <2>7. ASSUME NEW r \in listed
        PROVE  r[1] \in {"full", "compressed", "ring"} /\ r[2] \in Nat \ {0} /\ r[3] \in Nat \ {0}
    <3>1. PICK i \in sources : r \in pages(i)
      OBVIOUS
    <3>2. r \in {full(i), index(i), ring}
      BY <3>1
    <3>3. fullPage(i) \in Nat \ {0} /\ indexPage(i) \in Nat \ {0} /\ 64 * c.head_dim \in Nat \ {0} /\ block \in Nat \ {0}
      BY <2>3, <2>4, <2>6
    <3> HIDE DEF block
    <3> QED
      BY <3>2, <3>3
  <2>8. DOMAIN rows = 1 .. Cardinality(listed) /\ Cardinality(listed) \in Nat /\ \A k \in DOMAIN rows : rows[k] \in listed
    <3> HIDE DEF listed
    <3> QED
      BY <2>2, ListOf, FS_CardinalityType
  <2>9. \A k \in DOMAIN rows : number(k) \in Nat
    <3> SUFFICES ASSUME NEW k \in DOMAIN rows PROVE number(k) \in Nat
      OBVIOUS
    <3> DEFINE keeping == {i \in sources : rows[k] \in pages(i)}
    <3>1. keeping \in SUBSET sources
      OBVIOUS
    <3> HIDE DEF sources, pages, keeping
    <3>2. IsFiniteSet(keeping)
      BY <2>1, <3>1, FS_Subset
    <3> QED
      BY <3>2, FS_CardinalityType DEF keeping
  <2> HIDE DEF listed, rows, number
  <2> DEFINE S == {sliding} \cup {held[k] : k \in DOMAIN held}
             all == <<sliding>> \o held
             m == Cardinality(listed)
  <2>10. all \in Seq(S) /\ Len(all) = m + 1
    <3>1. DOMAIN held = 1 .. m /\ held = [k \in DOMAIN held |-> held[k]] /\ m \in Nat
      BY <2>8
    <3> HIDE DEF held, sliding, m
    <3>2. held \in [1 .. m -> S]
      <4>1. \A k \in DOMAIN held : held[k] \in S
        OBVIOUS
      <4> QED
        BY <3>1, <4>1
    <3>3. held \in Seq(S) /\ Len(held) = m
      BY <3>1, <3>2
    <3>4. <<sliding>> \in Seq(S) /\ Len(<<sliding>>) = 1
      OBVIOUS
    <3> QED
      BY <3>1, <3>3, <3>4
  <2>11. DOMAIN all = 1 .. Len(all) /\ \A i \in DOMAIN all : all[i] \in S
    <3> HIDE DEF all, S
    <3> QED
      BY <2>10
  <2>12. IsFiniteSet(DOMAIN all) /\ DOMAIN all \subseteq Nat
    <3>1. m + 1 \in Nat
      BY <2>8
    <3> HIDE DEF all
    <3> QED
      BY <2>10, <2>11, <3>1, PlacesOf
  <2>13. ASSUME NEW k \in DOMAIN held
         PROVE  \E kind \in {"full", "compressed", "ring"}, j \in Nat, b \in Nat \ {0}, p \in Nat \ {0} :
                  held[k] = Paged(kind, j, b, p)
    <3>1. k \in DOMAIN rows
      OBVIOUS
    <3>2. held[k] = Paged(rows[k][1], number(k), rows[k][2], rows[k][3])
      OBVIOUS
    <3>3. rows[k][1] \in {"full", "compressed", "ring"} /\ number(k) \in Nat /\ rows[k][2] \in Nat \ {0} /\ rows[k][3] \in Nat \ {0}
      BY <2>7, <2>8, <2>9, <3>1
    <3> HIDE DEF held
    <3> QED
      BY <3>2, <3>3
  <2>14. \E j, w, b, p \in Nat \ {0} : sliding = Windowed(j, w, b, p)
    <3> HIDE DEF n
    <3> QED
      BY <2>3, <2>5
  <2>15. kinds = all
    BY <1>1, <1>3
  <2> HIDE DEF all, held, sliding, kinds
  <2>16. \A i \in DOMAIN all : all[i] = sliding \/ \E k \in DOMAIN held : all[i] = held[k]
    BY <2>11
  <2>17. ASSUME NEW i \in DOMAIN all
         PROVE  \/ \E j, w, b, p \in Nat \ {0} : all[i] = Windowed(j, w, b, p)
                \/ \E kind \in {"full", "compressed", "ring"}, j \in Nat, b \in Nat \ {0}, p \in Nat \ {0} :
                     all[i] = Paged(kind, j, b, p)
    <3>1. CASE all[i] = sliding
      BY <2>14, <3>1
    <3>2. CASE \E k \in DOMAIN held : all[i] = held[k]
      BY <2>13, <3>2
    <3> QED
      BY <2>16, <3>1, <3>2
  <2> QED
    BY <2>12, <2>15, <2>17 DEF kinds
<1> QED
  BY <1>2, <1>3

\* They can be booked, and keep no states.
LEMMA V41Books ==
  ASSUME NEW c, WellFormed(c), NEW x, Family(c) = "deepseek_v41"
  PROVE  Bookable(DeepseekV41Kinds(c, x), "packed") /\ Stateless(DeepseekV41Kinds(c, x))
<1> DEFINE kinds == DeepseekV41Kinds(c, x)
<1>1. /\ IsFiniteSet(DOMAIN kinds) /\ DOMAIN kinds \subseteq Nat
      /\ \A i \in DOMAIN kinds :
           \/ \E n, w, block, page \in Nat \ {0} : kinds[i] = Windowed(n, w, block, page)
           \/ \E kind \in {"full", "compressed", "ring"}, n \in Nat, block \in Nat \ {0}, page \in Nat \ {0} :
                kinds[i] = Paged(kind, n, block, page)
  BY V41Listed
<1> HIDE DEF kinds
<1>2. \A n, w, block, page \in Nat \ {0} :
        Fit(Windowed(n, w, block, page), "packed") /\ Windowed(n, w, block, page).kind # "state"
  BY SlidingFits DEF Windowed, Paged, LayerKind
<1>3. \A kind \in {"full", "compressed", "ring"}, n \in Nat, block \in Nat \ {0}, page \in Nat \ {0} :
        Fit(Paged(kind, n, block, page), "packed") /\ Paged(kind, n, block, page).kind # "state"
  BY PagedFits DEF Paged, LayerKind
<1>4. ASSUME NEW i \in DOMAIN kinds PROVE Fit(kinds[i], "packed") /\ kinds[i].kind # "state"
  <2>1. CASE \E n, w, block, page \in Nat \ {0} : kinds[i] = Windowed(n, w, block, page)
    BY <1>2, <2>1
  <2>2. CASE \E kind \in {"full", "compressed", "ring"}, n \in Nat, block \in Nat \ {0}, page \in Nat \ {0} :
                kinds[i] = Paged(kind, n, block, page)
    BY <1>3, <2>2
  <2> QED
    BY <1>1, <2>1, <2>2
<1>5. Bookable(kinds, "packed") /\ Stateless(kinds)
  BY <1>1, <1>4, FitsBook DEF Stateless
<1> QED
  BY <1>5 DEF kinds

\* Qwen4-exp's kinds: a page holds the largest state.
LEMMA Qwen4Books ==
  ASSUME NEW c, WellFormed(c), NEW x, Rank(x), Family(c) = "qwen4_exp"
  PROVE  Bookable(Qwen4ExpKinds(c, x), "packed")
<1>1. c.model_type = "qwen4_exp" /\ Declares(c, {"linear_num_value_heads", "ple_layer_ids"})
  BY DEF Family, Declares
<1>2. DeltaNetFields \cup {"linear_num_value_heads", "ple_layer_ids", "ple_conv_kernel_size", "ngram_size", "hc_count",
        "hidden_size", "indexer_compress_ratio", "indexer_head_dim"} \subseteq DOMAIN c
  BY <1>1 DEF WellFormed, FieldsRead, Declares
<1>3. /\ c.ple_conv_kernel_size \in Nat \ {0} /\ c.ngram_size \in Nat \ {0} /\ c.hc_count \in Nat \ {0}
      /\ c.hidden_size \in Nat \ {0} /\ c.indexer_compress_ratio \in Nat \ {0} /\ c.indexer_head_dim \in Nat \ {0}
      /\ c.num_key_value_heads \in Nat \ {0} /\ c.head_dim \in Nat \ {0}
  BY <1>2, NumberField DEF NumberFields, DeltaNetFields
<1> DEFINE gdn == DeltaNetState(c, x)
           ple == (c.ple_conv_kernel_size - 1) * c.ngram_size * c.hidden_size * c.hc_count * x.model_bytes
           per_token == HeadsPerGpu(c.num_key_value_heads, x.tp) * 2 * c.head_dim * 2
           block == BaseBlock * CeilDiv(Larger(gdn, ple), BaseBlock * per_token)
           full == LayersOf(c, "full_attention")
           ratio == c.indexer_compress_ratio
           mrope == Declares(c, {"mrope_section"}) /\ c.architecture # "Qwen4ExpForCausalLM"
           row == IF mrope THEN RoundUp(c.indexer_head_dim, 4) + 12 ELSE c.indexer_head_dim
           refused == \/ x.kv_dtype \notin {"auto", "bfloat16"}
                      \/ ConvWidth(c) % x.tp # 0 \/ c.linear_num_value_heads % x.tp # 0
                      \/ block % ratio # 0
           linear == LayersOf(c, "linear_attention")
           ngrams == Len(c.ple_layer_ids)
           page == block * per_token
           index == (block \div ratio) * c.indexer_head_dim * 2
           ring == ratio * row * 2
           state(count, bytes, bucket) ==
             [StateLayers(count, bytes) EXCEPT !.block_size = block, !.page_bytes = page, !.bucket = bucket]
           k1 == [Paged("full", full, block, page) EXCEPT !.bytes_per_token = per_token]
           k2 == state(linear, gdn, "gdn")
           k3 == state(ngrams, ple, "ple")
           k4 == Paged("compressed", full, block, index)
           k5 == Paged("ring", full, ratio, ring)
           kinds == <<k1, k2, k3, k4, k5>>
<1>4. Qwen4ExpKinds(c, x) = IF refused THEN <<>> ELSE kinds
  BY DEF Qwen4ExpKinds
<1>5. CASE refused
  <2>1. Qwen4ExpKinds(c, x) = <<>>
    BY <1>4, <1>5
  <2> QED
    BY <2>1, NoneBooks
<1>6. CASE ~refused
  <2>1. gdn \in Nat \ {0}
    BY <1>2, <1>6, DeltaNetHolds
  <2>2. ple \in Nat
    <3>1. c.ple_conv_kernel_size - 1 \in Nat
      BY <1>3
    <3> DEFINE k == c.ple_conv_kernel_size - 1
    <3> HIDE DEF k
    <3>2. k * c.ngram_size \in Nat
      BY <1>3, <3>1, TimesType DEF k
    <3>3. k * c.ngram_size * c.hidden_size \in Nat
      BY <1>3, <3>2, TimesType
    <3>4. k * c.ngram_size * c.hidden_size * c.hc_count \in Nat
      BY <1>3, <3>3, TimesType
    <3>5. k * c.ngram_size * c.hidden_size * c.hc_count * x.model_bytes \in Nat
      BY <3>4, TimesType DEF Rank
    <3> QED
      BY <3>5 DEF k
  <2>3. per_token \in Nat \ {0}
    <3>1. HeadsPerGpu(c.num_key_value_heads, x.tp) \in Nat \ {0}
      BY <1>3, PerTokenType
    <3>2. HeadsPerGpu(c.num_key_value_heads, x.tp) * 2 * c.head_dim \in Nat \ {0}
      BY <1>3, <3>1, Product3
    <3> QED
      BY <3>2, TimesType
  <2>4. full \in Nat /\ linear \in Nat /\ ngrams \in Nat
    BY <1>2, LayersType, ListFinite DEF ListFields
  <2>5. c.linear_num_value_heads % x.tp = 0 /\ block % ratio = 0
    BY <1>6
  <2> HIDE DEF gdn, ple, per_token, full, linear, ngrams, refused
  <2>6. block \in Nat \ {0}
    <3>1. Larger(gdn, ple) \in Nat \ {0}
      BY <2>1, <2>2 DEF Larger
    <3>2. BaseBlock * per_token \in Nat \ {0}
      BY <2>3 DEF BaseBlock
    <3>3. CeilDiv(Larger(gdn, ple), BaseBlock * per_token) \in Nat \ {0}
      BY <3>1, <3>2, CeilPositive
    <3> QED
      BY <3>3 DEF BaseBlock
  <2>7. page \in Nat \ {0} /\ gdn <= page /\ ple <= page
    <3> DEFINE most == Larger(gdn, ple)
               unit == BaseBlock * per_token
               n == CeilDiv(most, unit)
    <3>1. most \in Nat /\ gdn <= most /\ ple <= most
      BY <2>1, <2>2 DEF Larger
    <3>2. unit \in Nat \ {0}
      BY <2>3 DEF BaseBlock
    <3> HIDE DEF most
    <3>3. n * unit >= most /\ n \in Nat
      <4> HIDE DEF unit
      <4> QED
        BY <3>1, <3>2, CeilHolds
    <3>4. page = n * unit
      <4>1. block = BaseBlock * n
        BY DEF most
      <4> HIDE DEF n, block
      <4>2. \A u, v, w \in Nat : (u * v) * w = v * (u * w)
        OBVIOUS
      <4>3. BaseBlock \in Nat
        BY DEF BaseBlock
      <4> QED
        BY <2>3, <3>3, <4>1, <4>2, <4>3
    <3>5. page \in Nat \ {0}
      <4> HIDE DEF block
      <4> QED
        BY <2>3, <2>6, TimesType
    <3> HIDE DEF n, unit, page
    <3>6. n * unit \in Nat
      BY <3>2, <3>3, TimesType
    <3> QED
      BY <2>1, <2>2, <3>1, <3>3, <3>4, <3>5, <3>6
  <2> HIDE DEF block
  <2>8. index \in Nat \ {0}
    <3>1. block \div ratio \in Nat \ {0}
      BY <1>3, <2>5, <2>6, ShareOf
    <3> QED
      BY <1>3, <3>1, Product3
  <2>9. ring \in Nat \ {0}
    <3>1. RoundUp(c.indexer_head_dim, 4) \in Nat
      BY <1>3, RoundType
    <3>2. row \in Nat \ {0}
      BY <1>3, <3>1
    <3> HIDE DEF row
    <3> QED
      BY <1>3, <3>2, Product3
  <2> HIDE DEF page, index, ring
  <2>10. Fit(k1, "packed")
    BY <2>3, <2>4, <2>6, <2>7, PagedFits
  <2>11. Fit(k2, "packed")
    BY <2>1, <2>4, <2>6, <2>7 DEF Fit, Layer, Counted, StateLayers, LayerKind
  <2>12. Fit(k3, "packed")
    BY <2>2, <2>4, <2>6, <2>7 DEF Fit, Layer, Counted, StateLayers, LayerKind
  <2>13. Fit(k4, "packed")
    BY <2>4, <2>6, <2>8, PagedFits
  <2>14. Fit(k5, "packed")
    BY <1>3, <2>4, <2>9, PagedFits
  <2> HIDE DEF k1, k2, k3, k4, k5
  <2>15. DOMAIN kinds = 1 .. 5
    OBVIOUS
  <2>16. Qwen4ExpKinds(c, x) = kinds
    BY <1>4, <1>6
  <2> HIDE DEF kinds
  <2>17. \A i \in DOMAIN kinds : kinds[i] \in {k1, k2, k3, k4, k5}
    BY <2>15 DEF kinds
  <2>18. IsFiniteSet(DOMAIN kinds) /\ DOMAIN kinds \subseteq Nat
    <3>1. 5 \in Nat
      OBVIOUS
    <3> QED
      BY <2>15, <3>1, PlacesOf
  <2>19. \A i \in DOMAIN kinds : Fit(kinds[i], "packed")
    BY <2>10, <2>11, <2>12, <2>13, <2>14, <2>17
  <2> QED
    BY <2>16, <2>18, <2>19, FitsBook
<1> QED
  BY <1>5, <1>6

\* The share of a multiple.
LEMMA WholeShare == ASSUME NEW t \in Nat, NEW n \in Nat \ {0}, NEW b, b = t * n PROVE b \div n = t
<1> DEFINE q == b \div n
           r == b % n
<1>1. b \in Nat
  BY TimesType
<1>2. b = n * q + r /\ q \in Nat /\ r \in 0 .. n - 1
  BY <1>1
<1> HIDE DEF q, r
<1>3. n * q = q * n /\ n * q \in Nat /\ t * n \in Nat
  BY <1>2, TimesType
<1>4. CASE t >= q + 1
  <2>1. (q + 1) * n <= t * n
    BY <1>2, <1>4, TimesGrows
  <2>2. (q + 1) * n = q * n + n
    BY <1>2
  <2> QED
    BY <1>2, <1>3, <2>1, <2>2
<1>5. CASE q >= t + 1
  <2>1. (t + 1) * n <= q * n
    BY <1>2, <1>5, TimesGrows
  <2>2. (t + 1) * n = t * n + n
    OBVIOUS
  <2> QED
    BY <1>2, <1>3, <2>1, <2>2
<1> QED
  BY <1>2, <1>4, <1>5 DEF q

\* GLM5Next's kinds: a tail fits the pages of the latents and of the indexer.
LEMMA Glm5Books ==
  ASSUME NEW c, WellFormed(c), NEW x, Rank(x), Family(c) = "glm5_next"
  PROVE  /\ Traced(Glm5NextKinds(c, x), "glm5_next")
         /\ TailFits(c) => Bookable(Glm5NextKinds(c, x), "glm5_next")
<1>1. c.model_type = "glm5_next" /\ {"kv_lora_rank", "index_kpool"} \subseteq DOMAIN c
  BY DEF Family, Declares
<1>2. "index_head_dim" \in DOMAIN c
  BY <1>1 DEF WellFormed, FieldsRead, Declares
<1>3. c.kv_lora_rank \in Nat \ {0} /\ c.index_kpool \in Nat \ {0} /\ c.index_head_dim \in Nat \ {0}
  BY <1>1, <1>2, NumberField DEF NumberFields
<1> DEFINE k == KdaShape(c)
           conv == (k.kernel - 1) * ((3 * k.heads * k.dim) \div x.tp) * x.model_bytes
           temporal == (k.heads \div x.tp) * k.dim * k.dim * 4
           bytes == conv + temporal
           per_token == (c.kv_lora_rank + Field(c, "qk_rope_head_dim", 0)) * 2
           pool == c.index_kpool
           dim == c.index_head_dim
           base == RoundUp(CeilDiv(bytes, per_token), 128)
           block == RoundUp(base, pool * 32)
           dsa == LayersOf(c, "deepseek_sparse_attention")
           linear == LayersOf(c, "linear_attention")
           page == block * per_token
           pools == block \div pool
           row == IndexRow(dim)
           index == pools * row
           tail == pool * 4 * dim
           k1 == [Paged("full", dsa, block, page) EXCEPT !.bytes_per_token = per_token]
           k2 == Paged("compressed", dsa, block, index)
           k3 == Paged("tail", dsa, pool, tail)
           k4 == [StateLayers(linear, bytes) EXCEPT !.block_size = block, !.page_bytes = page]
           kinds == <<k1, k2, k3, k4>>
           refused == x.kv_dtype \notin {"auto", "bfloat16"} \/ x.sm = 0 \/ x.sm \div 10 = 12 \/ k.heads % x.tp # 0
<1>4. Glm5NextKinds(c, x) = IF refused THEN <<>> ELSE kinds
  BY DEF Glm5NextKinds, Glm5Kinds
<1>5. CASE refused
  <2>1. Glm5NextKinds(c, x) = <<>>
    BY <1>4, <1>5
  <2> QED
    BY <2>1, NoneBooks DEF Bookable
<1>6. CASE ~refused
  <2>1. bytes \in Nat \ {0}
    <3>1. k.heads \in Nat \ {0} /\ k.dim \in Nat \ {0} /\ k.kernel \in Nat \ {0} /\ k.heads % x.tp = 0
      BY <1>6, ShapeType
    <3> HIDE DEF k
    <3> DEFINE h == k.heads
               d == k.dim
               n == k.kernel - 1
               w == (3 * h * d) \div x.tp
               r == h \div x.tp
    <3>2. 3 * h * d \in Nat
      BY <3>1, Product3
    <3>3. w \in Nat /\ r \in Nat \ {0} /\ n \in Nat /\ d \in Nat \ {0}
      BY <3>1, <3>2, DivType, ShareOf DEF Rank
    <3>4. conv = n * w * x.model_bytes /\ temporal = r * d * d * 4
      OBVIOUS
    <3> HIDE DEF conv, temporal, w, r, n, d
    <3>5. n * w \in Nat /\ r * d \in Nat \ {0}
      BY <3>3, TimesType
    <3>6. n * w * x.model_bytes \in Nat /\ r * d * d \in Nat \ {0}
      BY <3>3, <3>5, TimesType DEF Rank
    <3>7. r * d * d * 4 \in Nat \ {0}
      BY <3>6, TimesType
    <3> QED
      BY <3>4, <3>6, <3>7
  <2>2. per_token \in Nat \ {0} /\ per_token >= 2 * c.kv_lora_rank
    <3>1. Field(c, "qk_rope_head_dim", 0) \in Nat
      BY NumberField DEF Field, NumberFields
    <3> QED
      BY <1>3, <3>1
  <2>3. row \in Nat \ {0} /\ row >= dim
    BY <1>3 DEF IndexRow
  <2>4. dsa \in Nat /\ linear \in Nat
    BY LayersType
  <2>5. pool \in Nat \ {0} /\ dim \in Nat \ {0} /\ c.kv_lora_rank \in Nat
    BY <1>3
  <2>6. TailFits(c) => tail <= 32 * pool * (2 * c.kv_lora_rank) + 32 * dim
    <3>1. TailFits(c) => 4 * pool * dim <= 32 * pool * (2 * c.kv_lora_rank) + 32 * dim
      BY <1>3 DEF TailFits
    <3>2. 4 * pool = pool * 4
      BY <2>5
    <3> QED
      BY <3>1, <3>2
  <2> HIDE DEF bytes, per_token, k, conv, temporal, row, dsa, linear, refused, pool, dim
  <2>7. base \in Nat \ {0}
    <3>1. CeilDiv(bytes, per_token) \in Nat \ {0}
      BY <2>1, <2>2, CeilPositive
    <3> QED
      BY <3>1, RoundPositive
  <2> HIDE DEF base
  <2> DEFINE q == CeilDiv(base, pool * 32)
  <2>8. q \in Nat \ {0} /\ block = q * (pool * 32) /\ pool * 32 \in Nat \ {0}
    <3>1. pool * 32 \in Nat \ {0}
      BY <2>5
    <3> QED
      BY <2>7, <3>1, CeilPositive DEF RoundUp
  <2> HIDE DEF q, block
  <2>9. block \in Nat \ {0} /\ block >= 32 * pool
    <3>1. 1 * (pool * 32) <= q * (pool * 32)
      BY <2>8, TimesGrows
    <3>2. q * (pool * 32) \in Nat \ {0}
      BY <2>8, TimesType
    <3> QED
      BY <2>5, <2>8, <3>1, <3>2
  <2>10. pools \in Nat \ {0} /\ pools >= 32
    <3> DEFINE t == q * 32
    <3>1. t \in Nat \ {0} /\ t >= 32
      BY <2>8
    <3>2. block = t * pool
      <4>1. \A u, v, z \in Nat : u * (v * z) = (u * z) * v
        OBVIOUS
      <4> QED
        BY <2>5, <2>8, <4>1
    <3> HIDE DEF t
    <3>3. pools = t
      BY <2>5, <3>1, <3>2, WholeShare
    <3> QED
      BY <3>1, <3>3
  <2> HIDE DEF pools
  <2>11. page \in Nat \ {0} /\ page >= 32 * pool * (2 * c.kv_lora_rank)
    <3> DEFINE low == 32 * pool
               rank == 2 * c.kv_lora_rank
    <3>1. low \in Nat /\ rank \in Nat /\ low <= block /\ rank <= per_token
      BY <2>2, <2>5, <2>9
    <3> HIDE DEF low, rank
    <3>2. low * rank <= block * per_token
      BY <2>2, <2>9, <3>1, ProductGrows
    <3>3. page \in Nat \ {0}
      BY <2>2, <2>9, TimesType
    <3> QED
      BY <3>2, <3>3 DEF low, rank
  <2>12. index \in Nat \ {0} /\ index >= 32 * dim
    <3>1. 32 * dim <= pools * row
      BY <2>3, <2>5, <2>10, ProductGrows
    <3> QED
      BY <2>3, <2>10, <3>1, TimesType
  <2>13. tail \in Nat \ {0}
    BY <2>5, Product3
  <2>14. TailFits(c) => tail <= page + index
    <3> DEFINE latents == 32 * pool * (2 * c.kv_lora_rank)
               keys == 32 * dim
    <3>1. latents \in Nat /\ keys \in Nat /\ (TailFits(c) => tail <= latents + keys) /\ latents <= page /\ keys <= index
      <4>1. 32 * pool \in Nat /\ 2 * c.kv_lora_rank \in Nat
        BY <2>5
      <4>2. 32 * pool * (2 * c.kv_lora_rank) \in Nat
        BY <4>1, TimesType
      <4> QED
        BY <2>5, <2>6, <2>11, <2>12, <4>2
    <3> HIDE DEF latents, keys, tail, page, index
    <3> QED
      BY <2>11, <2>12, <2>13, <3>1
  <2> HIDE DEF page, index, tail
  <2>15. Layer(k1) /\ k1.kind = "full" /\ k1.count = dsa /\ k1.block_size = block /\ k1.page_bytes = page
    BY <2>2, <2>4, <2>9, <2>11 DEF Layer, Counted, Paged, LayerKind
  <2>16. Layer(k2) /\ k2.kind = "compressed" /\ k2.count = dsa /\ k2.block_size = block /\ k2.page_bytes = index
    BY <2>4, <2>9, <2>12 DEF Layer, Counted, Paged, LayerKind
  <2>17. Layer(k3) /\ k3.kind = "tail" /\ k3.count = dsa /\ k3.page_bytes = tail
    BY <2>4, <2>5, <2>13 DEF Layer, Counted, Paged, LayerKind
  <2>18. Layer(k4) /\ k4.kind = "state"
    BY <2>1, <2>4, <2>9, <2>11 DEF Layer, Counted, StateLayers, LayerKind
  <2> HIDE DEF k1, k2, k3, k4
  <2>19. DOMAIN kinds = 1 .. 4 /\ kinds[1] = k1 /\ kinds[2] = k2 /\ kinds[3] = k3 /\ kinds[4] = k4
    OBVIOUS
  <2>20. Glm5NextKinds(c, x) = kinds
    BY <1>4, <1>6
  <2> HIDE DEF kinds
  <2>21. IsFiniteSet(DOMAIN kinds) /\ DOMAIN kinds \subseteq Nat
    <3>1. 4 \in Nat
      OBVIOUS
    <3> QED
      BY <2>19, <3>1, PlacesOf
  <2>22. \A i \in DOMAIN kinds : i \in {1, 2, 3, 4}
    BY <2>19
  <2>23. \A i \in DOMAIN kinds : Layer(kinds[i])
    BY <2>15, <2>16, <2>17, <2>18, <2>19, <2>22
  <2>24. TailFits(c) => Tailed(kinds)
    <3> SUFFICES ASSUME TailFits(c), NEW a \in DOMAIN kinds, NEW b \in DOMAIN kinds, NEW d \in DOMAIN kinds,
                        kinds[a].kind = "full", kinds[b].kind = "compressed", kinds[d].kind = "tail"
                 PROVE  /\ kinds[b].count = kinds[a].count /\ kinds[d].count = kinds[a].count
                        /\ kinds[b].block_size = kinds[a].block_size /\ kinds[a].page_bytes > 0 /\ kinds[b].page_bytes > 0
                        /\ kinds[d].page_bytes <= kinds[a].page_bytes + kinds[b].page_bytes
      BY DEF Tailed
    <3>1. kinds[a] = k1 /\ kinds[b] = k2 /\ kinds[d] = k3
      BY <2>15, <2>16, <2>17, <2>18, <2>19, <2>22
    <3> QED
      BY <2>11, <2>12, <2>14, <2>15, <2>16, <2>17, <3>1
  <2>25. Traced(kinds, "glm5_next") /\ (TailFits(c) => Bookable(kinds, "glm5_next"))
    <3>1. Layers(kinds)
      BY <2>21, <2>23 DEF Layers
    <3>2. Traced(kinds, "glm5_next")
      BY <2>21, <2>23 DEF Traced, Layer
    <3> QED
      BY <2>24, <3>1, <3>2 DEF Bookable
  <2> QED
    BY <2>20, <2>25
<1> QED
  BY <1>5, <1>6

-----------------------------------------------------------------------------
(* The kinds of a config's family can be booked in its layout.             *)
LEMMA FamilyBooks ==
  ASSUME NEW c, WellFormed(c), TailFits(c), NEW x, Rank(x)
  PROVE  Bookable(LayerKinds(c, x), Layout(c)) /\ Layout(c) \in {"grouped", "packed", "glm5_next", "uniform"}
<1>1. CASE Family(c) = "gemma4"
  BY <1>1, Gemma4Books DEF LayerKinds, KindsOf, Layout
<1>2. CASE Family(c) = "mixed_sliding"
  BY <1>2, MixedBooks DEF LayerKinds, KindsOf, Layout
<1>3. CASE Family(c) = "qwen3_5"
  BY <1>3, Qwen35Books DEF LayerKinds, KindsOf, Layout
<1>4. CASE Family(c) = "nemotron_h"
  BY <1>4, NemotronBooks DEF LayerKinds, KindsOf, Layout
<1>5. CASE Family(c) = "deepseek_v4"
  BY <1>5, V4Books DEF LayerKinds, KindsOf, Layout
<1>6. CASE Family(c) = "deepseek_v41"
  BY <1>6, V41Books DEF LayerKinds, KindsOf, Layout
<1>7. CASE Family(c) = "qwen4_exp"
  BY <1>7, Qwen4Books DEF LayerKinds, KindsOf, Layout
<1>8. CASE Family(c) = "glm5_next"
  BY <1>8, Glm5Books DEF LayerKinds, KindsOf, Layout
<1>9. CASE Family(c) = "glm_moe_dsa"
  BY <1>9, GlmMoeDsaBooks DEF LayerKinds, KindsOf, Layout
<1>10. CASE Family(c) = "minimax_m3"
  BY <1>10, MinimaxBooks DEF LayerKinds, KindsOf, Layout
<1>11. CASE Family(c) = "none"
  BY <1>11, NoneBooks DEF LayerKinds, KindsOf, Layout
<1>12. Family(c) \in {"gemma4", "mixed_sliding", "qwen3_5", "nemotron_h", "deepseek_v4", "deepseek_v41", "qwen4_exp", "glm5_next", "glm_moe_dsa", "minimax_m3", "none"}
  BY DEF Family
<1> QED
  BY <1>1, <1>2, <1>3, <1>4, <1>5, <1>6, <1>7, <1>8, <1>9, <1>10, <1>11, <1>12

\* The kinds of every family with states are what its layout takes.
LEMMA StateTraced ==
  ASSUME NEW c, WellFormed(c), NEW x, Rank(x), Family(c) \in StateFamilies
  PROVE  Traced(LayerKinds(c, x), Layout(c)) /\ Layout(c) \in {"grouped", "packed", "glm5_next"}
<1>1. CASE Family(c) = "qwen3_5"
  BY <1>1, Qwen35Traced DEF LayerKinds, KindsOf, Layout
<1>2. CASE Family(c) = "nemotron_h"
  BY <1>2, NemotronTraced DEF LayerKinds, KindsOf, Layout
<1>3. CASE Family(c) = "qwen4_exp"
  BY <1>3, Qwen4Books DEF Bookable, LayerKinds, KindsOf, Layout
<1>4. CASE Family(c) = "glm5_next"
  BY <1>4, Glm5Books DEF LayerKinds, KindsOf, Layout
<1> QED
  BY <1>1, <1>2, <1>3, <1>4 DEF StateFamilies

\* A family whose kinds count states is one of four.
LEMMA OnlyStateFamilies ==
  ASSUME NEW c, WellFormed(c), NEW x, Family(c) \notin StateFamilies
  PROVE  Stateless(LayerKinds(c, x))
<1>1. Family(c) \in {"gemma4", "mixed_sliding", "deepseek_v4", "deepseek_v41", "glm_moe_dsa", "minimax_m3", "none"}
  BY DEF Family, StateFamilies
<1>2. \/ LayerKinds(c, x) \in {Gemma4Kinds(c, x), MixedSlidingKinds(c, x), DeepseekV4Kinds(c, x),
                               GlmMoeDsaKinds(c, x), MinimaxKinds(c, x), <<>>}
      \/ (Family(c) = "deepseek_v41" /\ LayerKinds(c, x) = DeepseekV41Kinds(c, x))
  BY <1>1 DEF LayerKinds, KindsOf
<1> QED
  BY <1>2, PlainStateless, V41Books, StatelessLists

-----------------------------------------------------------------------------
(* The terms of a prediction: what does not depend on max_num_seqs.        *)

\* What the engine is started with, as numbers.
Launched(x) ==
    /\ Rank(x) /\ x.memory \in Nat /\ x.util \in Nat /\ x.tokens \in Nat /\ x.seqs \in Nat \ {0}
    /\ SeqLen(x) \in Nat /\ x.eager \in BOOLEAN

(* What is loaded, as the headers, the index or the Hub have it.           *)
Loaded(w) == w.total \in Int /\ w.replicated \in Int /\ w.kv_head \in Int

(* What KvRanks is: at least one rank, at most all.                        *)
LEMMA KvRanksType ==
  ASSUME NEW c, WellFormed(c), NEW x, Rank(x) PROVE KvRanks(c, x) \in Nat \ {0} /\ KvRanks(c, x) <= x.tp
<1> DEFINE q == Field(c, "num_key_value_heads", x.tp)
<1>1. q \in Nat \ {0}
  BY FieldOr DEF NumberFields, Rank
<1>2. KvRanks(c, x) = Larger(1, Smaller(x.tp, q))
  BY DEF KvRanks
<1> HIDE DEF q
<1> QED
  BY <1>1, <1>2 DEF Larger, Smaller, Rank

\* A rank's shard is a number of bytes.
LEMMA ShardType ==
  ASSUME NEW c, WellFormed(c), NEW x, Rank(x), NEW w, Loaded(w) PROVE ShardBytes(w, c, x) \in Int
<1> DEFINE r == Smaller(w.replicated, w.total)
           h == Smaller(w.kv_head, w.total - r)
           k == KvRanks(c, x)
<1>1. r \in Int
  BY LargerType DEF Loaded
<1> HIDE DEF r
<1>2. h \in Int
  <2>1. w.kv_head \in Int /\ w.total - r \in Int
    BY <1>1 DEF Loaded
  <2> QED
    BY <2>1, LargerType
<1>3. k \in Nat \ {0}
  BY KvRanksType
<1> HIDE DEF h, k
<1>4. PerGpu(w.total - r - h, x.tp) \in Int /\ PerGpu(h, k) \in Int
  BY <1>1, <1>2, <1>3, CeilType DEF PerGpu, Loaded, Rank
<1>5. ShardBytes(w, c, x) = PerGpu(w.total - r - h, x.tp) + r + PerGpu(h, k)
  BY DEF ShardBytes, r, h, k
<1> QED
  BY <1>1, <1>4, <1>5

\* An expert's padding is never negative.
LEMMA PadNat == ASSUME NEW width \in Nat, NEW x, Rank(x) PROVE ExpertPad(width, x) \in Nat
<1> DEFINE a == width \div x.tp
<1>1. a \in Nat
  BY DivType DEF Rank
<1> HIDE DEF a
<1>2. RoundUp(a, 128) \in Nat /\ RoundUp(a, 128) >= a
  BY <1>1, RoundType, RoundHolds
<1> QED
  BY <1>1, <1>2 DEF ExpertPad, a

\* TRTLLM's padding is none or that of its formula.
LEMMA TrtllmRead ==
  ASSUME NEW c, NEW x
  PROVE  \/ TrtllmExpertPadding(c, x) = 0
         \/ /\ Family(c) \in {"qwen3_5", "qwen4_exp"} /\ Field(c, "num_experts", 0) \in 1 .. 2048
            /\ TrtllmExpertPadding(c, x) = Qwen3NextMoeLayers(c) * c.num_experts * 3 * c.hidden_size
                                           * ExpertPad(c.moe_intermediate_size, x) * 2
<1> DEFINE bytes == Qwen3NextMoeLayers(c) * c.num_experts * 3 * c.hidden_size * ExpertPad(c.moe_intermediate_size, x) * 2
           foreign == Family(c) \notin {"qwen3_5", "qwen4_exp"}
           other == \/ x.sm \div 10 # 10
                    \/ x.moe_backend \notin {"auto", "humming", "flashinfer_trtllm"}
                    \/ Declares(c, {"quantization_config"}) \/ Field(c, "torch_dtype", "") # "bfloat16"
                    \/ ~Field(c, "norm_topk_prob", TRUE)
           few == Field(c, "num_experts", 0) \notin 1 .. 2048
<1>1. TrtllmExpertPadding(c, x) = IF foreign \/ other \/ few THEN 0 ELSE bytes
  BY SMT DEF TrtllmExpertPadding
<1>2. few \/ Field(c, "num_experts", 0) \in 1 .. 2048
  OBVIOUS
<1>3. foreign \/ Family(c) \in {"qwen3_5", "qwen4_exp"}
  OBVIOUS
<1> HIDE DEF foreign, other, few
<1> QED
  BY <1>1, <1>2, <1>3

\* Nor is that of 16-bit experts on TRTLLM's kernel.
LEMMA TrtllmNat ==
  ASSUME NEW c, WellFormed(c), NEW x, Rank(x), "hidden_size" \in DOMAIN c
  PROVE  TrtllmExpertPadding(c, x) \in Nat
<1> DEFINE pad == ExpertPad(c.moe_intermediate_size, x)
           layers == Qwen3NextMoeLayers(c)
           bytes == layers * c.num_experts * 3 * c.hidden_size * pad * 2
<1>1. SUFFICES ASSUME TrtllmExpertPadding(c, x) = bytes, Field(c, "num_experts", 0) \in 1 .. 2048,
                      Family(c) \in {"qwen3_5", "qwen4_exp"}
               PROVE  bytes \in Nat
  <2>1. \/ TrtllmExpertPadding(c, x) = 0
        \/ /\ Family(c) \in {"qwen3_5", "qwen4_exp"} /\ Field(c, "num_experts", 0) \in 1 .. 2048
           /\ TrtllmExpertPadding(c, x) = bytes
    BY TrtllmRead
  <2> HIDE DEF bytes
  <2> QED
    BY <1>1, <2>1
<1>2. {"num_experts", "moe_intermediate_size", "num_hidden_layers"} \subseteq DOMAIN c
  BY <1>1 DEF Field, WellFormed, FieldsRead, DeltaNetFields
<1>3. c.num_experts \in Nat /\ c.hidden_size \in Nat /\ c.moe_intermediate_size \in Nat /\ c.num_hidden_layers \in Nat
  BY <1>2, NumberField DEF NumberFields
<1>4. pad \in Nat
  BY <1>3, PadNat
<1>5. layers \in Nat
  <2> DEFINE sparse == {i \in 1 .. c.num_hidden_layers :
                  /\ \A j \in DOMAIN Field(c, "mlp_only_layers", <<>>) : c.mlp_only_layers[j] # i - 1
                  /\ i % Field(c, "decoder_sparse_step", 1) = 0}
  <2>1. layers \in {0, c.num_hidden_layers, Cardinality(sparse)}
    BY <1>2 DEF Qwen3NextMoeLayers, Declares
  <2>2. IsFiniteSet(1 .. c.num_hidden_layers)
    BY <1>3, FS_Interval
  <2>3. Cardinality(sparse) \in Nat
    <3>1. sparse \in SUBSET (1 .. c.num_hidden_layers)
      OBVIOUS
    <3> HIDE DEF sparse
    <3> QED
      BY <2>2, <3>1, FS_Subset, FS_CardinalityType
  <2> HIDE DEF layers, sparse
  <2> QED
    BY <1>3, <2>1, <2>3
<1> HIDE DEF pad, layers
<1>6. layers * c.num_experts \in Nat
  BY <1>3, <1>5, TimesType
<1>7. layers * c.num_experts * 3 \in Nat
  BY <1>6, TimesType
<1>8. layers * c.num_experts * 3 * c.hidden_size \in Nat
  BY <1>3, <1>7, TimesType
<1>9. layers * c.num_experts * 3 * c.hidden_size * pad \in Nat
  BY <1>4, <1>8, TimesType
<1> QED
  BY <1>9, TimesType

\* The padding of a family with states is a number.
LEMMA PaddingType ==
  ASSUME NEW c, WellFormed(c), NEW x, Rank(x), Family(c) \in StateFamilies, "hidden_size" \in DOMAIN c
  PROVE  PaddedWeightBytes(c, x) \in Int /\ DuplicatedWeightBytes(c, x) = 0
<1>1. DuplicatedWeightBytes(c, x) = 0
  BY DEF DuplicatedWeightBytes, StateFamilies
<1>2. Mxfp4ExpertPadding(c, x) = 0
  BY DEF Mxfp4ExpertPadding, StateFamilies
<1>3. c.model_type # "gpt_oss"
  BY DEF Family, StateFamilies
<1>4. GptOssMarlinPadding(c, x) = 0
  BY <1>3 DEF GptOssMarlinPadding
<1>5. TrtllmExpertPadding(c, x) \in Nat
  BY TrtllmNat
<1> QED
  BY <1>1, <1>2, <1>4, <1>5 DEF PaddedWeightBytes

\* So are the buffers made at startup.
LEMMA StartupType ==
  ASSUME NEW c, WellFormed(c), NEW tokens \in Nat PROVE StartupBufferBytes(c, tokens) \in Nat
<1> DEFINE width == RoundUp(c.index_topk + c.index_kpool - 1, 128)
           layers == LayersOf(c, "deepseek_sparse_attention")
           layer == (tokens + 1) * width * 4 + (tokens + 1) * 4 + tokens * 4
<1>1. SUFFICES ASSUME Family(c) = "glm5_next", "index_topk" \in DOMAIN c
               PROVE  tokens * width * 4 + layers * layer \in Nat
  BY DEF StartupBufferBytes, Declares
<1>2. "index_kpool" \in DOMAIN c
  BY <1>1 DEF Family, Declares
<1>3. c.index_topk \in Nat \ {0} /\ c.index_kpool \in Nat \ {0}
  BY <1>1, <1>2, NumberField DEF NumberFields
<1>4. width \in Nat
  <2>1. c.index_topk + c.index_kpool - 1 \in Nat
    BY <1>3
  <2> QED
    BY <2>1, RoundType
<1>5. layers \in Nat
  BY LayersType
<1> HIDE DEF width, layers
<1>6. tokens * width \in Nat /\ (tokens + 1) * width \in Nat
  BY <1>4, TimesType
<1>7. layer \in Nat
  BY <1>6
<1> HIDE DEF layer
<1>8. layers * layer \in Nat
  BY <1>5, <1>7, TimesType
<1> QED
  BY <1>6, <1>8

\* And those of the first forward.
LEMMA FirstCaptureType ==
  ASSUME NEW c, WellFormed(c), NEW x, Rank(x) PROVE FirstCaptureBytes(c, x) \in Nat
<1> DEFINE k == KdaShape(c)
           linear == LayersOf(c, "linear_attention")
           share == (k.heads * k.dim) \div x.tp
           conv == linear * 3 * share * k.kernel * 4
<1>1. FirstCaptureBytes(c, x) \in {0, conv, SparseWorkspace + conv, 0 + conv}
  BY DEF FirstCaptureBytes
<1>2. k.heads \in Nat \ {0} /\ k.dim \in Nat \ {0} /\ k.kernel \in Nat \ {0}
  BY ShapeType
<1>3. linear \in Nat
  BY LayersType
<1> HIDE DEF k, linear
<1>4. share \in Nat
  <2>1. k.heads * k.dim \in Nat
    BY <1>2, TimesType
  <2> QED
    BY <2>1, DivType DEF Rank
<1> HIDE DEF share
<1>5. linear * 3 \in Nat
  BY <1>3
<1>6. linear * 3 * share \in Nat
  BY <1>4, <1>5, TimesType
<1>7. linear * 3 * share * k.kernel \in Nat
  BY <1>2, <1>6, TimesType
<1>8. conv \in Nat
  BY <1>7, TimesType
<1> HIDE DEF conv
<1> QED
  BY <1>1, <1>8, BuffersAssumption

(* The weights of a family with states.                                    *)
WeightOf(m, x) ==
    ShardBytes(m.w, m, x) + DuplicatedWeightBytes(m, x) + PaddedWeightBytes(m, x) + StartupBufferBytes(m, x.tokens)

\* The weights counted on a GPU are a number.
LEMMA WeightType ==
  ASSUME NEW m, WellFormed(m), Loaded(m.w), NEW x, Launched(x), Family(m) \in StateFamilies, "hidden_size" \in DOMAIN m
  PROVE  WeightOf(m, x) \in Int
<1>1. Rank(x) /\ x.tokens \in Nat
  BY DEF Launched
<1>2. ShardBytes(m.w, m, x) \in Int
  BY <1>1, ShardType
<1>3. DuplicatedWeightBytes(m, x) = 0 /\ PaddedWeightBytes(m, x) \in Int
  BY <1>1, PaddingType
<1>4. StartupBufferBytes(m, x.tokens) \in Nat
  BY <1>1, StartupType
<1> QED
  BY <1>2, <1>3, <1>4 DEF WeightOf

-----------------------------------------------------------------------------
(* The terms of a prediction: what fewer sequences make smaller.           *)

(* The same launch with at most as many sequences.                         *)
Fewer(y, x) ==
    /\ y.tp = x.tp /\ y.kv_dtype = x.kv_dtype /\ y.kv_bytes = x.kv_bytes /\ y.model_bytes = x.model_bytes
    /\ y.sm = x.sm /\ y.moe_backend = x.moe_backend /\ y.memory = x.memory /\ y.util = x.util
    /\ y.isl = x.isl /\ y.osl = x.osl /\ y.batch = x.batch /\ y.tokens = x.tokens /\ y.max_len = x.max_len
    /\ y.eager = x.eager /\ y.language_only = x.language_only
    /\ y.seqs \in Nat \ {0} /\ y.seqs <= x.seqs

\* A launch with fewer sequences is one.
LEMMA FewerLaunched == ASSUME NEW x, Launched(x), NEW y, Fewer(y, x) PROVE Launched(y)
  BY DEF Launched, Fewer, Rank, SeqLen

\* A weight has one, two or four bytes.
LEMMA ModelType == ASSUME NEW m PROVE ModelBytes(m) \in Nat \ {0}
<1>1. DtypeBytes(m.torch_dtype) \in {1, 2, 4}
  BY DEF DtypeBytes
<1> QED
  BY <1>1 DEF ModelBytes

(* The numbers of fields that may be declared.                             *)
LEMMA DeclaredOr ==
  ASSUME NEW m, WellFormed(m), NEW f \in NumberFields, NEW d \in Nat PROVE Field(m, f, d) \in Nat
  BY FieldOr

\* The first field declared of several is a number.
LEMMA FirstType == ASSUME NEW m, WellFormed(m), NEW fields \in SUBSET NumberFields PROVE FirstOf(m, fields) \in Nat
<1>1. CASE fields \cap DOMAIN m = {}
  BY <1>1 DEF FirstOf
<1>2. CASE fields \cap DOMAIN m # {}
  <2> DEFINE f == CHOOSE f \in fields : f \in DOMAIN m
  <2>1. f \in fields /\ f \in DOMAIN m
    BY <1>2
  <2>2. FirstOf(m, fields) = m[f]
    BY <1>2 DEF FirstOf
  <2> HIDE DEF f
  <2> QED
    BY <2>1, <2>2, NumberField
<1> QED
  BY <1>1, <1>2

\* A Mamba-2 hybrid's activations are a number.
LEMMA Mamba2Type ==
  ASSUME NEW m, WellFormed(m), "hidden_size" \in DOMAIN m, NEW x, Launched(x) PROVE Mamba2PieceBytes(m, x) \in Nat
<1> DEFINE heads == CeilDiv(m.mamba_num_heads, x.tp)
           groups == CeilDiv(m.n_groups, x.tp)
           b == x.tokens * ModelBytes(m)
           width == 2 * heads * m.mamba_head_dim + 2 * groups * m.ssm_state_size + heads
           projected == b * width
           ssm == b * heads * m.mamba_head_dim
           hidden == b * m.hidden_size
           sum == 2 * projected + ssm + 2 * hidden + Larger(hidden, ssm)
<1>1. Mamba2PieceBytes(m, x)
        = IF ~Declares(m, {"mamba_num_heads", "mamba_head_dim", "n_groups", "ssm_state_size"}) THEN 0 ELSE sum
  BY DEF Mamba2PieceBytes
<1>2. SUFFICES ASSUME {"mamba_num_heads", "mamba_head_dim", "n_groups", "ssm_state_size"} \subseteq DOMAIN m
               PROVE  sum \in Nat
  <2> HIDE DEF sum
  <2> QED
    BY <1>1 DEF Declares
<1>3. /\ m.mamba_num_heads \in Nat \ {0} /\ m.mamba_head_dim \in Nat \ {0}
      /\ m.n_groups \in Nat \ {0} /\ m.ssm_state_size \in Nat \ {0}
      /\ m.hidden_size \in Nat \ {0}
  BY <1>2, NumberField DEF NumberFields
<1>4. heads \in Nat /\ groups \in Nat
  <2>1. x.tp \in Nat \ {0}
    BY DEF Launched, Rank
  <2> QED
    BY <1>3, <2>1, CeilNat
<1>5. b \in Nat
  BY ModelType, TimesType DEF Launched
<1> HIDE DEF heads, groups, b
<1>6. width \in Nat
  <2>1. 2 * heads \in Nat /\ 2 * groups \in Nat
    BY <1>4
  <2>2. 2 * heads * m.mamba_head_dim \in Nat /\ 2 * groups * m.ssm_state_size \in Nat
    BY <1>3, <2>1, TimesType
  <2> QED
    BY <1>4, <2>2
<1> HIDE DEF width
<1>7. projected \in Nat /\ hidden \in Nat /\ b * heads \in Nat
  BY <1>3, <1>4, <1>5, <1>6, TimesType
<1>8. ssm \in Nat
  BY <1>3, <1>7, TimesType
<1> HIDE DEF projected, ssm, hidden
<1>9. Larger(hidden, ssm) \in Nat
  BY <1>7, <1>8 DEF Larger
<1> QED
  BY <1>7, <1>8, <1>9

\* The fused-MoE workspace is.
LEMMA MoeType ==
  ASSUME NEW m, WellFormed(m), "hidden_size" \in DOMAIN m, NEW x, Launched(x) PROVE MoeWorkspaceBytes(m, x) \in Nat
<1> DEFINE inner == FirstOf(m, IF Declares(m, {"moe_intermediate_size"}) THEN {"moe_intermediate_size"} ELSE {"intermediate_size"})
           width == CeilDiv(inner, x.tp)
           w13 == IF Declares(m, {"mlp_hidden_act"}) THEN width ELSE 2 * width
           rows == Larger(width, m.hidden_size) + Larger(w13, m.hidden_size)
           bytes == x.tokens * TopK(m) * rows * ModelBytes(m)
           none == Experts(m) = 0 \/ TopK(m) = 0 \/ inner = 0 \/ TrtllmFp8Experts(m, x)
<1>1. MoeWorkspaceBytes(m, x) = IF none THEN 0 ELSE bytes
  BY DEF MoeWorkspaceBytes
<1>2. inner \in Nat
  BY FirstType DEF NumberFields
<1>3. TopK(m) \in Nat
  BY FirstType DEF NumberFields, TopK
<1>4. m.hidden_size \in Nat
  BY NumberField DEF NumberFields
<1> HIDE DEF inner, none
<1>5. width \in Nat
  <2>1. x.tp \in Nat \ {0}
    BY DEF Launched, Rank
  <2> QED
    BY <1>2, <2>1, CeilNat
<1> HIDE DEF width
<1>6. w13 \in Nat
  BY <1>5
<1> HIDE DEF w13
<1>7. rows \in Nat
  BY <1>4, <1>5, <1>6 DEF Larger
<1> HIDE DEF rows
<1>8. x.tokens * TopK(m) \in Nat
  BY <1>3, TimesType DEF Launched
<1>9. x.tokens * TopK(m) * rows \in Nat
  BY <1>7, <1>8, TimesType
<1>10. bytes \in Nat
  BY <1>9, ModelType, TimesType
<1> HIDE DEF bytes
<1> QED
  BY <1>1, <1>10

\* GLM5Next's indexer workspace is.
LEMMA KpoolType ==
  ASSUME NEW m, WellFormed(m), NEW len \in Nat PROVE KpoolIndexerWorkspaceBytes(m, len) \in Nat
<1> DEFINE rows == IndexerRowsPerToken * len
           bytes == RoundUp(rows * m.index_head_dim, WorkspaceAlign) + RoundUp(rows * 4, WorkspaceAlign)
                    + RoundUp(RadixWorkspace, WorkspaceAlign)
<1>1. KpoolIndexerWorkspaceBytes(m, len) = IF ~Declares(m, {"index_head_dim", "index_kpool"}) THEN 0 ELSE bytes
  BY DEF KpoolIndexerWorkspaceBytes
<1>2. ASSUME "index_head_dim" \in DOMAIN m PROVE bytes \in Nat
  <2>1. m.index_head_dim \in Nat
    BY <1>2, NumberField DEF NumberFields
  <2>2. rows \in Nat
    BY DEF IndexerRowsPerToken
  <2> HIDE DEF rows
  <2>3. rows * m.index_head_dim \in Nat /\ rows * 4 \in Nat
    BY <2>1, <2>2, TimesType
  <2> DEFINE a == rows * m.index_head_dim
             b == rows * 4
  <2> HIDE DEF a, b
  <2>4. RoundUp(a, WorkspaceAlign) \in Nat /\ RoundUp(b, WorkspaceAlign) \in Nat
    BY <2>3, RoundType DEF a, b, WorkspaceAlign
  <2>5. RoundUp(RadixWorkspace, WorkspaceAlign) \in Nat
    BY ClassAssumption, RoundType DEF WorkspaceAlign
  <2> QED
    BY <2>4, <2>5 DEF a, b
<1> HIDE DEF bytes
<1> QED
  BY <1>1, <1>2 DEF Declares

\* Rounding up keeps the order.
LEMMA RoundGrows ==
  ASSUME NEW a \in Int, NEW b \in Int, a <= b, NEW k \in Nat \ {0} PROVE RoundUp(a, k) <= RoundUp(b, k)
<1>1. CeilDiv(a, k) \in Int /\ CeilDiv(b, k) \in Int /\ CeilDiv(a, k) <= CeilDiv(b, k)
  BY CeilType, CeilGrows
<1> QED
  BY <1>1, TimesGrows DEF RoundUp

\* What does not depend on the sequences.
LEMMA FewerSame ==
  ASSUME NEW m, NEW x, NEW y, Fewer(y, x)
  PROVE  /\ SeqLen(y) = SeqLen(x) /\ Mamba2PieceBytes(m, y) = Mamba2PieceBytes(m, x)
         /\ MoeWorkspaceBytes(m, y) = MoeWorkspaceBytes(m, x) /\ GqaForwardBytes(m, y) = GqaForwardBytes(m, x)
         /\ (MultimodalWrapper(m, y) <=> MultimodalWrapper(m, x))
<1>1. SeqLen(y) = SeqLen(x) /\ Mamba2PieceBytes(m, y) = Mamba2PieceBytes(m, x)
      /\ (MultimodalWrapper(m, y) <=> MultimodalWrapper(m, x))
  BY DEF Fewer, SeqLen, Mamba2PieceBytes, MultimodalWrapper
<1>2. TrtllmFp8Experts(m, y) <=> TrtllmFp8Experts(m, x)
  BY DEF Fewer, TrtllmFp8Experts
<1>3. MoeWorkspaceBytes(m, y) = MoeWorkspaceBytes(m, x)
  BY <1>2 DEF Fewer, MoeWorkspaceBytes
<1>4. GqaForwardBytes(m, y) = GqaForwardBytes(m, x)
  BY <1>3 DEF Fewer, GqaForwardBytes
<1> QED
  BY <1>1, <1>3, <1>4

\* The forward of grouped attention is a number.
LEMMA GqaType ==
  ASSUME NEW m, WellFormed(m), "hidden_size" \in DOMAIN m, NEW x, Launched(x) PROVE GqaForwardBytes(m, x) \in Nat
<1> DEFINE heads == Field(m, "num_attention_heads", 0)
           own == Field(m, "head_dim", m.hidden_size \div heads)
           dim == Larger(own, Field(m, "global_head_dim", 0))
           share == CeilDiv(heads, x.tp)
           row == share * dim + 2 * m.hidden_size
           live == x.tokens * ModelBytes(m) * row
           moe == MoeWorkspaceBytes(m, x)
           dense == x.tokens * 3 * CeilDiv(m.intermediate_size, x.tp) * ModelBytes(m)
<1>1. GqaForwardBytes(m, x) = IF heads = 0 THEN 0 ELSE IF moe > 0 THEN live + moe
                              ELSE IF ~Declares(m, {"intermediate_size"}) THEN 0 ELSE live + dense
  BY DEF GqaForwardBytes
<1>2. x.tp \in Nat \ {0} /\ x.tokens \in Nat /\ ModelBytes(m) \in Nat
  BY ModelType DEF Launched, Rank
<1>3. m.hidden_size \in Nat \ {0}
  BY NumberField DEF NumberFields
<1>4. heads \in Nat
  BY DeclaredOr DEF NumberFields
<1>5. moe \in Nat
  BY MoeType
<1>6. ASSUME heads # 0 PROVE live \in Nat
  <2>1. own \in Nat
    <3> HIDE DEF heads
    <3>1. m.hidden_size \div heads \in Nat
      BY <1>3, <1>4, <1>6, DivType
    <3> QED
      BY <3>1, DeclaredOr DEF NumberFields
  <2>2. Field(m, "global_head_dim", 0) \in Nat
    BY DeclaredOr DEF NumberFields
  <2>3. dim \in Nat
    <3> HIDE DEF own
    <3> QED
      BY <2>1, <2>2 DEF Larger
  <2> HIDE DEF heads, dim
  <2>4. share \in Nat
    BY <1>2, <1>4, CeilNat
  <2> HIDE DEF share
  <2>5. share * dim \in Nat
    BY <2>3, <2>4, TimesType
  <2>6. row \in Nat
    BY <1>3, <2>5
  <2> HIDE DEF row
  <2>7. x.tokens * ModelBytes(m) \in Nat
    BY <1>2, TimesType
  <2> QED
    BY <2>6, <2>7, TimesType
<1>7. ASSUME "intermediate_size" \in DOMAIN m PROVE dense \in Nat
  <2>1. m.intermediate_size \in Nat
    BY <1>7, NumberField DEF NumberFields
  <2>2. CeilDiv(m.intermediate_size, x.tp) \in Nat
    BY <1>2, <2>1, CeilNat
  <2>3. x.tokens * 3 \in Nat
    BY <1>2
  <2>4. x.tokens * 3 * CeilDiv(m.intermediate_size, x.tp) \in Nat
    BY <2>2, <2>3, TimesType
  <2> QED
    BY <1>2, <2>4, TimesType
<1> HIDE DEF heads, live, moe, dense
<1> QED
  BY <1>1, <1>4, <1>5, <1>6, <1>7 DEF Declares

\* The fields that make a forward MLA's.
MlaFields == {"kv_lora_rank", "qk_nope_head_dim", "v_head_dim", "num_attention_heads"}

\* An MLA forward's workspace shrinks with the sequences.
LEMMA MlaGrows ==
  ASSUME NEW m, WellFormed(m), "hidden_size" \in DOMAIN m, MlaFields \subseteq DOMAIN m,
         NEW block \in Nat \ {0}, NEW x, Launched(x), NEW y, Fewer(y, x)
  PROVE  /\ MlaForwardBytes(m, x, block) \in Nat /\ MlaForwardBytes(m, y, block) \in Nat
         /\ MlaForwardBytes(m, y, block) <= MlaForwardBytes(m, x, block)
<1> DEFINE heads == CeilDiv(m.num_attention_heads, x.tp)
           len == SeqLen(x)
           width(n) == RoundUp(Larger(Smaller(Larger(8 * len, 4 * n * block), MlaWorkspaceCap), block), block)
           rope == Field(m, "qk_rope_head_dim", 0)
           head == Larger(m.qk_nope_head_dim + rope, m.v_head_dim)
           pair == m.qk_nope_head_dim + m.v_head_dim
           rest == x.tokens * (5 * heads * head + 7 * m.hidden_size + 2 * m.kv_lora_rank)
           side == Larger(MoeWorkspaceBytes(m, x), KpoolIndexerWorkspaceBytes(m, len))
           bytes(n) == ModelBytes(m) * (width(n) * heads * pair + rest) + side
<1>1. MlaForwardBytes(m, x, block) = bytes(x.seqs)
  BY DEF MlaForwardBytes
<1>2. MlaForwardBytes(m, y, block) = bytes(y.seqs)
  <2>1. SeqLen(y) = SeqLen(x) /\ MoeWorkspaceBytes(m, y) = MoeWorkspaceBytes(m, x) /\ y.tp = x.tp /\ y.tokens = x.tokens
    BY FewerSame DEF Fewer
  <2> QED
    BY <2>1 DEF MlaForwardBytes
<1>3. x.tp \in Nat \ {0} /\ x.tokens \in Nat /\ len \in Nat /\ x.seqs \in Nat /\ y.seqs \in Nat /\ y.seqs <= x.seqs
  BY DEF Launched, Rank, Fewer
<1>4. /\ m.kv_lora_rank \in Nat /\ m.qk_nope_head_dim \in Nat /\ m.v_head_dim \in Nat
      /\ m.num_attention_heads \in Nat /\ m.hidden_size \in Nat
  BY NumberField DEF NumberFields, MlaFields
<1>5. heads \in Nat
  BY <1>3, <1>4, CeilNat
<1>6. rope \in Nat
  BY DeclaredOr DEF NumberFields
<1> HIDE DEF heads, rope
<1>7. head \in Nat /\ pair \in Nat
  BY <1>4, <1>6 DEF Larger
<1> HIDE DEF head, pair
<1>8. rest \in Nat
  <2>1. 5 * heads \in Nat
    BY <1>5
  <2>2. 5 * heads * head \in Nat
    BY <1>7, <2>1, TimesType
  <2> DEFINE row == 5 * heads * head + 7 * m.hidden_size + 2 * m.kv_lora_rank
  <2>3. row \in Nat
    BY <1>4, <2>2
  <2> HIDE DEF row
  <2>4. x.tokens * row \in Nat
    BY <1>3, <2>3, TimesType
  <2> QED
    BY <2>4 DEF row
<1>9. side \in Nat
  <2>1. MoeWorkspaceBytes(m, x) \in Nat
    BY MoeType
  <2>2. KpoolIndexerWorkspaceBytes(m, len) \in Nat
    BY <1>3, KpoolType
  <2> QED
    BY <2>1, <2>2 DEF Larger
<1> HIDE DEF rest, side, len
<1>10. \A n \in Nat : width(n) \in Nat
  <2> SUFFICES ASSUME NEW n \in Nat PROVE width(n) \in Nat
    OBVIOUS
  <2> DEFINE c == 4 * n * block
             s == Larger(Smaller(Larger(8 * len, c), MlaWorkspaceCap), block)
  <2>1. 4 * n \in Nat
    OBVIOUS
  <2>2. c \in Nat
    BY <2>1, TimesType
  <2> HIDE DEF c
  <2>3. s \in Nat
    BY <1>3, <2>2 DEF Larger, Smaller, MlaWorkspaceCap
  <2> HIDE DEF s
  <2>4. RoundUp(s, block) \in Nat
    BY <2>3, RoundType
  <2> QED
    BY <2>4 DEF s, c
<1>11. width(y.seqs) <= width(x.seqs)
  <2> DEFINE c(n) == 4 * n * block
             s(n) == Larger(Smaller(Larger(8 * len, c(n)), MlaWorkspaceCap), block)
  <2>1. 4 * y.seqs \in Nat /\ 4 * x.seqs \in Nat /\ 4 * y.seqs <= 4 * x.seqs
    BY <1>3
  <2>2. c(y.seqs) \in Nat /\ c(x.seqs) \in Nat /\ c(y.seqs) <= c(x.seqs)
    BY <2>1, TimesType, TimesGrows
  <2> HIDE DEF c
  <2>3. s(y.seqs) \in Nat /\ s(x.seqs) \in Nat /\ s(y.seqs) <= s(x.seqs)
    BY <1>3, <2>2 DEF Larger, Smaller, MlaWorkspaceCap
  <2> HIDE DEF s
  <2>4. RoundUp(s(y.seqs), block) <= RoundUp(s(x.seqs), block)
    BY <2>3, RoundGrows
  <2> QED
    BY <2>4 DEF s, c
<1>12. width(x.seqs) \in Nat /\ width(y.seqs) \in Nat
  BY <1>3, <1>10
<1> DEFINE v == width(x.seqs)
           w == width(y.seqs)
<1> HIDE DEF width
<1>13. v * heads \in Nat /\ w * heads \in Nat /\ w * heads <= v * heads
  BY <1>5, <1>11, <1>12, TimesType, TimesGrows
<1>14. v * heads * pair \in Nat /\ w * heads * pair \in Nat /\ w * heads * pair <= v * heads * pair
  BY <1>7, <1>13, TimesType, TimesGrows
<1> DEFINE f == v * heads * pair + rest
           g == w * heads * pair + rest
<1>15. f \in Nat /\ g \in Nat /\ g <= f
  BY <1>8, <1>14
<1> HIDE DEF f, g
<1>16. ModelBytes(m) \in Nat
  BY ModelType
<1>17. ModelBytes(m) * f \in Nat /\ ModelBytes(m) * g \in Nat /\ ModelBytes(m) * g <= ModelBytes(m) * f
  BY <1>15, <1>16, TimesType, TimesGrows
<1>18. bytes(x.seqs) = ModelBytes(m) * f + side /\ bytes(y.seqs) = ModelBytes(m) * g + side
  BY DEF f, g
<1> HIDE DEF bytes
<1> QED
  BY <1>1, <1>2, <1>9, <1>17, <1>18

(* The forward's peak does not grow when fewer sequences run.              *)
LEMMA ForwardGrows ==
  ASSUME NEW m, WellFormed(m), "hidden_size" \in DOMAIN m, NEW block,
         MlaFields \subseteq DOMAIN m => block \in Nat \ {0}, NEW x, Launched(x), NEW y, Fewer(y, x)
  PROVE  /\ ForwardLiveBytes(m, x, block) \in Nat /\ ForwardLiveBytes(m, y, block) \in Nat
         /\ ForwardLiveBytes(m, y, block) <= ForwardLiveBytes(m, x, block)
<1>1. /\ Mamba2PieceBytes(m, x) \in Nat /\ MoeWorkspaceBytes(m, x) \in Nat /\ GqaForwardBytes(m, x) \in Nat
  BY Mamba2Type, MoeType, GqaType
<1>2. /\ Mamba2PieceBytes(m, y) = Mamba2PieceBytes(m, x) /\ MoeWorkspaceBytes(m, y) = MoeWorkspaceBytes(m, x)
      /\ GqaForwardBytes(m, y) = GqaForwardBytes(m, x)
  BY FewerSame
<1>3. CASE MlaFields \subseteq DOMAIN m
  <2>1. /\ MlaForwardBytes(m, x, block) \in Nat /\ MlaForwardBytes(m, y, block) \in Nat
        /\ MlaForwardBytes(m, y, block) <= MlaForwardBytes(m, x, block)
    BY <1>3, MlaGrows
  <2> QED
    BY <1>1, <1>2, <2>1 DEF ForwardLiveBytes
<1>4. CASE ~(MlaFields \subseteq DOMAIN m)
  <2>1. ~Declares(m, {"kv_lora_rank", "qk_nope_head_dim", "v_head_dim", "num_attention_heads"})
    BY <1>4 DEF MlaFields, Declares
  <2> QED
    BY <1>1, <1>2, <2>1 DEF ForwardLiveBytes
<1> QED
  BY <1>3, <1>4

\* The merged tokens of an image are a number.
LEMMA QwenVlType ==
  ASSUME NEW pixels \in Nat, NEW unit \in Nat \ {0} PROVE QwenVlMergedTokens(pixels, unit) \in Nat
<1> DEFINE top == pixels \div (unit * unit)
           fits(n) == \E d \in 1 .. n : d * d <= n /\ n % d = 0 /\ n <= 200 * d * d
           sizes == {n \in 1 .. top : fits(n)}
<1>1. QwenVlMergedTokens(pixels, unit) = IF sizes = {} THEN 0 ELSE Most(sizes)
  BY DEF QwenVlMergedTokens
<1>2. top \in Nat
  <2>1. unit * unit \in Nat \ {0}
    BY TimesType
  <2> QED
    BY <2>1, DivType
<1> HIDE DEF top
<1>3. sizes \in SUBSET (1 .. top)
  <2> HIDE DEF fits
  <2> QED
    OBVIOUS
<1> HIDE DEF sizes
<1>4. IsFiniteSet(sizes) /\ sizes \subseteq Nat
  <2>1. IsFiniteSet(1 .. top)
    BY <1>2, FS_Interval
  <2>2. IsFiniteSet(sizes)
    BY <1>3, <2>1, FS_Subset
  <2> QED
    BY <1>3, <2>2
<1>5. ASSUME sizes # {} PROVE Most(sizes) \in Nat
  <2>1. Most(sizes) \in sizes
    BY <1>4, <1>5, MostNat
  <2> QED
    BY <1>4, <2>1
<1> QED
  BY <1>1, <1>5

\* The fields without which a tower is not traced.
TowerFields == {"patch_size", "merge_size", "temporal_patch_size"}

\* The dummy items of a tower are finitely many numbers.
LEMMA ItemsType ==
  ASSUME NEW m, WellFormed(m), NEW len, VisionFamily(m.model_type) # "muse_glimmer"
  PROVE  /\ IsFiniteSet(EncoderItemTokens(m, len)) /\ EncoderItemTokens(m, len) \subseteq Nat \ {0}
         /\ EncoderItemTokens(m, len) # {} => TowerFields \subseteq DOMAIN m
<1> DEFINE qwen(n) == QwenVlMergedTokens(n, m.patch_size * m.merge_size)
           edge(f) == IF Declares(m, {f}) THEN {m[f]} ELSE {}
           images == {qwen(n) : n \in edge("image_longest_edge")}
           videos == {qwen(n \div m.temporal_patch_size) : n \in edge("video_longest_edge")}
           tokens == {n \in images \cup videos : n > 0}
<1>1. EncoderItemTokens(m, len) = {} \/ (Declares(m, TowerFields) /\ EncoderItemTokens(m, len) = tokens)
  <2>1. VisionFamily(m.model_type) \in {"qwen3_vl", "none"}
    BY DEF VisionFamily
  <2>2. CASE ~Declares(m, TowerFields)
    BY <2>2 DEF EncoderItemTokens, TowerFields
  <2>3. CASE Declares(m, TowerFields) /\ VisionFamily(m.model_type) = "none"
    BY <2>3 DEF EncoderItemTokens, TowerFields
  <2>4. CASE Declares(m, TowerFields) /\ VisionFamily(m.model_type) = "qwen3_vl"
    <3>1. EncoderItemTokens(m, len) = tokens
      BY <2>4 DEF EncoderItemTokens, TowerFields
    <3> QED
      BY <2>4, <3>1
  <2> QED
    BY <2>1, <2>2, <2>3, <2>4
<1>2. SUFFICES ASSUME TowerFields \subseteq DOMAIN m PROVE IsFiniteSet(tokens) /\ tokens \subseteq Nat \ {0}
  <2>1. IsFiniteSet({})
    BY FS_EmptySet
  <2> HIDE DEF tokens
  <2> QED
    BY <1>1, <2>1 DEF Declares
<1>3. m.patch_size \in Nat \ {0} /\ m.merge_size \in Nat \ {0} /\ m.temporal_patch_size \in Nat \ {0}
  BY <1>2, NumberField DEF NumberFields, EncoderNames, TowerFields
<1>4. \A n \in Nat : qwen(n) \in Nat
  <2>1. m.patch_size * m.merge_size \in Nat \ {0}
    BY <1>3, TimesType
  <2> QED
    BY <2>1, QwenVlType
<1>5. \A f \in {"image_longest_edge", "video_longest_edge"} : edge(f) \subseteq Nat
  BY NumberField DEF Declares, NumberFields, EncoderNames
<1>6. \A n \in Nat : n \div m.temporal_patch_size \in Nat
  BY <1>3, DivType
<1> DEFINE a == qwen(m.image_longest_edge)
           b == qwen(m.video_longest_edge \div m.temporal_patch_size)
<1>7. images \subseteq {a} /\ videos \subseteq {b}
  OBVIOUS
<1>8. images \subseteq Nat /\ videos \subseteq Nat
  <2> HIDE DEF qwen, edge
  <2> QED
    BY <1>4, <1>5, <1>6
<1> HIDE DEF a, b, images, videos
<1>9. tokens \in SUBSET ({a} \cup {b}) /\ tokens \subseteq Nat \ {0}
  <2>1. tokens \subseteq images \cup videos /\ \A n \in tokens : n > 0
    OBVIOUS
  <2> HIDE DEF tokens
  <2>2. tokens \subseteq Nat /\ 0 \notin tokens
    BY <1>8, <2>1
  <2> QED
    BY <1>7, <2>1, <2>2
<1>10. IsFiniteSet({a} \cup {b})
  BY FS_Singleton, FS_Union
<1> HIDE DEF tokens
<1> QED
  BY <1>9, <1>10, FS_Subset

(* A tower's moment grows with the batch of dummy items.                   *)
LEMMA PeakGrows ==
  ASSUME NEW m, WellFormed(m), VisionFamily(m.model_type) # "muse_glimmer",
         TowerFields \cup {"vision_hidden_size"} \subseteq DOMAIN m,
         NEW item \in Nat \ {0}, NEW x, Launched(x), NEW y, Fewer(y, x)
  PROVE  EncoderPeak(m, x, item) \in Nat /\ EncoderPeak(m, y, item) \in Nat
         /\ EncoderPeak(m, y, item) <= EncoderPeak(m, x, item)
<1> DEFINE len == SeqLen(x)
           most == Larger(x.tokens, item) \div item
           room == Larger(1, len \div item)
           items(n) == Larger(1, Smaller(most, n * room))
           perItem == item * m.merge_size * m.merge_size
           pixel == 3 * m.patch_size * m.patch_size
           unit(p) == p * m.vision_hidden_size * ModelBytes(m)
           sharded(p) == CeilDiv(unit(p), x.tp)
           attention(p) == 3 * sharded(p) + unit(p)
           peak(p) == 3 * unit(p) + 5 * sharded(p)
                      + (Larger(2 * sharded(p), attention(p)) + p * pixel * m.temporal_patch_size * 2)
<1>1. EncoderPeak(m, x, item) = peak(items(x.seqs) * perItem)
  BY DEF EncoderPeak
<1>2. EncoderPeak(m, y, item) = peak(items(y.seqs) * perItem)
  <2>1. SeqLen(y) = SeqLen(x) /\ y.tp = x.tp /\ y.tokens = x.tokens
    BY FewerSame DEF Fewer
  <2> QED
    BY <2>1 DEF EncoderPeak
<1>3. x.tp \in Nat \ {0} /\ x.tokens \in Nat /\ len \in Nat /\ x.seqs \in Nat /\ y.seqs \in Nat /\ y.seqs <= x.seqs
  BY DEF Launched, Rank, Fewer
<1>4. /\ m.patch_size \in Nat \ {0} /\ m.merge_size \in Nat \ {0} /\ m.temporal_patch_size \in Nat \ {0}
      /\ m.vision_hidden_size \in Nat \ {0}
  BY NumberField DEF NumberFields, EncoderNames, TowerFields
<1>5. ModelBytes(m) \in Nat \ {0}
  BY ModelType
<1>6. perItem \in Nat
  BY <1>4, Product3
<1>7. pixel \in Nat
  BY <1>4, Product3
<1>8. items(x.seqs) \in Nat /\ items(y.seqs) \in Nat /\ items(y.seqs) <= items(x.seqs)
  <2>1. Larger(x.tokens, item) \in Nat
    BY <1>3 DEF Larger
  <2>2. most \in Nat /\ len \div item \in Nat
    BY <1>3, <2>1, DivType
  <2>3. room \in Nat
    BY <2>2 DEF Larger
  <2> HIDE DEF most, room
  <2>4. x.seqs * room \in Nat /\ y.seqs * room \in Nat /\ y.seqs * room <= x.seqs * room
    BY <1>3, <2>3, TimesType, TimesGrows
  <2> DEFINE a == x.seqs * room
             b == y.seqs * room
  <2>5. a \in Nat /\ b \in Nat /\ b <= a
    BY <2>4
  <2> HIDE DEF a, b
  <2>6. Larger(1, Smaller(most, a)) \in Nat /\ Larger(1, Smaller(most, b)) \in Nat
        /\ Larger(1, Smaller(most, b)) <= Larger(1, Smaller(most, a))
    BY <2>2, <2>5 DEF Larger, Smaller
  <2> QED
    BY <2>6 DEF a, b
<1> HIDE DEF items, perItem, pixel
<1> DEFINE p == items(x.seqs) * perItem
           q == items(y.seqs) * perItem
<1>9. p \in Nat /\ q \in Nat /\ q <= p
  BY <1>6, <1>8, TimesType, TimesGrows
<1> HIDE DEF p, q
<1>10. unit(p) \in Nat /\ unit(q) \in Nat /\ unit(q) <= unit(p)
  <2>1. /\ p * m.vision_hidden_size \in Nat /\ q * m.vision_hidden_size \in Nat
        /\ q * m.vision_hidden_size <= p * m.vision_hidden_size
    BY <1>4, <1>9, TimesType, TimesGrows
  <2> QED
    BY <1>5, <2>1, TimesType, TimesGrows
<1> HIDE DEF unit
<1>11. sharded(p) \in Nat /\ sharded(q) \in Nat /\ sharded(q) <= sharded(p)
  BY <1>3, <1>10, CeilNat, CeilGrows
<1> HIDE DEF sharded
<1> DEFINE r == p * pixel * m.temporal_patch_size
           s == q * pixel * m.temporal_patch_size
<1>12. r \in Nat /\ s \in Nat /\ s <= r
  <2>1. p * pixel \in Nat /\ q * pixel \in Nat /\ q * pixel <= p * pixel
    BY <1>7, <1>9, TimesType, TimesGrows
  <2> QED
    BY <1>4, <2>1, TimesType, TimesGrows
<1>13. /\ peak(p) = 3 * unit(p) + 5 * sharded(p) + (Larger(2 * sharded(p), attention(p)) + r * 2)
       /\ peak(q) = 3 * unit(q) + 5 * sharded(q) + (Larger(2 * sharded(q), attention(q)) + s * 2)
  OBVIOUS
<1> HIDE DEF r, s, peak
<1>14. peak(p) \in Nat /\ peak(q) \in Nat /\ peak(q) <= peak(p)
  BY <1>10, <1>11, <1>12, <1>13 DEF Larger
<1> QED
  BY <1>1, <1>2, <1>14 DEF p, q

\* The encoder's peak shrinks with the sequences.
LEMMA EncoderGrows ==
  ASSUME NEW m, WellFormed(m), VisionFamily(m.model_type) # "muse_glimmer",
         NEW x, Launched(x), NEW y, Fewer(y, x)
  PROVE  EncoderPeakBytes(m, x) \in Nat /\ EncoderPeakBytes(m, y) \in Nat
         /\ EncoderPeakBytes(m, y) <= EncoderPeakBytes(m, x)
<1> DEFINE items == EncoderItemTokens(m, SeqLen(x))
<1>1. EncoderPeakBytes(m, x)
        = IF ~Declares(m, {"vision_hidden_size"}) \/ items = {} THEN 0 ELSE EncoderPeak(m, x, Most(items))
  BY DEF EncoderPeakBytes
<1>2. EncoderPeakBytes(m, y)
        = IF ~Declares(m, {"vision_hidden_size"}) \/ items = {} THEN 0 ELSE EncoderPeak(m, y, Most(items))
  BY FewerSame DEF EncoderPeakBytes
<1>3. IsFiniteSet(items) /\ items \subseteq Nat \ {0} /\ (items # {} => TowerFields \subseteq DOMAIN m)
  BY ItemsType
<1> HIDE DEF items
<1>4. ASSUME "vision_hidden_size" \in DOMAIN m, items # {}
      PROVE  EncoderPeak(m, x, Most(items)) \in Nat /\ EncoderPeak(m, y, Most(items)) \in Nat
             /\ EncoderPeak(m, y, Most(items)) <= EncoderPeak(m, x, Most(items))
  <2>1. Most(items) \in items
    BY <1>3, <1>4, MostNat
  <2> QED
    BY <1>3, <1>4, <2>1, PeakGrows
<1> QED
  BY <1>1, <1>2, <1>4 DEF Declares

\* The padded vocabulary is a number.
LEMMA VocabType ==
  ASSUME NEW m, WellFormed(m), {"vocab_size", "hidden_size"} \subseteq DOMAIN m
  PROVE  m.hidden_size \in Nat /\ PaddedVocab(m) \in Nat /\ PaddedVocab(m) * m.hidden_size * ModelBytes(m) \in Nat
<1>1. m.hidden_size \in Nat /\ m.vocab_size \in Nat
  BY NumberField DEF NumberFields
<1>2. PaddedVocab(m) \in Nat
  BY <1>1, RoundType DEF PaddedVocab, VocabPadding
<1>3. PaddedVocab(m) * m.hidden_size \in Nat
  BY <1>1, <1>2, TimesType
<1>4. PaddedVocab(m) * m.hidden_size * ModelBytes(m) \in Nat
  BY <1>3, ModelType, TimesType
<1> QED
  BY <1>1, <1>2, <1>4

\* The largest of several moments does not grow when none does.
LEMMA MomentsGrow ==
  ASSUME NEW c \in Nat, NEW sx \in Nat, NEW sy \in Nat, sy <= sx, NEW fx \in Nat, NEW fy \in Nat, fy <= fx,
         NEW ex \in Nat, NEW ey \in Nat, ey <= ex, NEW EX, NEW EY, (EX = {} /\ EY = {}) \/ (EX = {ex} /\ EY = {ey})
  PROVE  /\ Most({c, sx, fx} \cup EX) \in Nat /\ Most({c, sy, fy} \cup EY) \in Nat
         /\ Most({c, sy, fy} \cup EY) <= Most({c, sx, fx} \cup EX)
<1> DEFINE X == {c, sx, fx} \cup EX
           Y == {c, sy, fy} \cup EY
<1>1. \A a, b, d, e : IsFiniteSet({a} \cup {b} \cup {d} \cup {e})
  BY FS_Singleton, FS_Union
<1>2. X \in SUBSET ({c} \cup {sx} \cup {fx} \cup {ex}) /\ Y \in SUBSET ({c} \cup {sy} \cup {fy} \cup {ey})
  OBVIOUS
<1>3. X # {} /\ Y # {} /\ X \subseteq Nat /\ Y \subseteq Nat
  OBVIOUS
<1>4. \A u \in Y : \E v \in X : u <= v
  OBVIOUS
<1> HIDE DEF X, Y
<1>5. IsFiniteSet(X) /\ IsFiniteSet(Y)
  <2>1. IsFiniteSet({c} \cup {sx} \cup {fx} \cup {ex}) /\ IsFiniteSet({c} \cup {sy} \cup {fy} \cup {ey})
    BY <1>1
  <2> DEFINE A == {c} \cup {sx} \cup {fx} \cup {ex}
             B == {c} \cup {sy} \cup {fy} \cup {ey}
  <2>2. IsFiniteSet(A) /\ IsFiniteSet(B) /\ X \in SUBSET A /\ Y \in SUBSET B
    BY <1>2, <2>1
  <2> HIDE DEF A, B
  <2> QED
    BY <2>2, FS_Subset
<1>6. Most(X) \in X /\ Most(Y) \in Y
  BY <1>3, <1>5, MostNat
<1>7. X \subseteq Int /\ Y \subseteq Int
  BY <1>3
<1>8. Most(Y) <= Most(X)
  BY <1>3, <1>4, <1>5, <1>7, MostGrows
<1> QED
  BY <1>3, <1>6, <1>8 DEF X, Y

\* So does the largest of the moments.
LEMMA ActivationGrows ==
  ASSUME NEW m, WellFormed(m), {"vocab_size", "hidden_size"} \subseteq DOMAIN m, VisionFamily(m.model_type) # "muse_glimmer",
         NEW block, MlaFields \subseteq DOMAIN m => block \in Nat \ {0}, NEW x, Launched(x), NEW y, Fewer(y, x)
  PROVE  /\ ActivationEstimate(m, x, block) \in Nat /\ ActivationEstimate(m, y, block) \in Nat
         /\ ActivationEstimate(m, y, block) <= ActivationEstimate(m, x, block)
<1> DEFINE wrapper == MultimodalWrapper(m, x)
           hidden == x.tokens * m.hidden_size * ModelBytes(m)
           compile == IF x.tp = 1 /\ ~wrapper THEN PaddedVocab(m) * m.hidden_size * ModelBytes(m) + 2 * hidden ELSE 0
           logits(n) == Smaller(x.tokens, n) * PaddedVocab(m) * ModelBytes(m)
           sampled(l) == IF x.tp > 1 THEN 2 * l + CeilDiv(l, x.tp)
                         ELSE IF Declares(m, {"final_logit_softcapping"}) THEN 2 * l ELSE l
           sampler(n) == hidden + sampled(logits(n))
           held == IF wrapper THEN hidden ELSE 0
           fx == ForwardLiveBytes(m, x, block) + held
           fy == ForwardLiveBytes(m, y, block) + held
           ex == EncoderPeakBytes(m, x)
           ey == EncoderPeakBytes(m, y)
           EX == IF wrapper THEN {ex} ELSE {}
           EY == IF wrapper THEN {ey} ELSE {}
<1>1. ActivationEstimate(m, x, block) = Most({compile, sampler(x.seqs), fx} \cup EX)
  BY DEF ActivationEstimate
<1>2. ActivationEstimate(m, y, block) = Most({compile, sampler(y.seqs), fy} \cup EY)
  <2>1. y.tp = x.tp /\ y.tokens = x.tokens /\ (MultimodalWrapper(m, y) <=> wrapper)
    BY FewerSame DEF Fewer
  <2> QED
    BY <2>1 DEF ActivationEstimate
<1>3. x.tp \in Nat \ {0} /\ x.tokens \in Nat /\ x.seqs \in Nat /\ y.seqs \in Nat /\ y.seqs <= x.seqs
  BY DEF Launched, Rank, Fewer
<1>4. m.hidden_size \in Nat /\ PaddedVocab(m) \in Nat /\ PaddedVocab(m) * m.hidden_size * ModelBytes(m) \in Nat
      /\ ModelBytes(m) \in Nat
  BY VocabType, ModelType
<1>5. hidden \in Nat
  <2>1. x.tokens * m.hidden_size \in Nat
    BY <1>3, <1>4, TimesType
  <2> QED
    BY <1>4, <2>1, TimesType
<1>6. (EX = {} /\ EY = {}) \/ (EX = {ex} /\ EY = {ey})
  OBVIOUS
<1> HIDE DEF hidden, wrapper
<1>7. compile \in Nat
  BY <1>4, <1>5
<1>8. logits(x.seqs) \in Nat /\ logits(y.seqs) \in Nat /\ logits(y.seqs) <= logits(x.seqs)
  <2> DEFINE a == Smaller(x.tokens, x.seqs)
             b == Smaller(x.tokens, y.seqs)
  <2>1. a \in Nat /\ b \in Nat /\ b <= a
    BY <1>3 DEF Smaller
  <2> HIDE DEF a, b
  <2>2. a * PaddedVocab(m) \in Nat /\ b * PaddedVocab(m) \in Nat /\ b * PaddedVocab(m) <= a * PaddedVocab(m)
    BY <1>4, <2>1, TimesType, TimesGrows
  <2>3. /\ a * PaddedVocab(m) * ModelBytes(m) \in Nat /\ b * PaddedVocab(m) * ModelBytes(m) \in Nat
        /\ b * PaddedVocab(m) * ModelBytes(m) <= a * PaddedVocab(m) * ModelBytes(m)
    BY <1>4, <2>2, TimesType, TimesGrows
  <2> QED
    BY <2>3 DEF a, b
<1> DEFINE lx == logits(x.seqs)
           ly == logits(y.seqs)
<1> HIDE DEF logits
<1>9. CeilDiv(lx, x.tp) \in Nat /\ CeilDiv(ly, x.tp) \in Nat /\ CeilDiv(ly, x.tp) <= CeilDiv(lx, x.tp)
  BY <1>3, <1>8, CeilNat, CeilGrows
<1>10. sampled(lx) \in Nat /\ sampled(ly) \in Nat /\ sampled(ly) <= sampled(lx)
  BY <1>8, <1>9
<1> HIDE DEF sampled
<1>11. sampler(x.seqs) \in Nat /\ sampler(y.seqs) \in Nat /\ sampler(y.seqs) <= sampler(x.seqs)
  BY <1>5, <1>10
<1>12. held \in Nat
  BY <1>5
<1>13. fx \in Nat /\ fy \in Nat /\ fy <= fx
  <2> HIDE DEF held
  <2>1. /\ ForwardLiveBytes(m, x, block) \in Nat /\ ForwardLiveBytes(m, y, block) \in Nat
        /\ ForwardLiveBytes(m, y, block) <= ForwardLiveBytes(m, x, block)
    BY ForwardGrows
  <2> QED
    BY <1>12, <2>1
<1>14. ex \in Nat /\ ey \in Nat /\ ey <= ex
  BY EncoderGrows
<1> HIDE DEF compile, sampler, fx, fy, ex, ey, EX, EY
<1> DEFINE sx == sampler(x.seqs)
           sy == sampler(y.seqs)
<1>15. sx \in Nat /\ sy \in Nat /\ sy <= sx
  BY <1>11
<1>16. ActivationEstimate(m, x, block) = Most({compile, sx, fx} \cup EX)
       /\ ActivationEstimate(m, y, block) = Most({compile, sy, fy} \cup EY)
  BY <1>1, <1>2
<1> HIDE DEF sx, sy
<1>17. /\ Most({compile, sx, fx} \cup EX) \in Nat /\ Most({compile, sy, fy} \cup EY) \in Nat
       /\ Most({compile, sy, fy} \cup EY) <= Most({compile, sx, fx} \cup EX)
  BY <1>6, <1>7, <1>13, <1>14, <1>15, MomentsGrow
<1> QED
  BY <1>16, <1>17

\* So does what is outside PyTorch.
LEMMA NonTorchGrows ==
  ASSUME NEW m, WellFormed(m), NEW x, Launched(x), NEW y, Fewer(y, x)
  PROVE  NonTorchBytes(m, x) \in Nat /\ NonTorchBytes(m, y) \in Nat /\ NonTorchBytes(m, y) <= NonTorchBytes(m, x)
<1> DEFINE vocab == Field(m, "vocab_size", 0)
           row == vocab + 2 * CeilDiv(vocab, 32)
           base == NonTorchBase[GpuClass(x)]
           held == IF MultimodalWrapper(m, x) THEN x.tokens * Field(m, "hidden_size", 0) * ModelBytes(m) ELSE 0
           bytes(n) == n * row * 4 + base + held
<1>1. NonTorchBytes(m, x) = bytes(x.seqs)
  BY DEF NonTorchBytes, SamplerStateBytes
<1>2. NonTorchBytes(m, y) = bytes(y.seqs)
  <2>1. y.tokens = x.tokens /\ (MultimodalWrapper(m, y) <=> MultimodalWrapper(m, x)) /\ GpuClass(y) = GpuClass(x)
    BY FewerSame DEF Fewer, GpuClass
  <2> QED
    BY <2>1 DEF NonTorchBytes, SamplerStateBytes
<1>3. x.tokens \in Nat /\ x.seqs \in Nat /\ y.seqs \in Nat /\ y.seqs <= x.seqs
  BY DEF Launched, Fewer
<1>4. vocab \in Nat /\ Field(m, "hidden_size", 0) \in Nat /\ ModelBytes(m) \in Nat
  BY DeclaredOr, ModelType DEF NumberFields
<1>5. base \in Nat
  BY ClassAssumption DEF GpuClass, GpuClasses
<1>6. held \in Nat
  <2>1. x.tokens * Field(m, "hidden_size", 0) \in Nat
    BY <1>3, <1>4, TimesType
  <2>2. x.tokens * Field(m, "hidden_size", 0) * ModelBytes(m) \in Nat
    BY <1>4, <2>1, TimesType
  <2> QED
    BY <2>2
<1> HIDE DEF vocab
<1>7. row \in Nat
  <2>1. CeilDiv(vocab, 32) \in Nat
    BY <1>4, CeilNat
  <2> QED
    BY <1>4, <2>1
<1> HIDE DEF row, base, held
<1>8. x.seqs * row \in Nat /\ y.seqs * row \in Nat /\ y.seqs * row <= x.seqs * row
  BY <1>3, <1>7, TimesType, TimesGrows
<1>9. bytes(x.seqs) \in Nat /\ bytes(y.seqs) \in Nat /\ bytes(y.seqs) <= bytes(x.seqs)
  BY <1>5, <1>6, <1>8
<1> HIDE DEF bytes
<1> QED
  BY <1>1, <1>2, <1>9

\* So do the CUDA graphs.
LEMMA GraphsGrow ==
  ASSUME NEW m, WellFormed(m), NEW x, Launched(x), NEW y, Fewer(y, x)
  PROVE  /\ CudaGraphEstimate(m, x) \in Nat /\ CudaGraphEstimate(m, y) \in Nat
         /\ CudaGraphEstimate(m, y) <= CudaGraphEstimate(m, x)
<1> DEFINE layers == Field(m, "num_hidden_layers", 0)
           bytes == GraphBytes[GpuClass(x)]
           X == {s \in CaptureSizes(x) : s <= x.seqs}
           Y == {s \in CaptureSizes(y) : s <= y.seqs}
<1>1. CudaGraphEstimate(m, x) = IF x.eager THEN 0 ELSE layers * Cardinality(X) * bytes
  BY DEF CudaGraphEstimate
<1>2. CudaGraphEstimate(m, y) = IF x.eager THEN 0 ELSE layers * Cardinality(Y) * bytes
  <2>1. y.eager = x.eager /\ GpuClass(y) = GpuClass(x)
    BY DEF Fewer, GpuClass
  <2> QED
    BY <2>1 DEF CudaGraphEstimate
<1>3. layers \in Nat
  BY DeclaredOr DEF NumberFields
<1>4. bytes \in Nat
  BY ClassAssumption DEF GpuClass, GpuClasses
<1>5. x.seqs \in Nat /\ y.seqs \in Nat /\ y.seqs <= x.seqs /\ x.eager \in BOOLEAN /\ x.sm = y.sm
  BY DEF Launched, Fewer
<1> DEFINE top(n) == Smaller(2 * n, IF x.sm \div 10 = 10 THEN 1024 ELSE 512)
<1>6. top(x.seqs) \in Nat /\ top(y.seqs) \in Nat /\ top(y.seqs) <= top(x.seqs)
  <2> DEFINE cap == IF x.sm \div 10 = 10 THEN 1024 ELSE 512
  <2>1. cap \in Nat
    OBVIOUS
  <2> HIDE DEF cap
  <2>2. /\ Smaller(2 * x.seqs, cap) \in Nat /\ Smaller(2 * y.seqs, cap) \in Nat
        /\ Smaller(2 * y.seqs, cap) <= Smaller(2 * x.seqs, cap)
    BY <1>5, <2>1 DEF Smaller
  <2> QED
    BY <2>2 DEF cap
<1> DEFINE graph(s) == s \in {1, 2, 4} \/ (s \in 8 .. 255 /\ s % 8 = 0) \/ (s >= 256 /\ s % 16 = 0)
<1>7. CaptureSizes(x) = {s \in 1 .. top(x.seqs) : graph(s)}
  BY DEF CaptureSizes
<1>8. CaptureSizes(y) = {s \in 1 .. top(y.seqs) : graph(s)}
  BY <1>5 DEF CaptureSizes
<1> HIDE DEF top, graph
<1>9. Y \subseteq X /\ X \subseteq 1 .. top(x.seqs)
  BY <1>5, <1>6, <1>7, <1>8
<1> HIDE DEF X, Y
<1>10. IsFiniteSet(X)
  <2>1. IsFiniteSet(1 .. top(x.seqs))
    BY <1>6, FS_Interval
  <2> QED
    BY <1>9, <2>1, FS_Subset
<1>11. IsFiniteSet(Y) /\ Cardinality(Y) <= Cardinality(X)
  BY <1>9, <1>10, FS_Subset
<1>12. Cardinality(X) \in Nat /\ Cardinality(Y) \in Nat
  BY <1>10, <1>11, FS_CardinalityType
<1> DEFINE j == Cardinality(X)
           k == Cardinality(Y)
<1>13. j \in Nat /\ k \in Nat /\ k <= j
  BY <1>11, <1>12
<1> HIDE DEF j, k, layers, bytes
<1>14. layers * j \in Nat /\ layers * k \in Nat /\ layers * k <= layers * j
  BY <1>3, <1>13, TimesType, TimesGrows
<1>15. layers * j * bytes \in Nat /\ layers * k * bytes \in Nat /\ layers * k * bytes <= layers * j * bytes
  BY <1>4, <1>14, TimesType, TimesGrows
<1> QED
  BY <1>1, <1>2, <1>5, <1>15 DEF j, k

(* Which layers there are does not depend on how many sequences run.       *)
LEMMA KindsSame ==
  ASSUME NEW m, NEW x, NEW y, Fewer(y, x), Family(m) \in StateFamilies
  PROVE  LayerKinds(m, y) = LayerKinds(m, x) /\ LayeredBlocks(m, y) = LayeredBlocks(m, x)
<1>1. LayerKinds(m, y) = LayerKinds(m, x)
  <2>1. \A heads, dim : KvPerToken(heads, dim, y) = KvPerToken(heads, dim, x)
    BY DEF Fewer, KvPerToken
  <2>2. DeltaNetState(m, y) = DeltaNetState(m, x)
    BY DEF Fewer, DeltaNetState
  <2>3. Qwen35Kinds(m, y) = Qwen35Kinds(m, x)
    BY <2>1, <2>2 DEF Fewer, Qwen35Kinds
  <2>4. NemotronKinds(m, y) = NemotronKinds(m, x)
    BY <2>1 DEF Fewer, NemotronKinds
  <2>5. Qwen4ExpKinds(m, y) = Qwen4ExpKinds(m, x)
    BY <2>2 DEF Fewer, Qwen4ExpKinds
  <2>6. Glm5NextKinds(m, y) = Glm5NextKinds(m, x)
    BY DEF Fewer, Glm5NextKinds, Glm5Kinds
  <2> QED
    BY <2>3, <2>4, <2>5, <2>6 DEF LayerKinds, KindsOf, StateFamilies
<1> QED
  BY <1>1 DEF LayeredBlocks, Fewer

\* The weights and the first capture do not depend on the sequences.
LEMMA WeightSame ==
  ASSUME NEW m, NEW x, NEW y, Fewer(y, x), Family(m) \in StateFamilies
  PROVE  WeightOf(m, y) = WeightOf(m, x) /\ FirstCaptureBytes(m, y) = FirstCaptureBytes(m, x)
<1>1. ShardBytes(m.w, m, y) = ShardBytes(m.w, m, x)
  BY DEF Fewer, ShardBytes, KvRanks
<1>2. DuplicatedWeightBytes(m, y) = DuplicatedWeightBytes(m, x)
  BY DEF DuplicatedWeightBytes, StateFamilies
<1>3. PaddedWeightBytes(m, y) = PaddedWeightBytes(m, x)
  <2>1. \A width : ExpertPad(width, y) = ExpertPad(width, x)
    BY DEF Fewer, ExpertPad
  <2>2. Mxfp4ExpertPadding(m, y) = Mxfp4ExpertPadding(m, x)
    BY DEF Mxfp4ExpertPadding, StateFamilies
  <2>3. m.model_type # "gpt_oss"
    BY DEF Family, StateFamilies
  <2>4. GptOssMarlinPadding(m, y) = GptOssMarlinPadding(m, x)
    BY <2>3 DEF GptOssMarlinPadding
  <2>5. TrtllmExpertPadding(m, y) = TrtllmExpertPadding(m, x)
    <3>1. ExpertPad(m.moe_intermediate_size, y) = ExpertPad(m.moe_intermediate_size, x)
      BY <2>1
    <3>2. y.sm = x.sm /\ y.moe_backend = x.moe_backend
      BY DEF Fewer
    <3> QED
      BY <3>1, <3>2, SMT DEF TrtllmExpertPadding
  <2> QED
    BY <2>2, <2>4, <2>5 DEF PaddedWeightBytes
<1>4. FirstCaptureBytes(m, y) = FirstCaptureBytes(m, x)
  BY DEF Fewer, FirstCaptureBytes
<1> QED
  BY <1>1, <1>2, <1>3, <1>4 DEF WeightOf, Fewer

(* A block of GLM5Next's attention holds at least the state of a layer.     *)
LEMMA Glm5Block ==
  ASSUME NEW c, WellFormed(c), NEW x, Rank(x), Family(c) = "glm5_next"
  PROVE  \A i \in DOMAIN Glm5NextKinds(c, x) :
           Glm5NextKinds(c, x)[i].kind = "full" => Glm5NextKinds(c, x)[i].block_size \in Nat \ {0}
<1>1. c.model_type = "glm5_next" /\ {"kv_lora_rank", "index_kpool"} \subseteq DOMAIN c
  BY DEF Family, Declares
<1>2. c.kv_lora_rank \in Nat \ {0} /\ c.index_kpool \in Nat \ {0}
  BY <1>1, NumberField DEF NumberFields
<1> DEFINE k == KdaShape(c)
           conv == (k.kernel - 1) * ((3 * k.heads * k.dim) \div x.tp) * x.model_bytes
           temporal == (k.heads \div x.tp) * k.dim * k.dim * 4
           bytes == conv + temporal
           per_token == (c.kv_lora_rank + Field(c, "qk_rope_head_dim", 0)) * 2
           block == RoundUp(RoundUp(CeilDiv(bytes, per_token), 128), c.index_kpool * 32)
           dsa == LayersOf(c, "deepseek_sparse_attention")
           linear == LayersOf(c, "linear_attention")
           page == block * per_token
           index == (block \div c.index_kpool) * IndexRow(c.index_head_dim)
           tail == c.index_kpool * 4 * c.index_head_dim
           k1 == [Paged("full", dsa, block, page) EXCEPT !.bytes_per_token = per_token]
           k2 == Paged("compressed", dsa, block, index)
           k3 == Paged("tail", dsa, c.index_kpool, tail)
           k4 == [StateLayers(linear, bytes) EXCEPT !.block_size = block, !.page_bytes = page]
           kinds == <<k1, k2, k3, k4>>
<1>3. Glm5NextKinds(c, x) = <<>> \/ (Glm5NextKinds(c, x) = kinds /\ k.heads % x.tp = 0)
  BY DEF Glm5NextKinds, Glm5Kinds
<1>4. k.heads \in Nat \ {0} /\ k.dim \in Nat \ {0} /\ k.kernel \in Nat \ {0}
  BY ShapeType
<1>5. per_token \in Nat \ {0}
  <2>1. Field(c, "qk_rope_head_dim", 0) \in Nat
    BY NumberField DEF Field, NumberFields
  <2> QED
    BY <1>2, <2>1
<1> HIDE DEF k, per_token
<1>6. ASSUME k.heads % x.tp = 0 PROVE bytes \in Nat \ {0}
  <2> DEFINE h == k.heads
             d == k.dim
             n == k.kernel - 1
             w == (3 * h * d) \div x.tp
             r == h \div x.tp
  <2>1. 3 * h * d \in Nat
    BY <1>4, Product3
  <2>2. w \in Nat /\ n \in Nat
    BY <1>4, <2>1, DivType DEF Rank
  <2>3. r \in Nat \ {0} /\ d \in Nat \ {0}
    BY <1>4, <1>6, ShareOf DEF Rank
  <2>4. conv = n * w * x.model_bytes /\ temporal = r * d * d * 4
    OBVIOUS
  <2> HIDE DEF conv, temporal, w, r, n, d
  <2>5. n * w \in Nat
    BY <2>2, TimesType
  <2>6. n * w * x.model_bytes \in Nat /\ r * d * d \in Nat \ {0}
    BY <2>3, <2>5, TimesType, Product3 DEF Rank
  <2>7. r * d * d * 4 \in Nat \ {0}
    BY <2>6, TimesType
  <2> QED
    BY <2>4, <2>6, <2>7
<1> HIDE DEF bytes, conv, temporal
<1>7. ASSUME k.heads % x.tp = 0 PROVE block \in Nat \ {0}
  <2> DEFINE a == CeilDiv(bytes, per_token)
             b == RoundUp(a, 128)
             e == c.index_kpool * 32
  <2>1. a \in Nat \ {0}
    BY <1>5, <1>6, <1>7, CeilPositive
  <2> HIDE DEF a
  <2>2. b \in Nat /\ b > 0
    BY <2>1, RoundType
  <2> HIDE DEF b
  <2>3. e \in Nat \ {0}
    BY <1>2
  <2> HIDE DEF e
  <2>4. RoundUp(b, e) \in Nat /\ RoundUp(b, e) > 0
    BY <2>2, <2>3, RoundType
  <2> QED
    BY <2>4 DEF a, b, e
<1> HIDE DEF block, page, index, tail, dsa, linear
<1>8. /\ k1.block_size = block
      /\ k2.kind = "compressed" /\ k3.kind = "tail" /\ k4.kind = "state"
  BY DEF Paged, LayerKind, StateLayers
<1> HIDE DEF k1, k2, k3, k4
<1>9. DOMAIN kinds = 1 .. 4 /\ \A i \in DOMAIN kinds : kinds[i] \in {k1, k2, k3, k4}
  OBVIOUS
<1> HIDE DEF kinds
<1>10. CASE Glm5NextKinds(c, x) = <<>>
  BY <1>10
<1>11. CASE Glm5NextKinds(c, x) = kinds /\ k.heads % x.tp = 0
  <2>1. block \in Nat \ {0}
    BY <1>7, <1>11
  <2>2. \A i \in DOMAIN kinds : kinds[i].kind = "full" => kinds[i].block_size = block
    BY <1>8, <1>9
  <2> QED
    BY <1>11, <2>1, <2>2
<1> QED
  BY <1>3, <1>10, <1>11

(* The block an MLA model's workspace is counted in.                       *)
WorkspaceBlock(kinds) ==
    LET full == {i \in DOMAIN kinds : kinds[i].kind = "full"}
    IN  IF full = {} THEN MlaBlock ELSE kinds[Least(full)].block_size

\* The block of a workspace has tokens.
LEMMA WorkspaceBlockType ==
  ASSUME NEW m, WellFormed(m), NEW x, Rank(x), Family(m) \in StateFamilies, MlaFields \subseteq DOMAIN m
  PROVE  WorkspaceBlock(LayerKinds(m, x)) \in Nat \ {0}
<1>1. Family(m) = "glm5_next"
  <2>1. Family(m) \notin {"qwen3_5", "nemotron_h", "qwen4_exp"}
    BY DEF WellFormed, MlaFields
  <2> QED
    BY <2>1 DEF StateFamilies
<1>2. LayerKinds(m, x) = Glm5NextKinds(m, x)
  BY <1>1 DEF LayerKinds, KindsOf
<1> DEFINE kinds == Glm5NextKinds(m, x)
           full == {i \in DOMAIN kinds : kinds[i].kind = "full"}
<1>3. \A i \in DOMAIN kinds : kinds[i].kind = "full" => kinds[i].block_size \in Nat \ {0}
  BY <1>1, Glm5Block
<1>4. DOMAIN kinds \subseteq Nat
  <2>1. Traced(kinds, "glm5_next")
    BY <1>1, Glm5Books
  <2> HIDE DEF kinds
  <2> QED
    BY <2>1 DEF Traced
<1>5. WorkspaceBlock(LayerKinds(m, x)) = IF full = {} THEN MlaBlock ELSE kinds[Least(full)].block_size
  BY <1>2 DEF WorkspaceBlock
<1> HIDE DEF kinds
<1>6. full \subseteq Nat
  BY <1>4
<1>7. full # {} => Least(full) \in full
  <2> HIDE DEF full
  <2> QED
    BY <1>6, HasLeast
<1> QED
  BY <1>3, <1>5, <1>7 DEF MlaBlock

-----------------------------------------------------------------------------
(* A prediction made again with fewer sequences.                           *)

\* The kinds that keep a state.
StatesKept(kinds) == {i \in DOMAIN kinds : kinds[i].kind = "state" /\ kinds[i].count > 0}
\* A layered prediction is unknown.
Unheld(m, x) == ~HasActivation(m) \/ LayerKinds(m, x) = <<>> \/ LayeredBlocks(m, x) = NotTraced

(* What is left of the memory asked for.                                   *)
Remaining(m, x) ==
    RequestedMemory(x)
    - (WeightOf(m, x) + ActivationEstimate(m, x, WorkspaceBlock(LayerKinds(m, x))) + NonTorchBytes(m, x)
       + (CudaGraphEstimate(m, x) + IF x.eager THEN 0 ELSE FirstCaptureBytes(m, x)))

\* What a layered prediction says.
LEMMA LayeredRead ==
  ASSUME NEW m, NEW x
  PROVE  /\ Unheld(m, x) => Layered(m, x) = Unknown
         /\ ~Unheld(m, x) =>
              /\ Layered(m, x).status = "known"
              /\ Layered(m, x).available_kv_cache_bytes = Remaining(m, x)
              /\ Layered(m, x).compile_segment_bytes = CompileSegmentBytes(m, x)
              /\ Layered(m, x).kv_bytes_per_block
                   = IF StatesKept(LayerKinds(m, x)) = {} THEN 0 ELSE LayeredBlocks(m, x).bytes_per_block
<1> DEFINE kinds == LayerKinds(m, x)
           blocks == LayeredBlocks(m, x)
<1>1. Layered(m, x) = LayeredPrediction(m, x, kinds, blocks)
  BY DEF Layered
<1> HIDE DEF kinds, blocks
<1> DEFINE full == {i \in DOMAIN kinds : kinds[i].kind = "full"}
           weight == WeightOf(m, x)
           perToken == SumOver(full, LAMBDA i : kinds[i].count * kinds[i].bytes_per_token)
           known == Prediction(m, x, weight, BytesPerSequence(blocks) * x.batch,
                               ActivationEstimate(m, x, WorkspaceBlock(kinds)), FirstCaptureBytes(m, x), perToken,
                               BytesPerSequence(blocks), IF StatesKept(kinds) = {} THEN 0 ELSE blocks.bytes_per_block)
<1>2. LayeredPrediction(m, x, kinds, blocks)
        = IF ~HasActivation(m) \/ kinds = <<>> \/ blocks = NotTraced THEN Unknown ELSE known
  BY DEF LayeredPrediction, WorkspaceBlock, StatesKept, WeightOf
<1>3. /\ known.status = "known"
      /\ known.available_kv_cache_bytes
           = RequestedMemory(x)
             - (weight + ActivationEstimate(m, x, WorkspaceBlock(kinds)) + NonTorchBytes(m, x)
                + (CudaGraphEstimate(m, x) + IF x.eager THEN 0 ELSE FirstCaptureBytes(m, x)))
      /\ known.compile_segment_bytes = CompileSegmentBytes(m, x)
      /\ known.kv_bytes_per_block = IF StatesKept(kinds) = {} THEN 0 ELSE blocks.bytes_per_block
  BY DEF Prediction
<1> HIDE DEF known
<1> QED
  BY <1>1, <1>2, <1>3 DEF Unheld, Remaining, kinds, blocks

\* The compile segment is a number.
LEMMA SegmentType ==
  ASSUME NEW m, WellFormed(m), {"vocab_size", "hidden_size"} \subseteq DOMAIN m, NEW x
  PROVE  CompileSegmentBytes(m, x) \in Nat
  BY VocabType DEF CompileSegmentBytes

\* What remains grows as the sequences get fewer.
LEMMA RemainingGrows ==
  ASSUME NEW m, WellFormed(m), Loaded(m.w), {"vocab_size", "hidden_size"} \subseteq DOMAIN m,
         Family(m) \in StateFamilies, NEW x, Launched(x), NEW y, Fewer(y, x)
  PROVE  Remaining(m, x) \in Int /\ Remaining(m, y) \in Int /\ Remaining(m, x) <= Remaining(m, y)
<1> DEFINE block == WorkspaceBlock(LayerKinds(m, x))
           asked == RequestedMemory(x)
           weight == WeightOf(m, x)
           capture == IF x.eager THEN 0 ELSE FirstCaptureBytes(m, x)
           A(z) == ActivationEstimate(m, z, block)
           N(z) == NonTorchBytes(m, z)
           G(z) == CudaGraphEstimate(m, z)
<1>1. Rank(x)
  BY DEF Launched
<1>2. Remaining(m, x) = asked - (weight + A(x) + N(x) + (G(x) + capture))
  BY DEF Remaining
<1>3. Remaining(m, y) = asked - (weight + A(y) + N(y) + (G(y) + capture))
  <2>1. LayerKinds(m, y) = LayerKinds(m, x)
    BY KindsSame
  <2>2. WeightOf(m, y) = WeightOf(m, x) /\ FirstCaptureBytes(m, y) = FirstCaptureBytes(m, x)
    BY WeightSame
  <2>3. RequestedMemory(y) = RequestedMemory(x) /\ y.eager = x.eager
    BY DEF Fewer, RequestedMemory
  <2> QED
    BY <2>1, <2>2, <2>3 DEF Remaining
<1>4. VisionFamily(m.model_type) # "muse_glimmer"
  BY DEF VisionFamily, Family, StateFamilies
<1>5. A(x) \in Nat /\ A(y) \in Nat /\ A(y) <= A(x)
  <2>1. MlaFields \subseteq DOMAIN m => block \in Nat \ {0}
    BY <1>1, WorkspaceBlockType
  <2> HIDE DEF block
  <2> QED
    BY <1>4, <2>1, ActivationGrows
<1>6. N(x) \in Nat /\ N(y) \in Nat /\ N(y) <= N(x)
  BY NonTorchGrows
<1>7. G(x) \in Nat /\ G(y) \in Nat /\ G(y) <= G(x)
  BY GraphsGrow
<1>8. weight \in Int
  BY WeightType
<1>9. capture \in Nat
  BY <1>1, FirstCaptureType
<1>10. asked \in Int
  <2>1. x.memory * x.util \in Int
    BY TimesType DEF Launched
  <2> QED
    BY <2>1, CeilType DEF RequestedMemory
<1> HIDE DEF A, N, G, weight, capture, asked
<1> QED
  BY <1>2, <1>3, <1>5, <1>6, <1>7, <1>8, <1>9, <1>10

(* A model whose cache is counted in state blocks, predicted again with    *)
(* fewer sequences: the blocks keep their size, and what is left for them  *)
(* is not less.                                                            *)
LEMMA LayeredLowered ==
  ASSUME NEW m, WellFormed(m), Loaded(m.w), NEW x, Launched(x), NEW y, Fewer(y, x),
         Layered(m, x) # Unknown, Layered(m, x).kv_bytes_per_block # 0
  PROVE  /\ Layered(m, x).available_kv_cache_bytes \in Int /\ Layered(m, y).available_kv_cache_bytes \in Int
         /\ Layered(m, x).available_kv_cache_bytes <= Layered(m, y).available_kv_cache_bytes
         /\ Layered(m, y).kv_bytes_per_block = Layered(m, x).kv_bytes_per_block
         /\ Layered(m, x).kv_bytes_per_block \in Nat
         /\ Layered(m, y).compile_segment_bytes = Layered(m, x).compile_segment_bytes
         /\ Layered(m, x).compile_segment_bytes \in Nat
<1>1. ~Unheld(m, x)
  BY LayeredRead
<1>2. StatesKept(LayerKinds(m, x)) # {}
  BY <1>1, LayeredRead
<1>3. Family(m) \in StateFamilies
  <2>1. ~Stateless(LayerKinds(m, x))
    BY <1>2 DEF StatesKept, Stateless
  <2> QED
    BY <2>1, OnlyStateFamilies
<1>4. {"vocab_size", "hidden_size"} \subseteq DOMAIN m
  BY <1>1 DEF Unheld, HasActivation, Declares
<1>5. LayerKinds(m, y) = LayerKinds(m, x) /\ LayeredBlocks(m, y) = LayeredBlocks(m, x)
  BY <1>3, KindsSame
<1>6. ~Unheld(m, y)
  BY <1>1, <1>5 DEF Unheld
<1>7. Remaining(m, x) \in Int /\ Remaining(m, y) \in Int /\ Remaining(m, x) <= Remaining(m, y)
  BY <1>3, <1>4, RemainingGrows
<1>8. CompileSegmentBytes(m, y) = CompileSegmentBytes(m, x) /\ CompileSegmentBytes(m, x) \in Nat
  <2>1. MultimodalWrapper(m, y) <=> MultimodalWrapper(m, x)
    BY FewerSame
  <2>2. CompileSegmentBytes(m, y) = CompileSegmentBytes(m, x)
    BY <2>1 DEF CompileSegmentBytes, Fewer
  <2> QED
    BY <1>4, <2>2, SegmentType
<1>9. LayeredBlocks(m, x).bytes_per_block \in Nat
  <2>1. Traced(LayerKinds(m, x), Layout(m)) /\ Layout(m) \in {"grouped", "packed", "glm5_next"}
    BY <1>3, StateTraced DEF Launched
  <2> QED
    BY <2>1, BlockType DEF LayeredBlocks
<1> QED
  BY <1>1, <1>2, <1>5, <1>6, <1>7, <1>8, <1>9, LayeredRead

(* Only a layered prediction counts state blocks.                          *)
LEMMA OnlyLayered ==
  ASSUME NEW m, NEW x, Calculate(m, x) # Unknown, Calculate(m, x).kv_bytes_per_block # 0
  PROVE  m.mechanism = "layered_decode" /\ \A z : Calculate(m, z) = Layered(m, z)
<1>1. Autoregressive(m, x) = Unknown \/ Autoregressive(m, x).kv_bytes_per_block = 0
  BY DEF Autoregressive, Prediction
<1>2. Mla(m, x) = Unknown \/ Mla(m, x).kv_bytes_per_block = 0
  BY DEF Mla, Prediction
<1>3. Ssm(m, x) = Unknown \/ Ssm(m, x).kv_bytes_per_block = 0
  BY DEF Ssm, Prediction
<1>4. m.mechanism = "layered_decode"
  BY <1>1, <1>2, <1>3 DEF Calculate
<1> QED
  BY <1>4 DEF Calculate

\* More bytes hold no fewer blocks.
LEMMA CapacityGrows ==
  ASSUME NEW a \in Int, NEW b \in Int, a <= b, NEW bytes \in Nat, NEW margin \in Int
  PROVE  /\ StateBlockCapacity(a, bytes, margin) \in Nat /\ StateBlockCapacity(b, bytes, margin) \in Nat
         /\ StateBlockCapacity(a, bytes, margin) <= StateBlockCapacity(b, bytes, margin)
<1>1. CASE bytes = 0
  BY <1>1 DEF StateBlockCapacity
<1>2. CASE bytes # 0
  <2> DEFINE j == (a - margin) \div bytes
             k == (b - margin) \div bytes
  <2>1. j \in Int /\ k \in Int /\ j <= k
    <3>1. a - margin \in Int /\ b - margin \in Int /\ a - margin <= b - margin /\ bytes \in Nat \ {0}
      BY <1>2
    <3> DEFINE p == a - margin
               q == b - margin
    <3> HIDE DEF p, q
    <3>2. p \div bytes \in Int /\ q \div bytes \in Int /\ p \div bytes <= q \div bytes
      BY <3>1, DivGrows DEF p, q
    <3> QED
      BY <3>2 DEF p, q
  <2>2. StateBlockCapacity(a, bytes, margin) = Larger(0, j) /\ StateBlockCapacity(b, bytes, margin) = Larger(0, k)
    BY <1>2 DEF StateBlockCapacity
  <2> HIDE DEF j, k
  <2> QED
    BY <2>1, <2>2 DEF Larger
<1> QED
  BY <1>1, <1>2

-----------------------------------------------------------------------------
(* The metadata of a checkpoint is well formed, its weights are counted.   *)

(* The fields in which the metadata may differ from the config.            *)
Overlaid == EncoderNames \cup {"torch_dtype", "w", "mechanism"}
\* Two configs with the same fields outside those.
Agree(m, c) == \A f : f \notin Overlaid => /\ f \in DOMAIN m <=> f \in DOMAIN c
                                           /\ f \in DOMAIN c => m[f] = c[f]

\* They declare the same.
LEMMA AgreeDeclares ==
  ASSUME NEW m, NEW c, Agree(m, c), NEW fields, fields \cap Overlaid = {}
  PROVE  Declares(m, fields) <=> Declares(c, fields)
  BY DEF Agree, Declares

\* Their fields read the same.
LEMMA AgreeField ==
  ASSUME NEW m, NEW c, Agree(m, c), NEW f, f \notin Overlaid, NEW d
  PROVE  Field(m, f, d) = Field(c, f, d) /\ (f \in DOMAIN m <=> f \in DOMAIN c) /\ (f \in DOMAIN c => m[f] = c[f])
  BY DEF Agree, Field

\* They have the same sparse layers.
LEMMA AgreeMinimax ==
  ASSUME NEW m, NEW c, Agree(m, c) PROVE MinimaxSparseLayers(m) = MinimaxSparseLayers(c)
<1> DEFINE fields == {"sparse_attention_config", "num_hidden_layers", "num_key_value_heads", "head_dim"}
<1>1. Declares(m, fields) <=> Declares(c, fields)
  BY AgreeDeclares DEF Overlaid, EncoderNames
<1>2. CASE ~Declares(c, fields)
  BY <1>1, <1>2 DEF MinimaxSparseLayers
<1>3. CASE Declares(c, fields)
  <2>1. m.sparse_attention_config = c.sparse_attention_config /\ m.num_hidden_layers = c.num_hidden_layers
    BY <1>3 DEF Agree, Overlaid, EncoderNames, Declares
  <2> QED
    BY <1>1, <1>3, <2>1 DEF MinimaxSparseLayers
<1> QED
  BY <1>2, <1>3

\* They have the same pattern.
LEMMA AgreeNemotron ==
  ASSUME NEW m, NEW c, Agree(m, c) PROVE NemotronPattern(m) = NemotronPattern(c)
<1>1. Field(m, "layers_block_type", <<>>) = Field(c, "layers_block_type", <<>>)
  BY AgreeField DEF Overlaid, EncoderNames
<1>2. /\ Declares(m, {"hybrid_override_pattern"}) <=> Declares(c, {"hybrid_override_pattern"})
      /\ Declares(c, {"hybrid_override_pattern"}) => m.hybrid_override_pattern = c.hybrid_override_pattern
  BY DEF Agree, Overlaid, EncoderNames, Declares
<1> DEFINE blocks == Field(c, "layers_block_type", <<>>)
<1>3. NemotronPattern(c) = IF Declares(c, {"hybrid_override_pattern"}) THEN c.hybrid_override_pattern
        ELSE IF \A i \in DOMAIN blocks : blocks[i] \in DOMAIN NemotronBlocks
        THEN [i \in DOMAIN blocks |-> NemotronBlocks[blocks[i]]]
        ELSE <<>>
  BY DEF NemotronPattern
<1>4. NemotronPattern(m) = IF Declares(m, {"hybrid_override_pattern"}) THEN m.hybrid_override_pattern
        ELSE IF \A i \in DOMAIN blocks : blocks[i] \in DOMAIN NemotronBlocks
        THEN [i \in DOMAIN blocks |-> NemotronBlocks[blocks[i]]]
        ELSE <<>>
  BY <1>1 DEF NemotronPattern
<1> HIDE DEF blocks
<1> QED
  BY <1>2, <1>3, <1>4

\* The condition for GLM5Next.
SparseLatent(c) == /\ c.model_type = "glm5_next" /\ Declares(c, {"kv_lora_rank", "index_kpool"})
                   /\ LayersOf(c, "deepseek_sparse_attention") > 0 /\ c.index_kpool > 1

\* They are of the same family.
LEMMA AgreeFamily ==
  ASSUME NEW m, NEW c, Agree(m, c), "model_type" \in DOMAIN c PROVE Family(m) = Family(c)
<1> DEFINE is(k, t, fields) == k.model_type = t /\ Declares(k, fields)
<1>1. m.model_type = c.model_type
  BY DEF Agree, Overlaid, EncoderNames
<1>2. ASSUME NEW t, NEW fields, fields \cap Overlaid = {} PROVE is(m, t, fields) <=> is(c, t, fields)
  BY <1>1, <1>2, AgreeDeclares
<1>3. Field(m, "layer_types", <<>>) = Field(c, "layer_types", <<>>)
  BY AgreeField DEF Overlaid, EncoderNames
<1>4. SparseLatent(m) <=> SparseLatent(c)
  <2>1. Declares(m, {"kv_lora_rank", "index_kpool"}) <=> Declares(c, {"kv_lora_rank", "index_kpool"})
    BY AgreeDeclares DEF Overlaid, EncoderNames
  <2>2. Declares(c, {"kv_lora_rank", "index_kpool"}) => m.index_kpool = c.index_kpool
    BY DEF Agree, Overlaid, EncoderNames, Declares
  <2>3. LayersOf(m, "deepseek_sparse_attention") = LayersOf(c, "deepseek_sparse_attention")
    BY <1>3 DEF LayersOf
  <2> QED
    BY <1>1, <2>1, <2>2, <2>3 DEF SparseLatent
<1>5. MinimaxSparseLayers(m) = MinimaxSparseLayers(c) /\ NemotronPattern(m) = NemotronPattern(c)
  BY AgreeMinimax, AgreeNemotron
<1> DEFINE gemma(k) == is(k, "gemma4", {"layer_types"})
           four(k) == is(k, "deepseek_v4", {"compress_ratios", "index_head_dim", "sliding_window"})
           fourOne(k) == is(k, "deepseek_v41", {"compress_ratios", "kv_source_layer_ids", "index_source_layer_ids",
                                                "index_head_dim", "sliding_window"})
           qwen4(k) == is(k, "qwen4_exp", {"linear_num_value_heads", "layer_types", "indexer_n_heads", "ple_layer_ids"})
           dsa(k) == is(k, "glm_moe_dsa", {"kv_lora_rank", "qk_rope_head_dim", "index_head_dim", "index_topk"})
           minimax(k) == k.model_type = "minimax_m3" /\ MinimaxSparseLayers(k) >= 0
           qwen35(k) == is(k, "qwen3_5", {"linear_num_value_heads"})
           nemotron(k) == k.model_type = "nemotron_h" /\ NemotronPattern(k) # <<>>
           muse(k) == k.model_type = "muse_glimmer"
                      /\ Range(Field(k, "layer_types", <<>>)) = {"sliding_attention", "full_attention"}
<1>6. \A k : Family(k) =
        CASE gemma(k) -> "gemma4" [] four(k) -> "deepseek_v4" [] fourOne(k) -> "deepseek_v41" [] qwen4(k) -> "qwen4_exp"
          [] SparseLatent(k) -> "glm5_next" [] dsa(k) -> "glm_moe_dsa" [] minimax(k) -> "minimax_m3"
          [] qwen35(k) -> "qwen3_5" [] nemotron(k) -> "nemotron_h" [] muse(k) -> "mixed_sliding" [] OTHER -> "none"
  BY DEF Family, SparseLatent
<1>7. /\ gemma(m) <=> gemma(c)
      /\ four(m) <=> four(c)
      /\ fourOne(m) <=> fourOne(c)
      /\ qwen4(m) <=> qwen4(c)
      /\ dsa(m) <=> dsa(c)
      /\ qwen35(m) <=> qwen35(c)
  <2> HIDE DEF is
  <2> QED
    BY <1>2 DEF Overlaid, EncoderNames
<1>8. (minimax(m) <=> minimax(c)) /\ (nemotron(m) <=> nemotron(c)) /\ (muse(m) <=> muse(c))
  BY <1>1, <1>3, <1>5
<1> HIDE DEF gemma, four, fourOne, qwen4, dsa, minimax, qwen35, nemotron, muse
<1> QED
  BY <1>4, <1>6, <1>7, <1>8

(* What the metadata of a checkpoint holds.                                *)
Overlay(processor, k) == IF processor THEN EncoderFields(k.config, k.processor) ELSE Empty

\* The metadata is the config with the encoder's fields over it.
LEMMA MetadataRead ==
  ASSUME NEW k, NEW w, NEW dtype, NEW processor, NEW hybrid, DOMAIN Overlay(processor, k) \subseteq EncoderNames
  PROVE  LET m == CalculatorMetadata(k, w, dtype, processor, hybrid)
         IN  /\ Agree(m, k.config) /\ m.w = w
             /\ \A f \in DOMAIN m \cap EncoderNames :
                  \/ f \in DOMAIN Overlay(processor, k) /\ m[f] = Overlay(processor, k)[f]
                  \/ f \in DOMAIN k.config /\ m[f] = k.config[f]
<1> DEFINE served == [torch_dtype |-> IF dtype # "" THEN dtype ELSE ServedDtype(Field(k.config, "torch_dtype", "")),
                      w |-> w, mechanism |-> Mechanism(k, hybrid)]
           encoder == Overlay(processor, k)
           m == CalculatorMetadata(k, w, dtype, processor, hybrid)
<1>1. m = [f \in DOMAIN served \cup DOMAIN encoder \cup DOMAIN k.config |->
             IF f \in DOMAIN served THEN served[f] ELSE Field(encoder, f, Field(k.config, f, 0))]
  BY DEF CalculatorMetadata, Overlay
<1>2. DOMAIN served = {"torch_dtype", "w", "mechanism"} /\ served.w = w
  OBVIOUS
<1> HIDE DEF served, encoder, m
<1>3. Agree(m, k.config)
  BY <1>1, <1>2 DEF Agree, Overlaid, Field, encoder
<1>4. m.w = w
  BY <1>1, <1>2
<1>5. ASSUME NEW f \in DOMAIN m \cap EncoderNames
      PROVE  \/ f \in DOMAIN encoder /\ m[f] = encoder[f]
             \/ f \in DOMAIN k.config /\ m[f] = k.config[f]
  <2>1. f \notin DOMAIN served
    BY <1>2, <1>5 DEF EncoderNames
  <2>2. f \in DOMAIN served \cup DOMAIN encoder \cup DOMAIN k.config
    BY <1>1, <1>5
  <2>3. m[f] = IF f \in DOMAIN served THEN served[f] ELSE Field(encoder, f, Field(k.config, f, 0))
    BY <1>1, <2>2
  <2> QED
    BY <2>1, <2>2, <2>3 DEF Field
<1> QED
  BY <1>3, <1>4, <1>5 DEF m, encoder

(* A tower's config or processor files, and a checkpoint as the assumption *)
(* has it.                                                                 *)
Tower(r) == DOMAIN r \subseteq EncoderNames /\ Numbered(r, EncoderNames)
\* A checkpoint as the assumption has it.
Stocked(k) ==
    /\ WellFormed(k.config) /\ "model_type" \in DOMAIN k.config
    /\ "vision_config" \in DOMAIN k.config => Tower(k.config.vision_config)
    /\ Tower(k.processor)
    /\ IsFiniteSet(k.tensors) /\ \A t \in k.tensors : t.size \in Nat
    /\ k.index \in Nat /\ k.published \in Nat

\* Every checkpoint is.
LEMMA CheckpointStocked == ASSUME NEW name \in DOMAIN Checkpoints PROVE Stocked(Checkpoints[name])
  BY CheckpointAssumption DEF Stocked, Tower

\* The encoder's fields are numbers.
LEMMA OverlayType ==
  ASSUME NEW k, Stocked(k), NEW processor PROVE Tower(Overlay(processor, k))
<1>1. Tower(Empty)
  BY DEF Tower, Empty, Numbered
<1>2. ASSUME Declares(k.config, {"vision_config"}) PROVE Tower(EncoderFields(k.config, k.processor)) 
  <2> DEFINE v == k.config.vision_config
             p == k.processor
             e == [f \in DOMAIN v \cup DOMAIN p |-> IF f \in DOMAIN p THEN p[f] ELSE v[f]]
  <2>1. Tower(v) /\ Tower(p)
    BY <1>2 DEF Stocked, Declares
  <2>2. Tower(e)
    BY <2>1 DEF Tower, Numbered
  <2>3. EncoderFields(k.config, k.processor) = e \/ EncoderFields(k.config, k.processor) = Empty
    BY DEF EncoderFields, Empty
  <2> QED
    BY <1>1, <2>2, <2>3
<1>3. ~Declares(k.config, {"vision_config"}) => EncoderFields(k.config, k.processor) = Empty
  BY DEF EncoderFields, Empty
<1> QED
  BY <1>1, <1>2, <1>3 DEF Overlay

(* The metadata is well formed, as the config is.                          *)
LEMMA MetadataWellFormed ==
  ASSUME NEW k, Stocked(k), NEW w, NEW dtype, NEW processor, NEW hybrid
  PROVE  WellFormed(CalculatorMetadata(k, w, dtype, processor, hybrid))
<1> DEFINE m == CalculatorMetadata(k, w, dtype, processor, hybrid)
           c == k.config
           encoder == Overlay(processor, k)
<1>1. Tower(encoder)
  BY OverlayType
<1>2. /\ Agree(m, c)
      /\ \A f \in DOMAIN m \cap EncoderNames : \/ f \in DOMAIN encoder /\ m[f] = encoder[f]
                                               \/ f \in DOMAIN c /\ m[f] = c[f]
  BY <1>1, MetadataRead DEF Tower
<1>3. WellFormed(c) /\ "model_type" \in DOMAIN c
  BY DEF Stocked
<1> HIDE DEF m, c, encoder
<1>4. Family(m) = Family(c)
  BY <1>2, <1>3, AgreeFamily
<1>5. Numbered(m, NumberFields)
  <2> SUFFICES ASSUME NEW f \in DOMAIN m \cap NumberFields PROVE m[f] \in Nat \ {0}
    BY DEF Numbered
  <2>1. CASE f \in EncoderNames
    <3>1. f \in DOMAIN encoder => encoder[f] \in Nat \ {0}
      BY <1>1, <2>1 DEF Tower, Numbered
    <3>2. f \in DOMAIN c => c[f] \in Nat \ {0}
      BY <1>3, NumberField
    <3> QED
      BY <1>2, <2>1, <3>1, <3>2
  <2>2. CASE f \notin EncoderNames
    <3>1. f \notin Overlaid
      BY <2>2 DEF Overlaid, NumberFields
    <3>2. f \in DOMAIN c /\ m[f] = c[f]
      BY <1>2, <3>1 DEF Agree
    <3> QED
      BY <1>3, <3>2, NumberField
  <2> QED
    BY <2>1, <2>2
<1>6. \A f \in DOMAIN m \cap ListFields : Listed(m[f])
  <2> SUFFICES ASSUME NEW f \in DOMAIN m \cap ListFields PROVE Listed(m[f])
    OBVIOUS
  <2>1. f \in DOMAIN c /\ m[f] = c[f]
    BY <1>2 DEF Agree, Overlaid, EncoderNames, ListFields
  <2> QED
    BY <1>3, <2>1 DEF WellFormed
<1>7. "linear_attn_config" \in DOMAIN m =>
         Numbered(m.linear_attn_config, {"num_heads", "head_dim", "short_conv_kernel_size"})
  BY <1>2, <1>3 DEF Agree, Overlaid, EncoderNames, WellFormed
<1>8. FieldsRead(Family(m)) \subseteq DOMAIN m
  <2>1. FieldsRead(Family(c)) \cap Overlaid = {}
    BY DEF FieldsRead, DeltaNetFields, WindowFields, Overlaid, EncoderNames
  <2>2. FieldsRead(Family(c)) \subseteq DOMAIN c
    BY <1>3 DEF WellFormed
  <2> QED
    BY <1>2, <1>4, <2>1, <2>2 DEF Agree
<1>9. Family(m) \in {"qwen3_5", "qwen4_exp"} /\ "num_experts" \in DOMAIN m => "moe_intermediate_size" \in DOMAIN m
  BY <1>2, <1>3, <1>4 DEF Agree, Overlaid, EncoderNames, WellFormed
<1>10. ASSUME Family(m) = "nemotron_h" /\ "head_dim" \notin DOMAIN m
       PROVE  Declares(m, {"hidden_size", "num_attention_heads"}) /\ m.hidden_size >= m.num_attention_heads
  <2>1. "head_dim" \notin DOMAIN c
    BY <1>2, <1>10 DEF Agree, Overlaid, EncoderNames
  <2>2. Declares(c, {"hidden_size", "num_attention_heads"}) /\ c.hidden_size >= c.num_attention_heads
    BY <1>3, <1>4, <1>10, <2>1 DEF WellFormed
  <2>3. m.hidden_size = c.hidden_size /\ m.num_attention_heads = c.num_attention_heads
    BY <1>2, <2>2 DEF Agree, Overlaid, EncoderNames, Declares
  <2>4. Declares(m, {"hidden_size", "num_attention_heads"})
    BY <1>2, <2>2, AgreeDeclares DEF Overlaid, EncoderNames
  <2> QED
    BY <2>2, <2>3, <2>4
<1>11. Family(m) \in {"qwen3_5", "nemotron_h", "qwen4_exp"} => "kv_lora_rank" \notin DOMAIN m
  BY <1>2, <1>3, <1>4 DEF Agree, Overlaid, EncoderNames, WellFormed
<1>12. ASSUME "sparse_attention_config" \in DOMAIN m
       PROVE  /\ Numbered(m.sparse_attention_config, {"sparse_index_dim"})
              /\ "sparse_attention_freq" \in DOMAIN m.sparse_attention_config =>
                   Listed(m.sparse_attention_config.sparse_attention_freq)
  <2>1. "sparse_attention_config" \in DOMAIN c /\ m.sparse_attention_config = c.sparse_attention_config
    BY <1>2, <1>12 DEF Agree, Overlaid, EncoderNames
  <2> QED
    BY <1>3, <2>1 DEF WellFormed
<1>13. Family(m) = "gemma4" => Declares(m, {"num_kv_shared_layers"}) \/ Declares(m, WindowFields)
  <2>1. Family(c) = "gemma4" => Declares(c, {"num_kv_shared_layers"}) \/ Declares(c, WindowFields)
    BY <1>3 DEF WellFormed
  <2>2. WindowFields \cap Overlaid = {} /\ {"num_kv_shared_layers"} \cap Overlaid = {}
    BY DEF WindowFields, Overlaid, EncoderNames
  <2> QED
    BY <1>2, <1>4, <2>1, <2>2, AgreeDeclares
<1> QED
  BY <1>5, <1>6, <1>7, <1>8, <1>9, <1>10, <1>11, <1>12, <1>13 DEF WellFormed, m

(* What is counted of the tensors is a number.                             *)
LEMMA SizeType == ASSUME NEW t, t.size \in Nat, NEW c, NEW stored PROVE SizeServed(t, c, stored) \in Nat
<1>1. LoadedSize(t, c) \in {2 * t.size, 0, t.size, t.size \div 2}
  BY DEF LoadedSize
<1> QED
  BY <1>1 DEF SizeServed

(* The bytes counted of a set of tensors.                                  *)
Sizes(R, c, stored) == SumOver(R, LAMBDA t : SizeServed(t, c, stored))

\* They are a number.
LEMMA SumSizes ==
  ASSUME NEW T, IsFiniteSet(T), \A t \in T : t.size \in Nat, NEW R \in SUBSET T, NEW c, NEW stored
  PROVE  Sizes(R, c, stored) \in Int
<1> DEFINE f == [t \in R |-> SizeServed(t, c, stored)]
<1>1. IsFiniteSet(R)
  BY FS_Subset
<1>2. f \in [R -> Int]
  BY SizeType
<1>3. Sizes(R, c, stored) = SumFunction(f)
  BY DEF Sizes, SumOver, Total
<1> HIDE DEF f
<1> QED
  BY <1>1, <1>2, <1>3, SumType

\* The loaded bytes are numbers, however the headers were read.
LEMMA WeightsLoaded ==
  ASSUME NEW k, Stocked(k), NEW headers, NEW index, NEW dtype PROVE Loaded(Weights(k, headers, index, dtype))
<1> DEFINE stored == dtype = "float32" \/ headers # "dtypes"
           read == headers \in {"dtypes", "sizes"}
           T == k.tensors
           c == k.config
           w == Weights(k, headers, index, dtype)
           i == IF index THEN k.index ELSE 0
<1>1. IsFiniteSet(T) /\ (\A t \in T : t.size \in Nat) /\ k.index \in Nat /\ k.published \in Nat
  BY DEF Stocked
<1>2. /\ w.total = WeightBytes(T, c, stored, headers # "none", i, k.published)
      /\ w.replicated = IF read THEN ReplicatedBytes(T, c, stored) ELSE 0
      /\ w.kv_head = IF read THEN KvHeadBytes(T, c, stored) ELSE 0
  BY DEF Weights
<1>3. i \in Int /\ k.published \in Int
  BY <1>1
<1> HIDE DEF stored, read, T, c, w, i
<1>4. \A R \in SUBSET T : Sizes(R, c, stored) \in Int
  BY <1>1, SumSizes
<1>5. ReplicatedBytes(T, c, stored) \in Int
  <2> DEFINE R == {t \in T : "replicated" \in t.parts /\ ~IsMtp(t, c)}
  <2>1. ReplicatedBytes(T, c, stored) = 0
        \/ ReplicatedBytes(T, c, stored) = Sizes(R, c, stored)
    BY DEF ReplicatedBytes, Sizes
  <2>2. R \in SUBSET T
    OBVIOUS
  <2> HIDE DEF R
  <2> QED
    BY <1>4, <2>1, <2>2
<1>6. KvHeadBytes(T, c, stored) \in Int
  <2> DEFINE R == {t \in T : "kv_head" \in t.parts}
  <2>1. KvHeadBytes(T, c, stored) = 0
        \/ KvHeadBytes(T, c, stored) = Sizes(R, c, stored)
    BY DEF KvHeadBytes, Sizes
  <2>2. R \in SUBSET T
    OBVIOUS
  <2> HIDE DEF R
  <2> QED
    BY <1>4, <2>1, <2>2
<1>7. HostBytes(T, c, stored) \in Int
  <2> DEFINE R == {t \in T : "host" \in t.parts}
  <2>1. HostBytes(T, c, stored) = 0
        \/ HostBytes(T, c, stored) = Sizes(R, c, stored)
    BY DEF HostBytes, Sizes
  <2>2. R \in SUBSET T
    OBVIOUS
  <2> HIDE DEF R
  <2> QED
    BY <1>4, <2>1, <2>2
<1>8. WeightBytes(T, c, stored, headers # "none", i, k.published) \in Int
  <2> DEFINE tied == IF Declares(c, {"tie_word_embeddings"}) THEN {t \in T : "lm_head" \in t.parts} ELSE {}
             mtp == {t \in T : IsMtp(t, c)}
             all == Sizes(T, c, stored)
             drafted == Sizes(mtp, c, stored)
             shared == Sizes(tied, c, stored)
             bytes == WeightBytes(T, c, stored, headers # "none", i, k.published)
  <2>1. bytes = all - drafted - HostBytes(T, c, stored) - shared \/ bytes \in {0, i, k.published}
    BY DEF WeightBytes, Sizes
  <2>2. tied \in SUBSET T /\ mtp \in SUBSET T
    OBVIOUS
  <2>3. all \in Int
    BY <1>4
  <2> HIDE DEF tied, mtp
  <2>4. drafted \in Int /\ shared \in Int
    BY <1>4, <2>2
  <2> HIDE DEF all, drafted, shared, bytes
  <2>5. bytes \in Int
    BY <1>3, <1>7, <2>1, <2>3, <2>4
  <2> QED
    BY <2>5 DEF bytes
<1> QED
  BY <1>2, <1>5, <1>6, <1>8 DEF Loaded, w

-----------------------------------------------------------------------------
(* A seed's launch, and the limit the guard sets.                          *)

(* The engine is one of the pinned versions, or none.                      *)
Pinned == engine \in {""} \cup {Versions[i] : i \in DOMAIN Versions}

\* The version chosen is pinned.
LEMMA EngineType ==
  ASSUME NEW architecture
  PROVE  EngineFor(architecture, Versions, Engines) \in {""} \cup {Versions[i] : i \in DOMAIN Versions}
<1> DEFINE serving == {i \in DOMAIN Versions : architecture \in Engines[Versions[i]].serves}
           newest == CHOOSE i \in serving : \A j \in serving : i <= j
<1>1. EngineFor(architecture, Versions, Engines) = IF serving = {} THEN "" ELSE Versions[newest]
  BY DEF EngineFor
<1>2. serving \subseteq Nat /\ serving \subseteq DOMAIN Versions
  BY EnginesAssumption DEF Listed
<1>3. serving # {} => newest \in serving
  <2>1. serving # {} => \E i \in serving : \A j \in serving : i <= j
    <3> HIDE DEF serving
    <3> QED
      BY <1>2, Smallest
  <2> QED
    BY <2>1
<1> HIDE DEF serving, newest
<1> QED
  BY <1>1, <1>2, <1>3

\* A GPU's tier has its numbers.
LEMMA TierType ==
  ASSUME request \in Requests, Pinned PROVE Tier.tokens \in Nat /\ Tier.seqs \in Nat \ {0}
<1> DEFINE v == IF engine = "" THEN Versions[1] ELSE engine
           tiers == Facts.tiers
           falling == {i \in DOMAIN tiers : Falls(tiers[i], Gpu)}
           first == CHOOSE i \in DOMAIN tiers : Falls(tiers[i], Gpu) /\ \A j \in 1 .. i - 1 : ~Falls(tiers[j], Gpu)
<1>1. v \in DOMAIN Engines /\ Facts = Engines[v]
  BY EnginesAssumption DEF Pinned, Facts
<1>2. request.gpu \in DOMAIN Gpus
  BY DEF Requests
<1>3. /\ Listed(tiers) /\ \A i \in DOMAIN tiers : tiers[i].tokens \in Nat /\ tiers[i].seqs \in Nat \ {0}
      /\ \E i \in DOMAIN tiers : Falls(tiers[i], Gpu)
  BY <1>1, <1>2, EnginesAssumption DEF Gpu
<1> HIDE DEF v, tiers
<1>4. falling \subseteq Nat /\ falling # {}
  BY <1>3 DEF Listed
<1>5. \E i \in DOMAIN tiers : Falls(tiers[i], Gpu) /\ \A j \in 1 .. i - 1 : ~Falls(tiers[j], Gpu)
  <2>1. PICK i \in falling : \A j \in falling : i <= j
    <3> HIDE DEF falling
    <3> QED
      BY <1>4, Smallest
  <2>2. ASSUME NEW j \in 1 .. i - 1 PROVE ~Falls(tiers[j], Gpu)
    <3>1. i \in Nat /\ i \in 1 .. Len(tiers) /\ j < i /\ Len(tiers) \in Nat
      BY <1>3, <1>4, <2>1, <2>2 DEF Listed
    <3>2. j \in DOMAIN tiers
      BY <1>3, <2>2, <3>1 DEF Listed
    <3>3. j \notin falling
      BY <2>1, <3>1
    <3> QED
      BY <3>2, <3>3
  <2> QED
    BY <2>1, <2>2
<1>6. first \in DOMAIN tiers
  BY <1>5
<1>7. Tier = tiers[first]
  BY DEF Tier, BatchTier, tiers
<1> HIDE DEF first
<1> QED
  BY <1>3, <1>6, <1>7

(* A seed is launched on whole GPUs, for a context and up to the tier's    *)
(* number of sequences.                                                    *)
LEMMA LaunchType ==
  ASSUME request \in Requests, Pinned, IsSeed, NEW n \in Nat \ {0} PROVE Launched(Launch(n))
<1> DEFINE x == Launch(n)
           c == ServedContext(Checkpoint)
<1>1. request.gpu \in DOMAIN Gpus /\ request.count \in Nat \ {0} /\ c \in Nat
  <2>1. request.gpu \in DOMAIN Gpus /\ request.count \in SeedCounts
    BY DEF Requests
  <2>2. request.model \in DOMAIN Checkpoints
    BY DEF Requests
  <2>3. Field(Config, "max_position_embeddings", V3Context) \in Nat \ {0}
    BY <2>2, PlanAssumption DEF Config, Checkpoint
  <2>4. c \in Nat
    BY <2>3, PlanAssumption DEF ServedContext, Smaller, Config
  <2> QED
    BY <2>1, <2>4, PlanAssumption
<1>2. /\ x.tp = TensorParallel /\ x.kv_bytes = KvDtypeBytes(metadata, "auto") /\ x.model_bytes = ModelBytes(metadata)
      /\ x.sm = Gpu.sm /\ x.memory = Gpu.memory /\ x.util = Utilization /\ x.tokens = Tier.tokens /\ x.seqs = n
      /\ x.max_len = c /\ x.isl = (IF c = 0 THEN ShortInput ELSE c - Output) /\ x.osl = Output /\ x.eager = FALSE
  BY DEF Launch
<1> HIDE DEF x, c
<1>3. x.tp \in Nat \ {0} /\ x.util \in Nat
  BY <1>1, <1>2 DEF TensorParallel, Utilization, Util
<1>4. x.kv_bytes \in Nat \ {0} /\ x.model_bytes \in Nat \ {0}
  BY <1>2, ModelType DEF KvDtypeBytes
<1>5. x.sm \in Nat /\ x.memory \in Nat
  BY <1>1, <1>2, GpusAssumption DEF Gpu
<1>6. x.tokens \in Nat
  BY <1>2, TierType
<1>7. SeqLen(x) \in Nat
  BY <1>1, <1>2 DEF SeqLen, ShortInput, Output
<1> QED
  BY <1>2, <1>3, <1>4, <1>5, <1>6, <1>7 DEF Launched, Rank, x

\* Launches of one request differ in their sequences only.
LEMMA LaunchFewer ==
  ASSUME NEW n \in Nat \ {0}, NEW k, n <= k PROVE Fewer(Launch(n), Launch(k))
  BY DEF Fewer, Launch

\* Up to the guard nothing is limited and the metadata is well formed; the limit holds.
PlanLimitInv ==
    /\ request \in Requests /\ Pinned
    /\ stage \in {"engine", "resolve", "weigh", "predict", "guard"} => limit = 0
    /\ stage \in {"predict", "guard"} => WellFormed(metadata) /\ Loaded(metadata.w)
    /\ stage = "guard" => claim = Predicted(DefaultSeqs)
    /\ LoweredPlanHolds

(* The guard: the plan it lowers is predicted again, and holds.            *)
LEMMA GuardLowers == ASSUME PlanLimitInv, Guard PROVE LoweredPlanHolds'
<1> DEFINE m == metadata
           x == Launch(DefaultSeqs)
           y == Launch(limit')
           out == Layered(m, x)
           out2 == Layered(m, y)
           margin == SafetyBuffer + out.compile_segment_bytes
           cap == StateBlockCapacity(out.available_kv_cache_bytes, out.kv_bytes_per_block, margin)
<1>1. SUFFICES ASSUME limit' > 1
      PROVE  limit' <= StateBlockCapacity(claim'.out.available_kv_cache_bytes, claim'.out.kv_bytes_per_block,
                                          SafetyBuffer + claim'.out.compile_segment_bytes)
  BY DEF LoweredPlanHolds
<1>2. /\ IsSeed /\ limit' = StateBlockLimit(claim.out, DefaultSeqs, Facts)
      /\ claim = Predicted(DefaultSeqs) /\ request \in Requests /\ Pinned /\ WellFormed(m) /\ Loaded(m.w)
  BY <1>1 DEF Guard, PlanLimitInv
<1>3. claim.out = Calculate(m, x)
  BY <1>2 DEF Predicted
<1>4. /\ Calculate(m, x) # Unknown /\ ~(Calculate(m, x).kv_bytes_per_block <= 0)
      /\ ~(DefaultSeqs <= PredictedCapacity(Calculate(m, x))) /\ limit' = Larger(1, PredictedCapacity(Calculate(m, x)))
  BY <1>1, <1>2, <1>3 DEF StateBlockLimit
<1>5. Calculate(m, x) = out /\ Calculate(m, y) = out2
  BY <1>4, OnlyLayered
<1>6. out # Unknown /\ out.kv_bytes_per_block # 0 /\ PredictedCapacity(Calculate(m, x)) = cap
  BY <1>4, <1>5 DEF PredictedCapacity
<1>7. DefaultSeqs \in Nat \ {0} /\ Launched(x)
  BY <1>2, TierType, LaunchType DEF DefaultSeqs
<1> HIDE DEF out, out2, m, x, y
<1>8. cap \in Nat /\ limit' \in Nat \ {0} /\ limit' <= DefaultSeqs /\ limit' = cap
  <2>1. out.available_kv_cache_bytes \in Int /\ out.kv_bytes_per_block \in Nat /\ out.compile_segment_bytes \in Nat
    <3>1. Fewer(x, x)
      BY <1>7, LaunchFewer DEF x
    <3> QED
      BY <1>2, <1>6, <1>7, <3>1, LayeredLowered DEF out
  <2>2. margin \in Int
    BY <2>1, BuffersAssumption
  <2> HIDE DEF margin
  <2>3. cap \in Nat
    <3> DEFINE a == out.available_kv_cache_bytes
    <3>1. a \in Int /\ a <= a
      BY <2>1
    <3> QED
      BY <2>1, <2>2, <3>1, CapacityGrows
  <2> HIDE DEF cap
  <2> QED
    BY <1>1, <1>4, <1>6, <1>7, <2>3 DEF Larger
<1>9. Fewer(y, x)
  BY <1>7, <1>8, LaunchFewer DEF x, y
<1>10. /\ out.available_kv_cache_bytes \in Int /\ out2.available_kv_cache_bytes \in Int
       /\ out.available_kv_cache_bytes <= out2.available_kv_cache_bytes
       /\ out2.kv_bytes_per_block = out.kv_bytes_per_block /\ out.kv_bytes_per_block \in Nat
       /\ out2.compile_segment_bytes = out.compile_segment_bytes /\ out.compile_segment_bytes \in Nat
  BY <1>2, <1>6, <1>7, <1>9, LayeredLowered DEF out, out2
<1>11. margin \in Int
  BY <1>10, BuffersAssumption
<1>12. claim'.out = out2
  <2>1. claim' = Predicted(limit')
    BY <1>8 DEF Guard
  <2> QED
    BY <1>5, <2>1 DEF Predicted, m, y
<1>13. cap <= StateBlockCapacity(out2.available_kv_cache_bytes, out2.kv_bytes_per_block,
                                 SafetyBuffer + out2.compile_segment_bytes)
  BY <1>10, <1>11, CapacityGrows
<1> QED
  BY <1>8, <1>12, <1>13

\* The prediction is made again only when what it is computed from changes.
LEMMA SamePrediction == ASSUME Steady PROVE Predicted(DefaultSeqs)' = Predicted(DefaultSeqs)
<1>1. Launch(DefaultSeqs)' = Launch(DefaultSeqs) /\ metadata' = metadata
  BY SameLaunch DEF Steady
<1> QED
  BY <1>1 DEF Predicted

\* No limit at first.
LEMMA LimitInit == ASSUME Init PROVE PlanLimitInv
<1>1. limit = 0 /\ stage = "engine" /\ request \in Requests /\ engine = ""
  BY DEF Init
<1>2. LoweredPlanHolds
  <2>1. limit = 0
    BY <1>1
  <2>2. ~(limit > 1)
    BY <2>1
  <2> QED
    BY <2>2 DEF LoweredPlanHolds
<1>3. Pinned
  BY <1>1 DEF Pinned
<1> QED
  BY <1>1, <1>2, <1>3 DEF PlanLimitInv

\* No stage breaks the invariant.
LEMMA LimitNext == ASSUME PlanLimitInv, [Next]_vars PROVE PlanLimitInv'
<1>1. ASSUME claim' = claim, limit' = limit PROVE LoweredPlanHolds'
  BY <1>1 DEF PlanLimitInv, LoweredPlanHolds
<1>2. ASSUME engine' = engine PROVE Pinned'
  BY <1>2 DEF PlanLimitInv, Pinned
<1>3. CASE UNCHANGED vars
  <2>1. Predicted(DefaultSeqs)' = Predicted(DefaultSeqs)
    BY <1>3, SamePrediction DEF vars, Steady
  <2> QED
    BY <1>1, <1>2, <1>3, <2>1 DEF vars, PlanLimitInv
<1>4. CASE ChooseEngine
  <2>1. Pinned'
    BY <1>4, EngineType DEF ChooseEngine, Pinned
  <2> QED
    BY <1>1, <1>4, <2>1 DEF ChooseEngine, PlanLimitInv
<1>5. CASE Resolve
  BY <1>1, <1>2, <1>5 DEF Resolve, PlanLimitInv
<1>6. CASE Weigh
  <2>1. PICK headers, index, processor :
          metadata' = CalculatorMetadata(Checkpoint, Weights(Checkpoint, headers, index, Dtype), Dtype, processor, Facts.hybrid)
    BY <1>6 DEF Weigh
  <2>2. Stocked(Checkpoint)
    BY CheckpointStocked DEF PlanLimitInv, Requests, Checkpoint
  <2>3. WellFormed(metadata')
    BY <2>1, <2>2, MetadataWellFormed
  <2>4. Loaded(metadata'.w)
    <3> DEFINE w == Weights(Checkpoint, headers, index, Dtype)
    <3>1. metadata'.w = w
      BY <2>1 DEF CalculatorMetadata
    <3>2. Loaded(w)
      BY <2>2, WeightsLoaded
    <3> HIDE DEF w
    <3> QED
      BY <3>1, <3>2
  <2> QED
    BY <1>1, <1>2, <1>6, <2>3, <2>4 DEF Weigh, PlanLimitInv
<1>7. CASE Predict
  <2>1. claim' = Predicted(DefaultSeqs)'
    <3>1. claim' = Predicted(DefaultSeqs) /\ UNCHANGED <<request, engine, metadata>>
      BY <1>7 DEF Predict
    <3>2. Predicted(DefaultSeqs)' = Predicted(DefaultSeqs)
      BY <3>1, SamePrediction DEF Steady
    <3> QED
      BY <3>1, <3>2
  <2>2. stage' = "guard" /\ limit' = 0 /\ UNCHANGED <<request, engine, metadata>>
        /\ WellFormed(metadata) /\ Loaded(metadata.w)
    BY <1>7 DEF Predict, PlanLimitInv
  <2>3. LoweredPlanHolds'
    BY <2>2 DEF LoweredPlanHolds
  <2> QED
    BY <1>2, <2>1, <2>2, <2>3 DEF PlanLimitInv
<1>8. CASE Guard
  <2>1. LoweredPlanHolds'
    BY <1>8, GuardLowers
  <2>2. stage' \in {"solve", "build"} /\ UNCHANGED <<request, engine, metadata>>
    BY <1>8 DEF Guard
  <2> QED
    BY <1>2, <2>1, <2>2 DEF PlanLimitInv
<1>9. CASE BuildPlan
  BY <1>1, <1>2, <1>9 DEF BuildPlan, PlanLimitInv
<1>10. CASE NameParsers
  BY <1>1, <1>2, <1>10 DEF NameParsers, PlanLimitInv
<1>11. CASE Solve
  BY <1>1, <1>2, <1>11 DEF Solve, PlanLimitInv
<1>12. CASE Ended
  BY <1>3, <1>12 DEF Ended
<1> QED
  BY <1>3, <1>4, <1>5, <1>6, <1>7, <1>8, <1>9, <1>10, <1>11, <1>12 DEF Next

(* The max_num_seqs the state-block guard lowers a seed's plan to still     *)
(* fits in the cache once the plan is predicted again with it, whatever    *)
(* checkpoint, GPU and engine version: no other term of the prediction     *)
(* grows as the sequences get fewer, and the blocks keep their size.       *)
THEOREM LoweredHolds == Spec => []LoweredPlanHolds
<1>1. PlanLimitInv => LoweredPlanHolds
  BY DEF PlanLimitInv
<1> QED
  BY <1>1, LimitInit, LimitNext, PTL DEF Spec

-----------------------------------------------------------------------------
(* A request's blocks hold what its layers keep.                           *)

\* A launch on whole GPUs, for a context and a batch of tokens.
Booked(x) == Rank(x) /\ x.isl + x.osl \in Nat /\ x.tokens \in Nat

\* The metadata's tails fit, as the config's do.
LEMMA MetadataTails ==
  ASSUME NEW k, Stocked(k), TailFits(k.config), NEW w, NEW dtype, NEW processor, NEW hybrid
  PROVE  TailFits(CalculatorMetadata(k, w, dtype, processor, hybrid))
<1> DEFINE m == CalculatorMetadata(k, w, dtype, processor, hybrid)
           c == k.config
<1>1. Agree(m, c)
  <2>1. DOMAIN Overlay(processor, k) \subseteq EncoderNames
    BY OverlayType DEF Tower
  <2> QED
    BY <2>1, MetadataRead
<1> HIDE DEF m
<1>2. Family(m) = Family(c)
  BY <1>1, AgreeFamily DEF Stocked
<1>3. ASSUME Family(c) = "glm5_next"
      PROVE  m.index_kpool = c.index_kpool /\ m.index_head_dim = c.index_head_dim /\ m.kv_lora_rank = c.kv_lora_rank
  <2>1. {"kv_lora_rank", "index_kpool"} \subseteq DOMAIN c
    BY <1>3 DEF Family, Declares
  <2>2. "index_head_dim" \in DOMAIN c
    BY <1>3 DEF Stocked, WellFormed, FieldsRead
  <2> QED
    BY <1>1, <2>1, <2>2 DEF Agree, Overlaid, EncoderNames
<1>4. TailFits(m)
  BY <1>2, <1>3 DEF TailFits
<1> QED
  BY <1>4 DEF m

\* Every plan, a seed's or a given one, is predicted for such a launch.
LEMMA LaunchBooked ==
  ASSUME request \in Requests, Pinned, NEW n PROVE Booked(Launch(n))
<1> DEFINE x == Launch(n)
           c == ServedContext(Checkpoint)
<1>1. /\ request.gpu \in DOMAIN Gpus /\ request.model \in DOMAIN Checkpoints /\ request.count \in SeedCounts
      /\ request.given \in {0} \cup DOMAIN GivenPlans
  BY DEF Requests
<1>2. c \in Nat
  <2>1. Field(Config, "max_position_embeddings", V3Context) \in Nat \ {0}
    BY <1>1, PlanAssumption DEF Config, Checkpoint
  <2> QED
    BY <2>1, PlanAssumption DEF ServedContext, Smaller, Config
<1>3. /\ x.tp = TensorParallel /\ x.kv_bytes = KvDtypeBytes(metadata, "auto") /\ x.model_bytes = ModelBytes(metadata)
      /\ x.sm = Gpu.sm /\ x.tokens = Tier.tokens /\ x.isl = (IF c = 0 THEN ShortInput ELSE c - Output) /\ x.osl = Output
  BY DEF Launch
<1> HIDE DEF x, c
<1>4. x.tp \in Nat \ {0}
  <2>1. CASE IsSeed
    BY <1>1, <1>3, <2>1, PlanAssumption DEF TensorParallel
  <2>2. CASE ~IsSeed
    <3>1. request.given \in DOMAIN GivenPlans
      BY <1>1, <2>2 DEF IsSeed
    <3> QED
      BY <1>3, <2>2, <3>1, PlanAssumption DEF TensorParallel, Given
  <2> QED
    BY <2>1, <2>2
<1>5. x.kv_bytes \in Nat \ {0} /\ x.model_bytes \in Nat \ {0}
  BY <1>3, ModelType DEF KvDtypeBytes
<1>6. x.sm \in Nat
  BY <1>1, <1>3, GpusAssumption DEF Gpu
<1>7. x.tokens \in Nat
  BY <1>3, TierType
<1>8. x.isl + x.osl \in Nat
  BY <1>2, <1>3 DEF ShortInput, Output
<1> QED
  BY <1>4, <1>5, <1>6, <1>7, <1>8 DEF Booked, Rank, x

\* The reservation of a known prediction holds what the layers keep.
LEMMA LayeredCovers ==
  ASSUME NEW m, WellFormed(m), TailFits(m), NEW x, Booked(x), Layered(m, x) # Unknown
  PROVE  Layered(m, x).state_per_sequence_bytes >= KeptBytes(LayerKinds(m, x), x)
<1> DEFINE all == LayerKinds(m, x)
           L == x.isl + x.osl
           F == 2 * x.tokens
           blocks == BlockAccounting(all, L, F, Layout(m))
<1>1. blocks # NotTraced /\ Layered(m, x).state_per_sequence_bytes = BytesPerSequence(blocks)
  <2>1. LayeredBlocks(m, x) = blocks
    BY DEF LayeredBlocks
  <2> HIDE DEF blocks, all
  <2> QED
    BY <2>1 DEF Layered, LayeredPrediction, Prediction
<1>2. L \in Nat /\ F \in Nat
  BY DEF Booked
<1>3. Bookable(all, Layout(m)) /\ Layout(m) \in {"grouped", "packed", "glm5_next", "uniform"}
  BY FamilyBooks DEF Booked
<1>4. KeptBytes(all, x) = Kept(all, L, F)
  BY KeptIs
<1> HIDE DEF all, L, F
<1>5. Kept(all, L, F) <= BytesPerSequence(blocks)
  BY <1>1, <1>2, <1>3, AccountCovers
<1> QED
  BY <1>1, <1>4, <1>5 DEF all

\* A known claim is the prediction for such a launch, made of metadata that
\* is well formed; there is none before the prediction.
CoverInv ==
    /\ request \in Requests /\ Pinned
    /\ stage \in {"engine", "resolve", "weigh", "predict"} => claim.out = Unknown
    /\ stage \in {"predict", "guard"} => WellFormed(metadata) /\ TailFits(metadata)
    /\ Known => /\ WellFormed(metadata) /\ TailFits(metadata)
                /\ Booked(claim.launch) /\ claim.out = Calculate(metadata, claim.launch)

\* Such a claim covers its layers.
LEMMA CoverHolds == CoverInv => ReservationCoversLayers
<1> SUFFICES ASSUME CoverInv, Known, metadata.mechanism = "layered_decode"
             PROVE  claim.out.state_per_sequence_bytes >= KeptBytes(LayerKinds(metadata, claim.launch), claim.launch)
  BY DEF ReservationCoversLayers
<1>1. WellFormed(metadata) /\ TailFits(metadata) /\ Booked(claim.launch)
  BY DEF CoverInv
<1>2. claim.out = Layered(metadata, claim.launch)
  BY DEF CoverInv, Calculate
<1>3. Layered(metadata, claim.launch) # Unknown
  BY <1>2 DEF Known
<1> QED
  BY <1>1, <1>2, <1>3, LayeredCovers

\* Nothing is predicted at first.
LEMMA CoverInit == ASSUME Init PROVE CoverInv
<1>1. stage = "engine" /\ request \in Requests /\ engine = "" /\ claim.out = Unknown
  BY DEF Init
<1> QED
  BY <1>1 DEF CoverInv, Pinned, Known

\* No stage breaks the invariant.
LEMMA CoverNext == ASSUME CoverInv, [Next]_vars PROVE CoverInv'
<1>1. ASSUME engine' = engine PROVE Pinned'
  BY <1>1 DEF CoverInv, Pinned
<1>2. ASSUME claim' = claim, metadata' = metadata
      PROVE  Known' => /\ WellFormed(metadata') /\ TailFits(metadata')
                       /\ Booked(claim'.launch) /\ claim'.out = Calculate(metadata', claim'.launch)
  BY <1>2 DEF CoverInv, Known
<1>3. CASE UNCHANGED vars
  BY <1>1, <1>2, <1>3 DEF vars, CoverInv
<1>4. CASE ChooseEngine
  <2>1. Pinned'
    BY <1>4, EngineType DEF ChooseEngine, Pinned
  <2> QED
    BY <1>2, <1>4, <2>1 DEF ChooseEngine, CoverInv
<1>5. CASE Resolve
  BY <1>1, <1>2, <1>5 DEF Resolve, CoverInv
<1>6. CASE Weigh
  <2>1. PICK headers, index, processor :
          metadata' = CalculatorMetadata(Checkpoint, Weights(Checkpoint, headers, index, Dtype), Dtype, processor, Facts.hybrid)
    BY <1>6 DEF Weigh
  <2>2. Stocked(Checkpoint) /\ TailFits(Checkpoint.config)
    <3>1. request.model \in DOMAIN Checkpoints
      BY DEF CoverInv, Requests
    <3> QED
      BY <3>1, CheckpointStocked, TailAssumption DEF Checkpoint
  <2>3. WellFormed(metadata') /\ TailFits(metadata')
    BY <2>1, <2>2, MetadataWellFormed, MetadataTails
  <2>4. claim' = claim /\ claim.out = Unknown /\ stage' = "predict" /\ UNCHANGED <<request, engine>>
    BY <1>6 DEF Weigh, CoverInv
  <2>5. ~Known'
    BY <2>4 DEF Known
  <2> QED
    BY <1>1, <2>3, <2>4, <2>5 DEF CoverInv
<1>7. ASSUME NEW n, stage \in {"predict", "guard"}, metadata' = metadata, claim' = Predicted(n)
      PROVE  Known' => /\ WellFormed(metadata') /\ TailFits(metadata')
                       /\ Booked(claim'.launch) /\ claim'.out = Calculate(metadata', claim'.launch)
  <2>1. WellFormed(metadata) /\ TailFits(metadata) /\ Booked(Launch(n))
    BY <1>7, LaunchBooked DEF CoverInv
  <2>2. claim'.launch = Launch(n) /\ claim'.out = Calculate(metadata, Launch(n))
    BY <1>7 DEF Predicted
  <2> QED
    BY <1>7, <2>1, <2>2
<1>8. CASE Predict
  <2>1. Known' => /\ WellFormed(metadata') /\ TailFits(metadata')
                  /\ Booked(claim'.launch) /\ claim'.out = Calculate(metadata', claim'.launch)
    BY <1>7, <1>8 DEF Predict
  <2> QED
    BY <1>1, <1>8, <2>1 DEF Predict, CoverInv
<1>9. CASE Guard
  <2>1. Known' => /\ WellFormed(metadata') /\ TailFits(metadata')
                  /\ Booked(claim'.launch) /\ claim'.out = Calculate(metadata', claim'.launch)
    <3>1. stage = "guard" /\ metadata' = metadata /\ (claim' = Predicted(limit') \/ claim' = claim)
      BY <1>9 DEF Guard
    <3> QED
      BY <1>2, <1>7, <3>1
  <2>2. stage' \in {"solve", "build"} /\ UNCHANGED <<request, engine, metadata>>
    BY <1>9 DEF Guard
  <2> QED
    BY <1>1, <2>1, <2>2 DEF CoverInv
<1>10. CASE BuildPlan
  BY <1>1, <1>2, <1>10 DEF BuildPlan, CoverInv
<1>11. CASE NameParsers
  BY <1>1, <1>2, <1>11 DEF NameParsers, CoverInv
<1>12. CASE Solve
  BY <1>1, <1>2, <1>12 DEF Solve, CoverInv
<1>13. CASE Ended
  BY <1>3, <1>13 DEF Ended
<1> QED
  BY <1>3, <1>4, <1>5, <1>6, <1>8, <1>9, <1>10, <1>11, <1>12, <1>13 DEF Next

(* The blocks a request is counted at hold what all its layers keep,       *)
(* whatever checkpoint, GPU and engine version and however the layout       *)
(* groups kinds of different sizes: a prediction never books less than the *)
(* sum of the layers.                                                      *)
THEOREM LayersCovered == Spec => []ReservationCoversLayers
  BY CoverInit, CoverNext, CoverHolds, PTL DEF Spec

-----------------------------------------------------------------------------
(* What a rank holds of the weights.                                       *)

\* Rounding a share up gives all ranks together no less than the whole.
LEMMA PerGpuHolds ==
  ASSUME NEW a \in Nat, NEW n \in Nat \ {0} PROVE PerGpu(a, n) \in Nat /\ n * PerGpu(a, n) >= a
<1>1. CeilDiv(a, n) * n >= a /\ CeilDiv(a, n) \in Nat
  BY CeilHolds
<1>2. \A q \in Nat : q * n = n * q
  OBVIOUS
<1> QED
  BY <1>1, <1>2 DEF PerGpu

\* Of what is counted above, the excess of the replicated part makes up for
\* what it takes from the part split by head.
LEMMA ShareArithmetic ==
  ASSUME NEW p \in Nat \ {0}, NEW n \in Nat \ {0}, n <= p,
         NEW d \in Nat, NEW h \in Nat, NEW g \in Nat, NEW kept \in Nat, NEW f \in Nat,
         n * g >= h, n * f <= p * kept, h + d >= kept
  PROVE  (p - 1) * d + kept - h + p * g >= f
<1> DEFINE e == (p - 1) * d + kept - h + p * g - f
<1>1. e \in Int
  OBVIOUS
<1>2. n * e = n * ((p - 1) * d) + n * kept - n * h + n * (p * g) - n * f
  OBVIOUS
<1>3. n * (p * g) >= p * h
  <2>1. n * (p * g) = p * (n * g)
    OBVIOUS
  <2>2. n * g \in Nat
    BY TimesType
  <2>3. p * (n * g) >= p * h
    BY <2>2, TimesGrows
  <2> QED
    BY <2>1, <2>3
<1>4. n * ((p - 1) * d) >= (p - n) * d
  <2>1. n * (p - 1) >= p - n
    <3>1. n * (p - 1) = n * p - n /\ n * p >= p
      <4>1. n >= 1
        OBVIOUS
      <4>2. p <= n * p
        BY <4>1, TimesGrows
      <4> QED
        BY <4>2
    <3> QED
      BY <3>1
  <2>2. n * (p - 1) \in Int /\ p - n \in Int
    OBVIOUS
  <2>3. (p - n) * d <= (n * (p - 1)) * d
    BY <2>1, <2>2, TimesGrows
  <2>4. (n * (p - 1)) * d = n * ((p - 1) * d)
    OBVIOUS
  <2> QED
    BY <2>3, <2>4
<1>5. (p - n) * (h + d - kept) >= 0
  <2>1. p - n \in Nat /\ h + d - kept \in Nat
    OBVIOUS
  <2> QED
    BY <2>1, TimesType
<1>6. (p - n) * (h + d - kept) = (p - n) * d + p * h - n * h - p * kept + n * kept
  OBVIOUS
<1>7. n * e >= 0
  <2>1. /\ n * ((p - 1) * d) \in Int /\ n * kept \in Int /\ n * h \in Int /\ n * (p * g) \in Int /\ n * f \in Int
        /\ p * h \in Int /\ p * kept \in Int /\ (p - n) * d \in Int
    OBVIOUS
  <2> HIDE DEF e
  <2> QED
    BY <1>2, <1>3, <1>4, <1>5, <1>6, <2>1
<1>8. e >= 0
  <2>1. ASSUME e < 0 PROVE FALSE
    <3>1. 0 - e > 0 /\ 0 - e \in Int
      BY <1>1, <2>1
    <3> DEFINE b == 0 - e
    <3>2. n * b > 0
      <4> HIDE DEF b, e
      <4> QED
        BY <3>1, TimesType DEF b
    <3>3. n * b = 0 - n * e
      <4> HIDE DEF e
      <4> QED
        BY <1>1
    <3> HIDE DEF b, e
    <3> QED
      BY <1>1, <1>7, <3>2, <3>3, TimesType
  <2> HIDE DEF e
  <2> QED
    BY <1>1, <2>1
<1> QED
  BY <1>8

\* The shard holds a rank's part of what is loaded: whole, by head and split.
LEMMA ShardHolds ==
  ASSUME NEW c, WellFormed(c), NEW x, Rank(x), NEW w, w.total \in Nat, w.replicated \in Nat, w.kv_head \in Nat,
         NEW whole \in Nat, NEW heads \in Nat, NEW rest \in Nat, NEW parts \in Nat,
         w.replicated >= whole, w.kv_head >= heads, w.total >= whole + heads + rest,
         KvRanks(c, x) * parts <= x.tp * heads
  PROVE  ShardBytes(w, c, x) \in Nat /\ x.tp * ShardBytes(w, c, x) >= x.tp * whole + parts + rest
<1> DEFINE p == x.tp
           n == KvRanks(c, x)
           r == Smaller(w.replicated, w.total)
           h == Smaller(w.kv_head, w.total - r)
           s == PerGpu(w.total - r - h, p)
           g == PerGpu(h, n)
<1>1. n \in Nat \ {0} /\ n <= p /\ p \in Nat \ {0}
  BY KvRanksType DEF Rank
<1>2. r \in Nat /\ r >= whole /\ r <= w.total
  BY DEF Smaller
<1>3. ShardBytes(w, c, x) = s + r + g
  BY DEF ShardBytes
<1> HIDE DEF n, r, p
<1>4. h \in Nat /\ h <= w.total - r /\ (h >= heads \/ h = w.total - r)
  BY <1>2 DEF Smaller
<1> HIDE DEF h
<1>5. s \in Nat /\ g \in Nat /\ p * s >= w.total - r - h /\ n * g >= h
  <2>1. w.total - r - h \in Nat
    BY <1>2, <1>4
  <2> QED
    BY <1>1, <1>4, <2>1, PerGpuHolds
<1> HIDE DEF s, g
<1> DEFINE d == r - whole
<1>6. d \in Nat /\ h + d >= heads
  BY <1>2, <1>4
<1>7. (p - 1) * d + heads - h + p * g >= parts
  <2>1. n * parts <= p * heads
    BY DEF n, p
  <2> HIDE DEF d
  <2> QED
    BY <1>1, <1>4, <1>5, <1>6, <2>1, ShareArithmetic
<1>8. p * (s + r + g) = p * s + p * r + p * g /\ (p - 1) * d = p * r - p * whole - r + whole
  BY <1>1, <1>2, <1>5
<1>9. p * s \in Nat /\ p * r \in Nat /\ p * g \in Nat /\ p * whole \in Nat
  BY <1>1, <1>2, <1>5, TimesType
<1>10. p * (s + r + g) >= p * whole + parts + rest
  <2>1. (p - 1) * d \in Int
    BY <1>1, <1>6
  <2> HIDE DEF d
  <2> QED
    BY <1>2, <1>4, <1>5, <1>7, <1>8, <1>9, <2>1
<1> QED
  BY <1>2, <1>3, <1>5, <1>10 DEF p

\* The bytes counted of a subset of the tensors are no more than of all.
LEMMA SizesWithin ==
  ASSUME NEW T, IsFiniteSet(T), \A t \in T : t.size \in Nat, NEW R \in SUBSET T, NEW c, NEW stored
  PROVE  Sizes(R, c, stored) \in Nat /\ Sizes(R, c, stored) <= Sizes(T, c, stored) /\ Sizes(T, c, stored) \in Nat
<1> DEFINE f == [t \in T |-> SizeServed(t, c, stored)]
           g == [t \in R |-> SizeServed(t, c, stored)]
<1>1. f \in [T -> Nat] /\ g \in [R -> Nat] /\ \A t \in R : f[t] = g[t]
  BY SizeType
<1>2. Sizes(T, c, stored) = SumFunction(f) /\ Sizes(R, c, stored) = SumFunction(g)
  BY DEF Sizes, SumOver, Total
<1>3. T \in SUBSET T /\ \A t \in T : f[t] = f[t]
  OBVIOUS
<1> HIDE DEF f, g
<1>4. SumFunction(g) <= SumFunction(f) /\ SumFunction(g) \in Nat
  BY <1>1, SumMonotone
<1>5. SumFunction(f) \in Nat
  BY <1>1, <1>3, SumMonotone
<1> QED
  BY <1>2, <1>4, <1>5

\* Tensors apart are counted apart.
LEMMA SizesJoin ==
  ASSUME NEW T, IsFiniteSet(T), \A t \in T : t.size \in Nat, NEW R \in SUBSET T, NEW c, NEW stored
  PROVE  Sizes(T, c, stored) = Sizes(R, c, stored) + Sizes(T \ R, c, stored)
<1> DEFINE f == [t \in T |-> SizeServed(t, c, stored)]
           g == [t \in R |-> SizeServed(t, c, stored)]
           h == [t \in T \ R |-> SizeServed(t, c, stored)]
<1>1. f \in [T -> Int] /\ g \in [R -> Int] /\ h \in [T \ R -> Int]
  BY SizeType
<1>2. (\A t \in R : f[t] = g[t]) /\ (\A t \in T \ R : f[t] = h[t])
  OBVIOUS
<1>3. /\ Sizes(T, c, stored) = SumFunction(f)
      /\ Sizes(R, c, stored) = SumFunction(g)
      /\ Sizes(T \ R, c, stored) = SumFunction(h)
  BY DEF Sizes, SumOver, Total
<1>4. IsFiniteSet(R) /\ IsFiniteSet(T \ R) /\ R \cap (T \ R) = {} /\ R \cup (T \ R) = T
  BY FS_Subset
<1> HIDE DEF f, g, h
<1>5. Joins(f, g, h, R, T \ R)
  BY <1>1, <1>2, <1>4 DEF Joins
<1> QED
  BY <1>3, <1>5, SumUnion

\* Of no tensors nothing is counted.
LEMMA SizesNone == ASSUME NEW c, NEW stored PROVE Sizes({}, c, stored) = 0
<1> DEFINE f == [t \in {} |-> SizeServed(t, c, stored)]
<1>1. f \in [{} -> Int] /\ (\A t \in {} : f[t] = 0) /\ IsFiniteSet({})
  BY FS_EmptySet
<1>2. Sizes({}, c, stored) = SumFunction(f)
  BY DEF Sizes, SumOver, Total
<1> HIDE DEF f
<1> QED
  BY <1>1, <1>2, SumZero

(* The tensors of the MTP layers.                                          *)
Drafted(k) == {t \in k.tensors : IsMtp(t, k.config)}
\* A stored lm_head the engine shares with the embeddings.
Tied(k) == IF Declares(k.config, {"tie_word_embeddings"}) THEN {t \in k.tensors : "lm_head" \in t.parts} ELSE {}
\* The n-gram tables.
OnHost(k) == IF HasHostTable(k.config) THEN {t \in k.tensors : "host" \in t.parts} ELSE {}
\* The tensors the engine loads on the GPUs.
OnGpu(k) == ((k.tensors \ Drafted(k)) \ OnHost(k)) \ Tied(k)

\* With the headers, the total is what is loaded on a GPU.
LEMMA TotalLoaded ==
  ASSUME NEW k, Stocked(k), ClassesApart(k), NEW stored, NEW index, NEW published, k.tensors # {}
  PROVE  WeightBytes(k.tensors, k.config, stored, TRUE, index, published) = Sizes(OnGpu(k), k.config, stored)
<1> DEFINE T == k.tensors
           c == k.config
           D == Drafted(k)
           H == OnHost(k)
           L == Tied(k)
<1>1. IsFiniteSet(T) /\ \A t \in T : t.size \in Nat
  BY DEF Stocked
<1>2. D \in SUBSET T /\ H \in SUBSET T /\ L \in SUBSET T
  BY DEF Drafted, OnHost, Tied
<1>3. D \cap H = {} /\ D \cap L = {} /\ H \cap L = {}
  BY DEF Drafted, OnHost, Tied, ClassesApart
<1>4. WeightBytes(T, c, stored, TRUE, index, published)
      = Sizes(T, c, stored) - Sizes(D, c, stored) - Sizes(H, c, stored) - Sizes(L, c, stored)
  <2>1. HostBytes(T, c, stored) = Sizes(H, c, stored)
    <3>1. CASE HasHostTable(c)
      <4> DEFINE R == {t \in T : "host" \in t.parts}
      <4>1. HostBytes(T, c, stored) = Sizes(R, c, stored)
        BY <3>1 DEF HostBytes, Sizes
      <4>2. H = R
        BY <3>1 DEF OnHost
      <4> HIDE DEF R, H, T, c
      <4> QED
        BY <4>1, <4>2
    <3>2. CASE ~HasHostTable(c)
      <4>1. H = {} /\ HostBytes(T, c, stored) = 0
        BY <3>2 DEF OnHost, HostBytes
      <4>2. Sizes({}, c, stored) = 0
        BY SizesNone
      <4> HIDE DEF T, c, H
      <4> QED
        BY <4>1, <4>2
    <3> QED
      BY <3>1, <3>2
  <2>2. WeightBytes(T, c, stored, TRUE, index, published)
        = Sizes(T, c, stored) - Sizes(D, c, stored) - HostBytes(T, c, stored) - Sizes(L, c, stored)
    BY DEF WeightBytes, Sizes, Drafted, Tied
  <2> QED
    BY <2>1, <2>2
<1> HIDE DEF T, c, D, H, L
<1> DEFINE U == T \ D
           V == U \ H
<1>5. /\ H \in SUBSET U /\ L \in SUBSET V
      /\ IsFiniteSet(U) /\ IsFiniteSet(V) /\ (\A t \in U : t.size \in Nat) /\ (\A t \in V : t.size \in Nat)
  BY <1>1, <1>2, <1>3, FS_Subset
<1> HIDE DEF U, V
<1>6. Sizes(T, c, stored) = Sizes(D, c, stored) + Sizes(U, c, stored)
  BY <1>1, <1>2, SizesJoin DEF U
<1>7. Sizes(U, c, stored) = Sizes(H, c, stored) + Sizes(V, c, stored)
  BY <1>5, SizesJoin DEF V
<1>8. Sizes(V, c, stored) = Sizes(L, c, stored) + Sizes(V \ L, c, stored)
  BY <1>5, SizesJoin
<1>9. \A R \in {D, U, H, V, L, V \ L} : Sizes(R, c, stored) \in Int
  <2>1. \A R \in {D, U, H, V, L, V \ L} : R \in SUBSET T
    BY <1>2 DEF U, V
  <2> QED
    BY <1>1, <2>1, SumSizes
<1>10. V \ L = OnGpu(k)
  BY DEF OnGpu, V, U, T, D, H, L
<1>11. Sizes(T, c, stored) - Sizes(D, c, stored) - Sizes(H, c, stored) - Sizes(L, c, stored) = Sizes(V \ L, c, stored)
  BY <1>6, <1>7, <1>8, <1>9
<1> HIDE DEF U, V
<1> QED
  BY <1>4, <1>10, <1>11 DEF T, c

(* A tensor every rank keeps whole.                                        *)
WholeOn(t, c) == "replicated" \in t.parts /\ c.model_type \in TracesReplicas
\* One split among the ranks by KV head.
ByHead(t, c) == ~WholeOn(t, c) /\ "kv_head" \in t.parts /\ c.model_type = "minimax_m3"
\* What a rank holds of the tensors, times tp.
Shares(T, c, x, stored) == SumFunction([t \in T |-> RankTimesTp(t, c, x, stored)])

\* A function on a set sums up over a part and the rest.
LEMMA SharesJoin ==
  ASSUME NEW T, IsFiniteSet(T), NEW R \in SUBSET T, NEW c, NEW x, NEW stored,
         \A t \in T : RankTimesTp(t, c, x, stored) \in Nat
  PROVE  Shares(T, c, x, stored) = Shares(R, c, x, stored) + Shares(T \ R, c, x, stored)
<1> DEFINE f == [t \in T |-> RankTimesTp(t, c, x, stored)]
           g == [t \in R |-> RankTimesTp(t, c, x, stored)]
           h == [t \in T \ R |-> RankTimesTp(t, c, x, stored)]
<1>1. f \in [T -> Int] /\ g \in [R -> Int] /\ h \in [T \ R -> Int]
  OBVIOUS
<1>2. (\A t \in R : f[t] = g[t]) /\ (\A t \in T \ R : f[t] = h[t])
  OBVIOUS
<1>3. /\ Shares(T, c, x, stored) = SumFunction(f)
      /\ Shares(R, c, x, stored) = SumFunction(g)
      /\ Shares(T \ R, c, x, stored) = SumFunction(h)
  BY DEF Shares
<1>4. IsFiniteSet(R) /\ IsFiniteSet(T \ R) /\ R \cap (T \ R) = {} /\ R \cup (T \ R) = T
  BY FS_Subset
<1> HIDE DEF f, g, h
<1>5. Joins(f, g, h, R, T \ R)
  BY <1>1, <1>2, <1>4 DEF Joins
<1> QED
  BY <1>3, <1>5, SumUnion

\* The shares of tensors of one kind: whole, split by head, split.
LEMMA SharesOfKind ==
  ASSUME NEW T, IsFiniteSet(T), \A t \in T : t.size \in Nat, NEW c, WellFormed(c), NEW x, Rank(x), NEW stored
  PROVE  /\ (\A t \in T : WholeOn(t, c)) => Shares(T, c, x, stored) = x.tp * Sizes(T, c, stored)
         /\ (\A t \in T : ByHead(t, c)) => /\ Shares(T, c, x, stored) \in Nat
                                           /\ KvRanks(c, x) * Shares(T, c, x, stored) <= x.tp * Sizes(T, c, stored)
         /\ (\A t \in T : ~WholeOn(t, c) /\ ~ByHead(t, c)) => Shares(T, c, x, stored) = Sizes(T, c, stored)
<1> DEFINE f == [t \in T |-> RankTimesTp(t, c, x, stored)]
           g == [t \in T |-> SizeServed(t, c, stored)]
           p == x.tp
           n == KvRanks(c, x)
<1>1. g \in [T -> Nat]
  BY SizeType
<1>2. Shares(T, c, x, stored) = SumFunction(f) /\ Sizes(T, c, stored) = SumFunction(g)
  BY DEF Shares, Sizes, SumOver, Total
<1>3. n \in Nat \ {0} /\ p \in Nat \ {0}
  BY KvRanksType DEF Rank
<1>4. \A t \in T : f[t] = IF WholeOn(t, c) THEN p * g[t] ELSE IF ByHead(t, c) THEN (p * g[t]) \div n ELSE g[t]
  BY DEF RankTimesTp, WholeOn, ByHead
<1>5. DOMAIN f = T /\ f = [t \in T |-> f[t]]
  OBVIOUS
<1> HIDE DEF f, g, n, p
<1>6. g \in [T -> Int]
  BY <1>1
<1>7. ASSUME \A t \in T : WholeOn(t, c) PROVE SumFunction(f) = p * SumFunction(g)
  <2>1. \A t \in T : f[t] = p * g[t] /\ f[t] \in Int
    BY <1>1, <1>3, <1>4, <1>7
  <2>2. f \in [T -> Int]
    BY <1>5, <2>1
  <2> QED
    BY <1>3, <1>6, <2>1, <2>2, SumScaled
<1>8. ASSUME \A t \in T : ByHead(t, c) PROVE SumFunction(f) \in Nat /\ n * SumFunction(f) <= p * SumFunction(g)
  <2>1. \A t \in T : f[t] = (p * g[t]) \div n
    BY <1>4, <1>8 DEF ByHead
  <2>2. ASSUME NEW t \in T PROVE f[t] \in Nat /\ n * f[t] <= p * g[t] /\ n * f[t] \in Int /\ p * g[t] \in Int
    <3> DEFINE a == p * g[t]
    <3>1. a \in Nat
      BY <1>1, <1>3, TimesType
    <3>2. f[t] = a \div n
      BY <2>1
    <3> HIDE DEF a
    <3>3. a \div n \in Nat /\ a = n * (a \div n) + (a % n) /\ a % n \in Nat
      BY <1>3, <3>1, DivType
    <3>4. n * (a \div n) \in Int
      BY <1>3, <3>3, TimesType
    <3> QED
      BY <3>1, <3>2, <3>3, <3>4 DEF a
  <2> DEFINE low == [t \in T |-> n * f[t]]
             high == [t \in T |-> p * g[t]]
  <2>3. low \in [T -> Int] /\ high \in [T -> Int] /\ (\A t \in T : low[t] <= high[t])
        /\ (\A t \in T : low[t] = n * f[t]) /\ (\A t \in T : high[t] = p * g[t])
    BY <2>2
  <2>4. f \in [T -> Nat] /\ f \in [T -> Int] /\ n \in Int /\ p \in Int
    BY <1>3, <1>5, <2>2
  <2> HIDE DEF low, high
  <2>5. SumFunction(low) = n * SumFunction(f)
    BY <2>3, <2>4, SumScaled
  <2>6. SumFunction(high) = p * SumFunction(g)
    BY <1>6, <2>3, <2>4, SumScaled
  <2>7. SumFunction(low) <= SumFunction(high)
    BY <2>3, SumBounded
  <2>8. SumFunction(f) \in Nat
    <3>1. T \in SUBSET T /\ \A t \in T : f[t] = f[t]
      OBVIOUS
    <3> QED
      BY <2>4, <3>1, SumMonotone
  <2> QED
    BY <2>5, <2>6, <2>7, <2>8
<1>9. ASSUME \A t \in T : ~WholeOn(t, c) /\ ~ByHead(t, c) PROVE f = g
  <2>1. \A t \in T : f[t] = g[t]
    BY <1>4, <1>9
  <2> QED
    BY <1>1, <1>5, <2>1
<1> QED
  BY <1>2, <1>7, <1>8, <1>9 DEF n, p

\* Every share is a number.
LEMMA ShareType ==
  ASSUME NEW t, t.size \in Nat, NEW c, WellFormed(c), NEW x, Rank(x), NEW stored
  PROVE  RankTimesTp(t, c, x, stored) \in Nat
<1> DEFINE size == SizeServed(t, c, stored)
           n == KvRanks(c, x)
<1>1. size \in Nat /\ n \in Nat \ {0} /\ x.tp \in Nat
  BY SizeType, KvRanksType DEF Rank
<1>2. RankTimesTp(t, c, x, stored) \in {x.tp * size, (x.tp * size) \div n, size}
  BY DEF RankTimesTp
<1> HIDE DEF size, n
<1>3. x.tp * size \in Nat
  BY <1>1, TimesType
<1>4. (x.tp * size) \div n \in Nat
  BY <1>1, <1>3, DivType
<1> QED
  BY <1>1, <1>2, <1>3, <1>4

(* The tensors every rank keeps whole, those split by head, the others.    *)
Whole(T, c) == {t \in T : WholeOn(t, c)}
Headed(T, c) == {t \in T : ByHead(t, c)}
Split(T, c) == {t \in T : ~WholeOn(t, c) /\ ~ByHead(t, c)}

\* What a rank holds of tensors, kind by kind.
LEMMA SharesSum ==
  ASSUME NEW T, IsFiniteSet(T), \A t \in T : t.size \in Nat, NEW c, WellFormed(c), NEW x, Rank(x), NEW stored
  PROVE  LET parts == Shares(Headed(T, c), c, x, stored)
         IN  /\ Shares(T, c, x, stored) = x.tp * Sizes(Whole(T, c), c, stored) + parts + Sizes(Split(T, c), c, stored)
             /\ parts \in Nat /\ KvRanks(c, x) * parts <= x.tp * Sizes(Headed(T, c), c, stored)
             /\ Sizes(T, c, stored) = Sizes(Whole(T, c), c, stored) + Sizes(Headed(T, c), c, stored)
                                      + Sizes(Split(T, c), c, stored)
             /\ \A R \in {Whole(T, c), Headed(T, c), Split(T, c)} : Sizes(R, c, stored) \in Nat
<1> DEFINE W == Whole(T, c)
           H == Headed(T, c)
           O == Split(T, c)
           U == T \ W
<1>1. /\ W \in SUBSET T /\ H \in SUBSET U /\ O = U \ H /\ H \in SUBSET T /\ O \in SUBSET T /\ U \in SUBSET T
      /\ \A t \in W : WholeOn(t, c)
      /\ \A t \in H : ByHead(t, c)
      /\ \A t \in O : ~WholeOn(t, c) /\ ~ByHead(t, c)
  BY DEF Whole, Headed, Split, ByHead
<1> HIDE DEF W, H, O, U
<1>2. \A R \in SUBSET T : IsFiniteSet(R) /\ \A t \in R : t.size \in Nat
  BY FS_Subset
<1>3. \A t \in T : RankTimesTp(t, c, x, stored) \in Nat
  BY ShareType
<1>4. IsFiniteSet(U) /\ (\A t \in U : t.size \in Nat) /\ U \ H = O
  BY <1>1, <1>2
<1>5. Shares(T, c, x, stored) = Shares(W, c, x, stored) + Shares(U, c, x, stored)
  BY <1>1, <1>3, SharesJoin DEF U
<1>6. Shares(U, c, x, stored) = Shares(H, c, x, stored) + Shares(O, c, x, stored)
  <2>1. \A t \in U : RankTimesTp(t, c, x, stored) \in Nat
    BY <1>1, <1>3
  <2>2. Shares(U, c, x, stored) = Shares(H, c, x, stored) + Shares(U \ H, c, x, stored)
    BY <1>4, <1>1, <2>1, SharesJoin
  <2> QED
    BY <1>4, <2>2
<1>7. Shares(W, c, x, stored) = x.tp * Sizes(W, c, stored)
  BY <1>1, <1>2, SharesOfKind
<1>8. Shares(H, c, x, stored) \in Nat /\ KvRanks(c, x) * Shares(H, c, x, stored) <= x.tp * Sizes(H, c, stored)
  BY <1>1, <1>2, SharesOfKind
<1>9. Shares(O, c, x, stored) = Sizes(O, c, stored)
  BY <1>1, <1>2, SharesOfKind
<1>10. Sizes(T, c, stored) = Sizes(W, c, stored) + Sizes(U, c, stored)
  BY <1>1, SizesJoin DEF U
<1>11. Sizes(U, c, stored) = Sizes(H, c, stored) + Sizes(O, c, stored)
  <2>1. Sizes(U, c, stored) = Sizes(H, c, stored) + Sizes(U \ H, c, stored)
    BY <1>4, <1>1, SizesJoin
  <2> QED
    BY <1>4, <2>1
<1>12. Sizes(W, c, stored) \in Nat /\ Sizes(H, c, stored) \in Nat /\ Sizes(O, c, stored) \in Nat
  BY <1>1, SizesWithin
<1>13. x.tp * Sizes(W, c, stored) \in Nat
  BY <1>12, TimesType DEF Rank
<1>14. /\ Shares(T, c, x, stored) = x.tp * Sizes(W, c, stored) + Shares(H, c, x, stored) + Sizes(O, c, stored)
       /\ Sizes(T, c, stored) = Sizes(W, c, stored) + Sizes(H, c, stored) + Sizes(O, c, stored)
  BY <1>5, <1>6, <1>7, <1>8, <1>9, <1>10, <1>11, <1>12, <1>13
<1> QED
  BY <1>8, <1>12, <1>14 DEF W, H, O

(* How the sizes are read with headers of a kind.                          *)
StoredSizes(headers, dtype) == dtype = "float32" \/ headers # "dtypes"

\* What is counted as loaded holds what is loaded, whole and by head.
LEMMA WeightsHold ==
  ASSUME NEW k, Stocked(k), ClassesApart(k), NEW headers \in {"dtypes", "sizes"}, NEW index, NEW dtype
  PROVE  LET w == Weights(k, headers, index, dtype)
             c == k.config
             G == OnGpu(k)
             stored == StoredSizes(headers, dtype)
         IN  /\ w.total \in Nat /\ w.replicated \in Nat /\ w.kv_head \in Nat
             /\ w.total >= Sizes(G, c, stored)
             /\ w.replicated >= Sizes(Whole(G, c), c, stored)
             /\ w.kv_head >= Sizes(Headed(G, c), c, stored)
<1> DEFINE w == Weights(k, headers, index, dtype)
           c == k.config
           T == k.tensors
           G == OnGpu(k)
           stored == StoredSizes(headers, dtype)
           i == IF index THEN k.index ELSE 0
<1>1. IsFiniteSet(T) /\ (\A t \in T : t.size \in Nat) /\ k.index \in Nat /\ k.published \in Nat
  BY DEF Stocked
<1>2. /\ w.total = WeightBytes(T, c, stored, TRUE, i, k.published)
      /\ w.replicated = ReplicatedBytes(T, c, stored) /\ w.kv_head = KvHeadBytes(T, c, stored)
  <2>1. headers # "none"
    OBVIOUS
  <2> QED
    BY <2>1 DEF Weights, StoredSizes
<1>3. G \in SUBSET T /\ \A t \in G : ~IsMtp(t, c)
  BY DEF OnGpu, Drafted
<1>4. Whole(G, c) \in SUBSET T /\ Headed(G, c) \in SUBSET T
  BY <1>3 DEF Whole, Headed
<1> HIDE DEF stored, G
<1>5. w.total \in Nat /\ w.total >= Sizes(G, c, stored)
  <2>1. CASE T # {}
    <3>1. w.total = Sizes(G, c, stored)
      BY <1>2, <2>1, TotalLoaded DEF G
    <3>2. Sizes(G, c, stored) \in Nat
      BY <1>1, <1>3, SizesWithin
    <3> QED
      BY <3>1, <3>2
  <2>2. CASE T = {}
    <3>1. w.total \in {0, i, k.published}
      BY <1>2, <2>2 DEF WeightBytes
    <3>2. Sizes(G, c, stored) = 0
      <4>1. G = {}
        BY <1>3, <2>2
      <4> QED
        BY <4>1, SizesNone
    <3>3. i \in Nat
      BY <1>1
    <3> HIDE DEF i, w, c
    <3> QED
      BY <1>1, <3>1, <3>2, <3>3
  <2> QED
    BY <2>1, <2>2
<1>6. w.replicated \in Nat /\ w.replicated >= Sizes(Whole(G, c), c, stored)
  <2>1. CASE c.model_type \in TracesReplicas
    <3> DEFINE R == {t \in T : "replicated" \in t.parts /\ ~IsMtp(t, c)}
    <3>1. w.replicated = Sizes(R, c, stored)
      BY <1>2, <2>1 DEF ReplicatedBytes, Sizes
    <3>2. R \in SUBSET T /\ Whole(G, c) \in SUBSET R
      BY <1>3 DEF Whole, WholeOn
    <3> HIDE DEF R, w, T, c
    <3>3. IsFiniteSet(R) /\ \A t \in R : t.size \in Nat
      BY <1>1, <3>2, FS_Subset
    <3> QED
      BY <3>1, <3>2, <3>3, SizesWithin
  <2>2. CASE c.model_type \notin TracesReplicas
    <3>1. Whole(G, c) = {}
      BY <2>2 DEF Whole, WholeOn
    <3>2. w.replicated = 0
      BY <1>2, <2>2 DEF ReplicatedBytes
    <3> QED
      BY <3>1, <3>2, SizesNone
  <2> QED
    BY <2>1, <2>2
<1>7. w.kv_head \in Nat /\ w.kv_head >= Sizes(Headed(G, c), c, stored)
  <2>1. CASE c.model_type = "minimax_m3"
    <3> DEFINE R == {t \in T : "kv_head" \in t.parts}
    <3>1. w.kv_head = Sizes(R, c, stored)
      BY <1>2, <2>1 DEF KvHeadBytes, Sizes
    <3>2. R \in SUBSET T /\ Headed(G, c) \in SUBSET R
      BY <1>3 DEF Headed, ByHead
    <3> HIDE DEF R, w, T, c
    <3>3. IsFiniteSet(R) /\ \A t \in R : t.size \in Nat
      BY <1>1, <3>2, FS_Subset
    <3> QED
      BY <3>1, <3>2, <3>3, SizesWithin
  <2>2. CASE c.model_type # "minimax_m3"
    <3>1. Headed(G, c) = {}
      BY <2>2 DEF Headed, ByHead
    <3>2. w.kv_head = 0
      BY <1>2, <2>2 DEF KvHeadBytes
    <3> QED
      BY <3>1, <3>2, SizesNone
  <2> QED
    BY <2>1, <2>2
<1> QED
  BY <1>5, <1>6, <1>7 DEF stored, G

\* A shard holds a rank's part of what is loaded on the GPUs.
LEMMA ShardShares ==
  ASSUME NEW k, Stocked(k), ClassesApart(k), NEW headers \in {"dtypes", "sizes"}, NEW index, NEW dtype,
         NEW m, WellFormed(m), NEW x, Rank(x), KvRanks(m, x) = KvRanks(k.config, x)
  PROVE  LET shard == ShardBytes(Weights(k, headers, index, dtype), m, x)
         IN  shard \in Nat /\ x.tp * shard >= Shares(OnGpu(k), k.config, x, StoredSizes(headers, dtype))
<1> DEFINE w == Weights(k, headers, index, dtype)
           c == k.config
           G == OnGpu(k)
           stored == StoredSizes(headers, dtype)
           parts == Shares(Headed(G, c), c, x, stored)
           whole == Sizes(Whole(G, c), c, stored)
           heads == Sizes(Headed(G, c), c, stored)
           rest == Sizes(Split(G, c), c, stored)
<1>1. WellFormed(c) /\ IsFiniteSet(G) /\ \A t \in G : t.size \in Nat
  <2>1. IsFiniteSet(k.tensors) /\ G \in SUBSET k.tensors
    BY DEF Stocked, OnGpu
  <2> QED
    BY <2>1, FS_Subset DEF Stocked
<1>2. /\ w.total \in Nat /\ w.replicated \in Nat /\ w.kv_head \in Nat
      /\ w.total >= Sizes(G, c, stored) /\ w.replicated >= whole /\ w.kv_head >= heads
  BY WeightsHold
<1> HIDE DEF w, c, G, stored
<1>3. /\ Shares(G, c, x, stored) = x.tp * whole + parts + rest
      /\ parts \in Nat /\ KvRanks(c, x) * parts <= x.tp * heads
      /\ Sizes(G, c, stored) = whole + heads + rest
      /\ whole \in Nat /\ heads \in Nat /\ rest \in Nat
  BY <1>1, SharesSum
<1> HIDE DEF parts, whole, heads, rest
<1>4. KvRanks(m, x) * parts <= x.tp * heads
  BY <1>3 DEF c
<1>5. ShardBytes(w, m, x) \in Nat /\ x.tp * ShardBytes(w, m, x) >= x.tp * whole + parts + rest
  BY <1>2, <1>3, <1>4, ShardHolds
<1> QED
  BY <1>3, <1>5 DEF w, c, G, stored

\* So does an even part of all, where nothing is known to be kept whole.
LEMMA EvenShares ==
  ASSUME NEW k, Stocked(k), ClassesApart(k), NEW headers \in {"dtypes", "sizes"}, NEW index, NEW dtype,
         NEW x, Rank(x), k.config.model_type \notin TracesReplicas
  PROVE  LET even == PerGpu(Weights(k, headers, index, dtype).total, x.tp)
         IN  even \in Nat /\ x.tp * even >= Shares(OnGpu(k), k.config, x, StoredSizes(headers, dtype))
<1> DEFINE w == Weights(k, headers, index, dtype)
           c == k.config
           G == OnGpu(k)
           stored == StoredSizes(headers, dtype)
<1>1. WellFormed(c) /\ IsFiniteSet(G) /\ \A t \in G : t.size \in Nat
  <2>1. IsFiniteSet(k.tensors) /\ G \in SUBSET k.tensors
    BY DEF Stocked, OnGpu
  <2> QED
    BY <2>1, FS_Subset DEF Stocked
<1>2. w.total \in Nat /\ w.total >= Sizes(G, c, stored)
  BY WeightsHold
<1>3. \A t \in G : ~WholeOn(t, c) /\ ~ByHead(t, c)
  BY DEF WholeOn, ByHead, TracesReplicas
<1>4. Shares(G, c, x, stored) = Sizes(G, c, stored)
  <2> HIDE DEF c, G, stored
  <2> QED
    BY <1>1, <1>3, SharesOfKind
<1>5. Sizes(G, c, stored) \in Nat
  <2> HIDE DEF c, G, stored
  <2>1. G \in SUBSET G
    OBVIOUS
  <2> QED
    BY <1>1, <2>1, SizesWithin
<1>6. PerGpu(w.total, x.tp) \in Nat /\ x.tp * PerGpu(w.total, x.tp) >= w.total
  <2> HIDE DEF w
  <2> QED
    BY <1>2, PerGpuHolds DEF Rank
<1>7. x.tp * PerGpu(w.total, x.tp) \in Nat
  BY <1>6, TimesType DEF Rank
<1> HIDE DEF w, c, G, stored
<1>8. x.tp * PerGpu(w.total, x.tp) >= Shares(G, c, x, stored)
  BY <1>2, <1>4, <1>5, <1>6, <1>7
<1> QED
  BY <1>6, <1>8 DEF w, c, G, stored

\* Nor is that of DeepSeek's MXFP4 experts.
LEMMA Mxfp4Nat ==
  ASSUME NEW c, WellFormed(c), PaddingFits(c), NEW x, Rank(x), "hidden_size" \in DOMAIN c
  PROVE  Mxfp4ExpertPadding(c, x) \in Nat
<1> DEFINE h == c.hidden_size
           layers == c.num_hidden_layers - Field(c, "first_k_dense_replace", 0)
           pad == ExpertPad(c.moe_intermediate_size, x)
           row == h + (2 * h) \div 32 + h \div 2 + h \div 32
           bytes == layers * c.n_routed_experts * pad * row
<1>1. SUFFICES ASSUME Family(c) \in {"deepseek_v4", "deepseek_v41"} PROVE bytes \in Nat
  <2>1. CASE Family(c) \notin {"deepseek_v4", "deepseek_v41"}
    BY <2>1 DEF Mxfp4ExpertPadding
  <2>2. CASE Family(c) \in {"deepseek_v4", "deepseek_v41"}
    <3>1. bytes \in Nat
      BY <1>1, <2>2
    <3>2. Mxfp4ExpertPadding(c, x) = 0 \/ Mxfp4ExpertPadding(c, x) = bytes
      BY DEF Mxfp4ExpertPadding
    <3> HIDE DEF bytes
    <3> QED
      BY <3>1, <3>2
  <2> QED
    BY <2>1, <2>2
<1>2. "num_hidden_layers" \in DOMAIN c /\ {"moe_intermediate_size", "n_routed_experts"} \subseteq DOMAIN c
  BY <1>1 DEF WellFormed, FieldsRead, PaddingFits, Declares
<1>3. h \in Nat /\ c.num_hidden_layers \in Nat /\ c.moe_intermediate_size \in Nat /\ c.n_routed_experts \in Nat
  BY <1>2, NumberField DEF NumberFields
<1>4. layers \in Nat
  BY <1>1, <1>3 DEF PaddingFits
<1>5. pad \in Nat
  BY <1>3, PadNat
<1>6. row \in Nat
  BY <1>3
<1> HIDE DEF layers, pad, row
<1>7. layers * c.n_routed_experts \in Nat
  BY <1>3, <1>4, TimesType
<1>8. layers * c.n_routed_experts * pad \in Nat
  BY <1>5, <1>7, TimesType
<1> QED
  BY <1>6, <1>8, TimesType

(* A gpt-oss expert of a hidden size and a width.                          *)
MarlinExpert(h, w) == (2 * w * (h \div 2) + 2 * w * (h \div 32) + 4 * w) + (h * (w \div 2) + h * (w \div 32) + h * 2)

\* A larger expert takes no fewer bytes.
LEMMA MarlinGrows ==
  ASSUME NEW h \in Nat, NEW w \in Nat, NEW g \in Nat, NEW v \in Nat, h <= g, w <= v
  PROVE  MarlinExpert(h, w) \in Nat /\ MarlinExpert(g, v) \in Nat /\ MarlinExpert(h, w) <= MarlinExpert(g, v)
<1>1. ASSUME NEW d \in {2, 32}
      PROVE  /\ h \div d \in Nat /\ g \div d \in Nat /\ h \div d <= g \div d
             /\ w \div d \in Nat /\ v \div d \in Nat /\ w \div d <= v \div d
  BY DivType, DivGrows
<1>2. 2 * w \in Nat /\ 2 * v \in Nat /\ 2 * w <= 2 * v
  OBVIOUS
<1>3. ASSUME NEW d \in {2, 32}
      PROVE  /\ 2 * w * (h \div d) \in Nat /\ 2 * v * (g \div d) \in Nat /\ 2 * w * (h \div d) <= 2 * v * (g \div d)
             /\ h * (w \div d) \in Nat /\ g * (v \div d) \in Nat /\ h * (w \div d) <= g * (v \div d)
  <2> DEFINE a == h \div d
             b == g \div d
             e == w \div d
             f == v \div d
             s == 2 * w
             t == 2 * v
  <2>1. a \in Nat /\ b \in Nat /\ a <= b /\ e \in Nat /\ f \in Nat /\ e <= f /\ s \in Nat /\ t \in Nat /\ s <= t
    BY <1>1, <1>2
  <2> HIDE DEF a, b, e, f, s, t
  <2>2. s * a \in Nat /\ t * b \in Nat /\ s * a <= t * b
    BY <2>1, ProductGrows
  <2>3. h * e \in Nat /\ g * f \in Nat /\ h * e <= g * f
    BY <2>1, ProductGrows
  <2> QED
    BY <2>2, <2>3 DEF a, b, e, f, s, t
<1> DEFINE p1 == 2 * w * (h \div 2)
           p2 == 2 * w * (h \div 32)
           p3 == h * (w \div 2)
           p4 == h * (w \div 32)
           q1 == 2 * v * (g \div 2)
           q2 == 2 * v * (g \div 32)
           q3 == g * (v \div 2)
           q4 == g * (v \div 32)
<1>4. /\ p1 \in Nat /\ p2 \in Nat /\ p3 \in Nat /\ p4 \in Nat /\ q1 \in Nat /\ q2 \in Nat /\ q3 \in Nat /\ q4 \in Nat
      /\ p1 <= q1 /\ p2 <= q2 /\ p3 <= q3 /\ p4 <= q4
  BY <1>3
<1>5. MarlinExpert(h, w) = (p1 + p2 + 4 * w) + (p3 + p4 + h * 2) /\ MarlinExpert(g, v) = (q1 + q2 + 4 * v) + (q3 + q4 + g * 2)
  BY DEF MarlinExpert
<1> HIDE DEF p1, p2, p3, p4, q1, q2, q3, q4
<1> QED
  BY <1>4, <1>5

\* Nor is that of gpt-oss's experts on Marlin.
LEMMA MarlinNat ==
  ASSUME NEW c, WellFormed(c), PaddingFits(c), NEW x, Rank(x), {"hidden_size", "num_hidden_layers"} \subseteq DOMAIN c
  PROVE  GptOssMarlinPadding(c, x) \in Nat
<1> DEFINE h == c.hidden_size
           i == c.intermediate_size \div x.tp
           g == RoundUp(h, 256)
           v == RoundUp(i, 128)
           bytes == c.num_hidden_layers * c.num_local_experts * (MarlinExpert(g, v) - MarlinExpert(h, i))
<1>1. SUFFICES ASSUME c.model_type = "gpt_oss" PROVE bytes \in Nat
  <2>1. CASE c.model_type # "gpt_oss"
    BY <2>1 DEF GptOssMarlinPadding
  <2>2. CASE c.model_type = "gpt_oss"
    <3>1. bytes \in Nat
      BY <1>1, <2>2
    <3>2. GptOssMarlinPadding(c, x) = 0 \/ GptOssMarlinPadding(c, x) = bytes
      BY DEF GptOssMarlinPadding, MarlinExpert
    <3> HIDE DEF bytes
    <3> QED
      BY <3>1, <3>2
  <2> QED
    BY <2>1, <2>2
<1>2. {"intermediate_size", "num_local_experts"} \subseteq DOMAIN c
  BY <1>1 DEF PaddingFits, Declares
<1>3. h \in Nat /\ c.intermediate_size \in Nat /\ c.num_hidden_layers \in Nat /\ c.num_local_experts \in Nat
  BY <1>2, NumberField DEF NumberFields
<1>4. i \in Nat
  BY <1>3, DivType DEF Rank
<1> HIDE DEF i
<1>5. g \in Nat /\ h <= g /\ v \in Nat /\ i <= v
  BY <1>3, <1>4, RoundType, RoundHolds
<1>6. h \in Nat
  BY <1>3
<1> HIDE DEF h, g, v
<1> DEFINE more == MarlinExpert(g, v) - MarlinExpert(h, i)
<1>7. more \in Nat
  <2>1. MarlinExpert(h, i) \in Nat /\ MarlinExpert(g, v) \in Nat /\ MarlinExpert(h, i) <= MarlinExpert(g, v)
    BY <1>4, <1>5, <1>6, MarlinGrows
  <2> QED
    BY <2>1
<1> HIDE DEF more
<1>8. c.num_hidden_layers * c.num_local_experts \in Nat
  BY <1>3, TimesType
<1>9. c.num_hidden_layers * c.num_local_experts * more \in Nat
  BY <1>7, <1>8, TimesType
<1> QED
  BY <1>9 DEF more

\* Nor are Gemma 4's copied projections.
LEMMA DuplicatedNat ==
  ASSUME NEW c, WellFormed(c), NEW x, Rank(x), "hidden_size" \in DOMAIN c, LayerKinds(c, x) # <<>>
  PROVE  DuplicatedWeightBytes(c, x) \in Nat
<1> DEFINE layers == LayersOf(c, "full_attention")
           heads == HeadsPerGpu(Field(c, "num_global_key_value_heads", 1), x.tp)
           dim == Field(c, "global_head_dim", c.head_dim)
           bytes == layers * heads * dim * c.hidden_size * x.model_bytes
<1>1. DuplicatedWeightBytes(c, x) = 0 \/ (Family(c) = "gemma4" /\ DuplicatedWeightBytes(c, x) = bytes)
  BY DEF DuplicatedWeightBytes
<1>2. ASSUME Family(c) = "gemma4" PROVE bytes \in Nat
  <2>1. Gemma4Kinds(c, x) # <<>>
    BY <1>2 DEF LayerKinds, KindsOf
  <2>2. ~Declares(c, {"num_kv_shared_layers"})
    BY <2>1 DEF Gemma4Kinds
  <2>3. "head_dim" \in DOMAIN c
    BY <1>2, <2>2 DEF WellFormed, Declares, WindowFields
  <2>4. c.head_dim \in Nat \ {0} /\ c.hidden_size \in Nat
    BY <2>3, NumberField DEF NumberFields
  <2>5. layers \in Nat
    BY LayersType
  <2>6. dim \in Nat
    BY <2>4, FieldOr DEF NumberFields
  <2>7. heads \in Nat
    <3> DEFINE q == Field(c, "num_global_key_value_heads", 1)
    <3>1. q \in Nat \ {0}
      <4>1. q \in Nat \ {0} \/ q = 1
        BY FieldOr DEF NumberFields
      <4> QED
        BY <4>1
    <3> HIDE DEF q
    <3>2. CeilDiv(q, x.tp) \in Nat
      BY <3>1, CeilNat DEF Rank
    <3>3. heads = Larger(1, CeilDiv(q, x.tp))
      BY DEF HeadsPerGpu, q
    <3> QED
      BY <3>2, <3>3 DEF Larger
  <2> HIDE DEF layers, heads, dim
  <2>8. layers * heads \in Nat
    BY <2>5, <2>7, TimesType
  <2>9. layers * heads * dim \in Nat
    BY <2>6, <2>8, TimesType
  <2>10. layers * heads * dim * c.hidden_size \in Nat
    BY <2>4, <2>9, TimesType
  <2> QED
    BY <2>10, TimesType DEF Rank
<1> HIDE DEF bytes
<1> QED
  BY <1>1, <1>2

(* A checkpoint as the assumption about shares has it.                     *)
Weighed(k) ==
    /\ ClassesApart(k) /\ PaddingFits(k.config)
    /\ k.config.model_type \in TracesReplicas => Mechanism(k, {}) \in {"layered_decode", "unknown"}

\* The metadata pads as the config does, ranks KV heads as it does, and is
\* predicted by the mechanism of the checkpoint.
LEMMA MetadataShared ==
  ASSUME NEW k, Stocked(k), PaddingFits(k.config), NEW w, NEW dtype, NEW processor, NEW hybrid, NEW x
  PROVE  LET m == CalculatorMetadata(k, w, dtype, processor, hybrid)
         IN  PaddingFits(m) /\ KvRanks(m, x) = KvRanks(k.config, x) /\ m.mechanism = Mechanism(k, hybrid) /\ m.w = w
<1> DEFINE m == CalculatorMetadata(k, w, dtype, processor, hybrid)
           c == k.config
<1>1. Agree(m, c) /\ m.w = w
  <2>1. DOMAIN Overlay(processor, k) \subseteq EncoderNames
    BY OverlayType DEF Tower
  <2> QED
    BY <2>1, MetadataRead
<1>2. m.mechanism = Mechanism(k, hybrid)
  <2> DEFINE served == [torch_dtype |-> IF dtype # "" THEN dtype ELSE ServedDtype(Field(c, "torch_dtype", "")),
                        w |-> w, mechanism |-> Mechanism(k, hybrid)]
             encoder == Overlay(processor, k)
  <2>1. m = [f \in DOMAIN served \cup DOMAIN encoder \cup DOMAIN c |->
               IF f \in DOMAIN served THEN served[f] ELSE Field(encoder, f, Field(c, f, 0))]
    BY DEF CalculatorMetadata, Overlay
  <2>2. "mechanism" \in DOMAIN served /\ served["mechanism"] = Mechanism(k, hybrid)
    OBVIOUS
  <2> HIDE DEF served, encoder, m
  <2>3. m["mechanism"] = Mechanism(k, hybrid)
    BY <2>1, <2>2
  <2> QED
    BY <2>3
<1> HIDE DEF m
<1>3. Family(m) = Family(c)
  BY <1>1, AgreeFamily DEF Stocked
<1>4. PaddingFits(m)
  <2>1. ASSUME Family(c) \in {"deepseek_v4", "deepseek_v41"}
        PROVE  /\ Declares(m, {"moe_intermediate_size", "n_routed_experts"})
               /\ Field(m, "first_k_dense_replace", 0) \in 0 .. m.num_hidden_layers
    <3>1. "num_hidden_layers" \in DOMAIN c
      BY <2>1 DEF Stocked, WellFormed, FieldsRead
    <3>2. m.num_hidden_layers = c.num_hidden_layers
      BY <1>1, <3>1 DEF Agree, Overlaid, EncoderNames
    <3>3. Field(m, "first_k_dense_replace", 0) = Field(c, "first_k_dense_replace", 0)
      BY <1>1, AgreeField DEF Overlaid, EncoderNames
    <3>4. Declares(m, {"moe_intermediate_size", "n_routed_experts"})
      BY <1>1, <2>1, AgreeDeclares DEF PaddingFits, Overlaid, EncoderNames
    <3> QED
      BY <2>1, <3>2, <3>3, <3>4 DEF PaddingFits
  <2>2. ASSUME m.model_type = "gpt_oss" PROVE Declares(m, {"intermediate_size", "num_local_experts"})
    <3>1. c.model_type = "gpt_oss"
      BY <1>1, <2>2 DEF Stocked, Agree, Overlaid, EncoderNames
    <3> QED
      BY <1>1, <3>1, AgreeDeclares DEF PaddingFits, Overlaid, EncoderNames
  <2> QED
    BY <1>3, <2>1, <2>2 DEF PaddingFits
<1>5. KvRanks(m, x) = KvRanks(c, x)
  <2>1. Field(m, "num_key_value_heads", x.tp) = Field(c, "num_key_value_heads", x.tp)
    BY <1>1, AgreeField DEF Overlaid, EncoderNames
  <2> QED
    BY <2>1 DEF KvRanks
<1> QED
  BY <1>1, <1>2, <1>4, <1>5 DEF m

\* A type whose replicated weights are traced has no formula but the layered.
LEMMA OnlyLayeredTraced ==
  ASSUME NEW k, Weighed(k), NEW hybrid,
         Mechanism(k, hybrid) \in {"autoregressive_decode", "mla_decode", "ssm_decode"}
  PROVE  k.config.model_type \notin TracesReplicas
<1> DEFINE c == k.config
           plain == IF Declares(c, {"kv_lora_rank", "qk_rope_head_dim"}) THEN "mla_decode"
                    ELSE IF k.generates # "autoregressive_decode" \/ Declares(c, {"num_attention_heads"}) THEN k.generates
                    ELSE IF Declares(c, {"intermediate_size", "state_size", "conv_kernel"}) THEN "ssm_decode"
                    ELSE "unknown"
<1>1. ASSUME NEW h
      PROVE  Mechanism(k, h) = IF Family(c) # "none" THEN "layered_decode"
                               ELSE IF c.architecture \in h \/ UnmodelledAttention(c) THEN "unknown" ELSE plain
  BY DEF Mechanism
<1> HIDE DEF plain
<1>2. Family(c) = "none" /\ ~UnmodelledAttention(c) /\ plain \in {"autoregressive_decode", "mla_decode", "ssm_decode"}
  BY <1>1
<1>3. Mechanism(k, {}) = plain
  BY <1>1, <1>2
<1> QED
  BY <1>2, <1>3 DEF Weighed

\* A rank's share and something more is no less than the share.
LEMMA ShareAndMore ==
  ASSUME NEW p \in Nat, NEW a \in Nat, NEW b \in Nat, NEW s, p * a >= s, s \in Int PROVE p * (a + b) >= s
<1>1. p * (a + b) = p * a + p * b
  OBVIOUS
<1>2. p * a \in Nat /\ p * b \in Nat
  BY TimesType
<1> QED
  BY <1>1, <1>2

\* Whatever formula predicts it, a rank's share is counted.
LEMMA ShareCounted ==
  ASSUME NEW k, Stocked(k), Weighed(k), NEW headers \in {"dtypes", "sizes"}, NEW index, NEW dtype,
         NEW processor, NEW hybrid, NEW x, Booked(x),
         Calculate(CalculatorMetadata(k, Weights(k, headers, index, dtype), dtype, processor, hybrid), x) # Unknown
  PROVE  x.tp * Calculate(CalculatorMetadata(k, Weights(k, headers, index, dtype), dtype, processor, hybrid),
                          x).weight_memory_bytes
         >= Shares(OnGpu(k), k.config, x, StoredSizes(headers, dtype))
<1> DEFINE w == Weights(k, headers, index, dtype)
           c == k.config
           m == CalculatorMetadata(k, w, dtype, processor, hybrid)
           out == Calculate(m, x)
           shares == Shares(OnGpu(k), c, x, StoredSizes(headers, dtype))
<1> SUFFICES x.tp * out.weight_memory_bytes >= shares
  OBVIOUS
<1>1. Rank(x) /\ x.tokens \in Nat /\ ClassesApart(k) /\ PaddingFits(c)
  BY DEF Booked, Weighed
<1>2. WellFormed(m) /\ PaddingFits(m) /\ KvRanks(m, x) = KvRanks(c, x) /\ m.mechanism = Mechanism(k, hybrid) /\ m.w = w
  BY <1>1, MetadataWellFormed, MetadataShared
<1>3. shares \in Int
  <2>1. IsFiniteSet(OnGpu(k)) /\ \A t \in OnGpu(k) : t.size \in Nat
    <3>1. IsFiniteSet(k.tensors) /\ OnGpu(k) \in SUBSET k.tensors
      BY DEF Stocked, OnGpu
    <3> QED
      BY <3>1, FS_Subset DEF Stocked
  <2> DEFINE f == [t \in OnGpu(k) |-> RankTimesTp(t, c, x, StoredSizes(headers, dtype))]
  <2>2. f \in [OnGpu(k) -> Int]
    <3>1. \A t \in OnGpu(k) : RankTimesTp(t, c, x, StoredSizes(headers, dtype)) \in Nat
      BY <1>1, <2>1, ShareType DEF Stocked
    <3> QED
      BY <3>1
  <2>3. shares = SumFunction(f)
    BY DEF Shares
  <2> HIDE DEF f
  <2> QED
    BY <2>1, <2>2, <2>3, SumType
<1>4. ASSUME c.model_type \notin TracesReplicas
      PROVE  PerGpu(w.total, x.tp) \in Nat /\ x.tp * PerGpu(w.total, x.tp) >= shares
  BY <1>1, <1>4, EvenShares
<1>5. ShardBytes(w, m, x) \in Nat /\ x.tp * ShardBytes(w, m, x) >= shares
  BY <1>1, <1>2, ShardShares
<1>6. m.mechanism \in {"autoregressive_decode", "mla_decode", "ssm_decode"} => c.model_type \notin TracesReplicas
  BY <1>2, OnlyLayeredTraced
<1>7. out # Unknown
  OBVIOUS
<1> HIDE DEF w, m, shares, out
<1>8. ASSUME NEW weight, out.weight_memory_bytes = weight,
             NEW a \in Nat, x.tp * a >= shares, NEW b \in Nat, weight = a + b
      PROVE  x.tp * out.weight_memory_bytes >= shares
  BY <1>1, <1>3, <1>8, ShareAndMore DEF Rank
<1>9. CASE m.mechanism = "autoregressive_decode"
  <2>1. out = Autoregressive(m, x) /\ out # Unknown
    BY <1>9, <1>7 DEF Calculate, out
  <2>2. HasActivation(m) /\ Declares(m, {"num_hidden_layers", "num_key_value_heads", "num_attention_heads"})
    BY <2>1 DEF Autoregressive
  <2>3. out.weight_memory_bytes = PerGpu(m.w.total, x.tp) + PaddedWeightBytes(m, x)
    BY <2>1 DEF Autoregressive, Prediction
  <2>4. PaddedWeightBytes(m, x) \in Nat
    <3>1. {"hidden_size", "num_hidden_layers"} \subseteq DOMAIN m
      BY <2>2 DEF HasActivation, Declares
    <3> QED
      BY <1>1, <1>2, <3>1, Mxfp4Nat, TrtllmNat, MarlinNat DEF PaddedWeightBytes
  <2>5. PerGpu(w.total, x.tp) \in Nat /\ x.tp * PerGpu(w.total, x.tp) >= shares
    BY <1>4, <1>6, <1>9
  <2> QED
    BY <1>2, <1>8, <2>3, <2>4, <2>5
<1>10. CASE m.mechanism \in {"mla_decode", "ssm_decode"}
  <2>1. (out = Mla(m, x) \/ out = Ssm(m, x)) /\ out # Unknown
    BY <1>10, <1>7 DEF Calculate, out
  <2>2. out.weight_memory_bytes = PerGpu(m.w.total, x.tp)
    BY <2>1 DEF Mla, Ssm, Prediction
  <2>3. PerGpu(w.total, x.tp) \in Nat /\ x.tp * PerGpu(w.total, x.tp) >= shares
    BY <1>4, <1>6, <1>10
  <2> QED
    BY <1>2, <2>2, <2>3
<1>11. CASE m.mechanism = "layered_decode"
  <2> DEFINE kinds == LayerKinds(m, x)
             blocks == LayeredBlocks(m, x)
             more == DuplicatedWeightBytes(m, x) + PaddedWeightBytes(m, x) + StartupBufferBytes(m, x.tokens)
  <2>1. out = LayeredPrediction(m, x, kinds, blocks) /\ out # Unknown
    BY <1>11, <1>7 DEF Calculate, Layered, kinds, blocks, out
  <2> HIDE DEF kinds, blocks
  <2>2. HasActivation(m) /\ kinds # <<>>
    BY <2>1 DEF LayeredPrediction
  <2>3. out.weight_memory_bytes = ShardBytes(m.w, m, x) + DuplicatedWeightBytes(m, x) + PaddedWeightBytes(m, x)
                                  + StartupBufferBytes(m, x.tokens)
    BY <2>1 DEF LayeredPrediction, Prediction
  <2>4. more \in Nat /\ out.weight_memory_bytes = ShardBytes(w, m, x) + more
    <3>1. {"hidden_size"} \subseteq DOMAIN m
      BY <2>2 DEF HasActivation, Declares
    <3>2. DuplicatedWeightBytes(m, x) \in Nat
      BY <1>1, <1>2, <2>2, <3>1, DuplicatedNat DEF kinds
    <3>3. Mxfp4ExpertPadding(m, x) \in Nat /\ TrtllmExpertPadding(m, x) \in Nat
      BY <1>1, <1>2, <3>1, Mxfp4Nat, TrtllmNat
    <3>4. GptOssMarlinPadding(m, x) = 0
      <4>1. m.model_type # "gpt_oss"
        BY <2>2 DEF kinds, LayerKinds, KindsOf, Family
      <4> QED
        BY <4>1 DEF GptOssMarlinPadding
    <3>5. StartupBufferBytes(m, x.tokens) \in Nat
      BY <1>1, <1>2, StartupType
    <3>6. ShardBytes(m.w, m, x) \in Nat
      BY <1>2, <1>5
    <3> QED
      BY <1>2, <2>3, <3>2, <3>3, <3>4, <3>5, <3>6 DEF PaddedWeightBytes
  <2> HIDE DEF more
  <2> QED
    BY <1>5, <1>8, <2>4
<1>12. m.mechanism \in {"autoregressive_decode", "mla_decode", "ssm_decode", "layered_decode"}
  BY <1>7 DEF Calculate, out
<1> QED
  BY <1>9, <1>10, <1>11, <1>12

\* The metadata of what was read of the checkpoint.
ReadMetadata(index, processor) ==
    CalculatorMetadata(Checkpoint, Weights(Checkpoint, found.headers, index, Dtype), Dtype, processor, Facts.hybrid)

(* Once the files are read, the calculator has what was read; until then   *)
(* and when planning fails there is no claim.                              *)
ReadInv ==
    /\ stage \in {"engine", "resolve", "weigh", "failed"} => claim.out = Unknown
    /\ stage \notin {"engine", "resolve", "weigh", "failed"} =>
         \E index, processor \in BOOLEAN : metadata = ReadMetadata(index, processor)

\* It is so at first.
LEMMA ReadInit == ASSUME Init PROVE ReadInv
  BY DEF Init, ReadInv

\* No stage reads again.
LEMMA ReadNext == ASSUME ReadInv, [Next]_vars PROVE ReadInv'
<1>1. ASSUME UNCHANGED <<request, engine, found, metadata>>,
             stage \notin {"engine", "resolve", "weigh", "failed"},
             stage' \notin {"engine", "resolve", "weigh", "failed"}
      PROVE  ReadInv'
  <2>1. \A index, processor \in BOOLEAN : ReadMetadata(index, processor)' = ReadMetadata(index, processor)
    BY <1>1 DEF ReadMetadata, Checkpoint, Dtype, IsSeed, Given, Facts
  <2>2. PICK index \in BOOLEAN, processor \in BOOLEAN : metadata = ReadMetadata(index, processor)
    BY <1>1 DEF ReadInv
  <2>3. metadata' = ReadMetadata(index, processor)'
    BY <1>1, <2>1, <2>2
  <2>4. \E i, p \in BOOLEAN : metadata' = ReadMetadata(i, p)'
    BY <2>3
  <2> QED
    BY <1>1, <2>4 DEF ReadInv
<1>2. CASE UNCHANGED vars
  <2>1. \A index, processor \in BOOLEAN : ReadMetadata(index, processor)' = ReadMetadata(index, processor)
    BY <1>2 DEF vars, ReadMetadata, Checkpoint, Dtype, IsSeed, Given, Facts
  <2> QED
    BY <1>2, <2>1 DEF vars, ReadInv
<1>3. CASE ChooseEngine \/ Resolve
  BY <1>3 DEF ChooseEngine, Resolve, ReadInv
<1>4. CASE Weigh
  <2>1. PICK headers \in {"dtypes", "sizes", "late", "none"}, index \in BOOLEAN, processor \in BOOLEAN :
          /\ found'.headers = headers
          /\ metadata' = CalculatorMetadata(Checkpoint, Weights(Checkpoint, headers, index, Dtype), Dtype,
                                            processor, Facts.hybrid)
    BY <1>4 DEF Weigh
  <2>2. request' = request /\ engine' = engine /\ stage' = "predict"
    BY <1>4 DEF Weigh
  <2>3. Checkpoint' = Checkpoint /\ Dtype' = Dtype /\ Facts' = Facts
    BY <2>2 DEF Checkpoint, Dtype, IsSeed, Given, Facts
  <2>4. metadata' = ReadMetadata(index, processor)'
    BY <2>1, <2>3 DEF ReadMetadata
  <2>5. \E i, p \in BOOLEAN : metadata' = ReadMetadata(i, p)'
    BY <2>4
  <2> QED
    BY <2>2, <2>5 DEF ReadInv
<1>5. CASE Predict
  BY <1>1, <1>5 DEF Predict
<1>6. CASE Guard
  <2>1. stage = "guard" /\ stage' \in {"solve", "build"} /\ UNCHANGED <<request, engine, found, metadata>>
    BY <1>6 DEF Guard
  <2> QED
    BY <1>1, <2>1
<1>7. CASE BuildPlan
  BY <1>1, <1>7 DEF BuildPlan
<1>8. CASE NameParsers
  BY <1>1, <1>8 DEF NameParsers
<1>9. CASE Solve
  BY <1>1, <1>9 DEF Solve
<1>10. CASE Ended
  BY <1>2, <1>10 DEF Ended
<1> QED
  BY <1>2, <1>3, <1>4, <1>5, <1>6, <1>7, <1>8, <1>9, <1>10 DEF Next

\* Every checkpoint's classes are apart and its padding is computed.
LEMMA CheckpointShared == ASSUME NEW name \in DOMAIN Checkpoints PROVE Weighed(Checkpoints[name])
  BY WeightsAssumption DEF Weighed

\* A claim of what was read counts a rank's share.
LEMMA ShareHolds == CoverInv /\ ReadInv => RankHoldsItsShare
<1> DEFINE x == claim.launch
           c == Config
           stored == Dtype = "float32" \/ found.headers = "sizes"
           loaded == {t \in Checkpoint.tensors :
                        /\ ~IsMtp(t, c)
                        /\ ~(Declares(c, {"tie_word_embeddings"}) /\ "lm_head" \in t.parts)
                        /\ ~(HasHostTable(c) /\ "host" \in t.parts)}
           shares == SumOver(loaded, LAMBDA t : RankTimesTp(t, c, x, stored))
<1> SUFFICES ASSUME CoverInv, ReadInv, Known, found.headers \in {"dtypes", "sizes"}
             PROVE  x.tp * claim.out.weight_memory_bytes >= shares
  BY DEF RankHoldsItsShare
<1>1. request.model \in DOMAIN Checkpoints /\ c = Checkpoint.config
  BY DEF CoverInv, Requests, Config
<1>2. Stocked(Checkpoint) /\ Weighed(Checkpoint)
  BY <1>1, CheckpointStocked, CheckpointShared DEF Checkpoint
<1>3. PICK index \in BOOLEAN, processor \in BOOLEAN : metadata = ReadMetadata(index, processor)
  BY DEF ReadInv, Known
<1>4. Booked(x) /\ claim.out = Calculate(metadata, x) /\ claim.out # Unknown
  BY DEF CoverInv, Known
<1>5. shares = Shares(OnGpu(Checkpoint), Checkpoint.config, x, StoredSizes(found.headers, Dtype))
  <2>1. loaded = OnGpu(Checkpoint)
    BY <1>1 DEF OnGpu, Drafted, OnHost, Tied
  <2>2. stored = StoredSizes(found.headers, Dtype)
    BY DEF StoredSizes
  <2>3. shares = Shares(loaded, c, x, stored)
    BY DEF SumOver, Total, Shares
  <2> HIDE DEF loaded, shares, stored
  <2> QED
    BY <1>1, <2>1, <2>2, <2>3
<1> HIDE DEF x, shares, loaded, stored
<1>6. x.tp * claim.out.weight_memory_bytes
      >= Shares(OnGpu(Checkpoint), Checkpoint.config, x, StoredSizes(found.headers, Dtype))
  BY <1>2, <1>3, <1>4, ShareCounted DEF ReadMetadata
<1> QED
  BY <1>5, <1>6

(* Once the headers were read, the weights counted per GPU hold what a     *)
(* rank loads of every tensor, whatever checkpoint, engine and GPU: a      *)
(* replicated tensor is never divided, and no padding lowers the count.    *)
THEOREM SharesHeld == Spec => []RankHoldsItsShare
  BY CoverInit, CoverNext, ReadInit, ReadNext, ShareHolds, PTL DEF Spec
=============================================================================
