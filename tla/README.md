# apron: a TLA+ model of its paid runs

apron plans how to serve a language model on rented GPUs, rents pods to test the
plans, measures them, keeps every result as a record, and corrects the plans that fail.
This directory models the parts where a mistake costs money, leaves a machine running,
records something that is not so, or loses what was paid for: the orchestrator and the
pods it rents, the ledger file it shares with the other programs of the repository, the
records of a run, the planning of a candidate and the proof of a fix.

Paths below are relative to `src/apron/` of the repository unless they start with
`scripts/` or `tests/`.

## The system

| Component | State | Operations | Talks to |
|---|---|---|---|
| Budget tracker, `application/orchestration/budget.py` | `spent`, open `holds`, `overruns`; the ledger's entries | hold, annotate_hold, hold_open_ended, settle, release_hold, record_spend, record_pod_spend, correct, replay | appends to the ledger before it changes memory |
| Ledger file, `adapters/backends/ledger_file.py` | `ledger.jsonl` | append (flush and fsync), read_all (a torn last line is skipped) | read once at every process's start |
| Cohort run, `application/orchestration/cohort.py` | the candidates, what was executed or skipped, why the run stopped | run_cohort, execute_solution, execute_when_available, close_pool | pool, target, engine, scorer, tracker, record store |
| Target pool, `application/orchestration/pods.py` | the parked pod of each execution, the pods closed on a switch | acquire, keep, close, take_closed | target, tracker |
| RunPod target, `adapters/backends/runpod.py` (logs, storage beside it) | its pod id, its atexit guard, `start_attempts`, `leaked_pods.json` | provision, teardown, cleanup_orphaned_pods, pod_reported_cost | the provider |
| Staging, `application/orchestration/staging.py`; peak probe, `scripts/peak_probe.py` | a hold and a pod | hold, rent, annotate, tear down, settle or release | the same ledger, from a process of their own |
| Billing, `application/orchestration/billing.py`, `scripts/reconcile_billing.py` | the ledger against the provider's bill | ledger_by_pod, reconcile, spend and correct | the same ledger |
| Records, `cohort.py` (`_store_outcome`, `recorded_evidence`), `cohort_records.py`, `evidence.py`, `rescore.py`, `local_store.py` | content-addressed record files, the identity manifest | record_identity, store, resume, re-score | the run loop, every later run |
| Verdicts and table, `domain/verdicts.py`, `qualification.py`, `findings.py` | none | verdict of attempts, tiers of a solution, rows | the records |
| Pod start, `runpod.py` (`provision`, `_wait_for_running`), `runpod_logs.py` | two log cursors, the watch | poll status and logs, judge, abandon | provider, host |
| Engine, `vllm_engine.py` | none in the harness; on the pod a download, its exit code, an engine, its log | prepare, evict, download and poll, launch, health | the pod, over SSH |
| Weights on volumes, `cohort_root.py`, `staging.py`, `runpod_storage.py` | volumes, `staged` events, `prestage*.json`, `volumes.json` | choose and size a volume, stage, accrue | provider, stager pod |
| Task suite, `adapters/evaluations/` | none | checks, exact match, second round | the served model |
| Planning, `cohort_root.py` (`CohortPlanner`), `plan_pipeline.py`, `plan_builder.py` | none | model and GPU to a solution with its prediction | Hub files, calculator, engine facts |
| Calculators, `domain/mechanisms/` | none | memory of weights, KV cache, activations | planning |
| Engine facts, `vllm_quantization.py` | generated facts of each version | what is served, loaded and defaulted | planning, correction |
| Diagnosis and fix proof, `diagnosis_pipeline.py`, `correction.py`, `hf_lineage.py`, `remediation.py`, `rule_repository.py` | rule files and their history, remediation records | classify, correct, boot, judge, promote | engine, classifier, Hub, records |
| Modal target, renderers, CLI, schemas | none kept | SDK calls, text | |

Hard in this code: a process may be killed between any two of "append", "provider call"
and "change memory"; a provider's answer may be lost; a teardown may fail; an exception
leaves `acquire`, `keep`, `provision` or `settle` half-way; a pod outlives the candidate
it was rented for and is charged under three different labels; several processes append
to one file without a lock and each works on the copy it replayed at its start; records are
written one by one and what a later run skips is decided from those that are there; what a
command starts on a pod outlives it; a log is read in pieces while the host writes; a read
of the Hub that fails looks like a file that does not exist; a plan passes through five
functions with defaults of their own. PROJECT.json lists these as hazards, each at its line.

What makes it correct: no pod bills without somebody who will end it or charge it; every
billed tick is charged once; nothing is rented with money that is gone; a start can
always read what earlier processes appended; a stored record can be traced, is about what
it names and is paid for in full; nothing is measured twice or skipped unmeasured; a plan
never needs more than was predicted; a fix called proven is; and every wait ends but those the
code leaves open on purpose.

## The modules

`PodCustody` is the abstract promise: a pod is unrented, working, parked, left or ended;
at most one pod is in hand; a pod that left (its teardown failed, or its process died)
never returns to work; only a pod that was left is swept; when a process quits, its exit
guards end some of the pods in hand and of those left.

`BudgetTracker` is the tracker's state and one operator per method. An append and the
assignment after it are one step: a crash between them loses only memory, which a
crash just after the step loses too. Amounts are integers in ticks of the pod's hourly
rate, so sums are exact; the code rounds to a millionth of a dollar.

`CohortExecution` extends it with the provider, the run loop, `execute_solution`, the
pool, the RunPod target and a process that can die. A step is one effect that the
outside can see: one append, one provider call, one wait. `pc` names the place in the
code:

| `pc` | code |
|---|---|
| `down`, `replay`, `loop` | no process; `build_ports` (sweep, then `BudgetTracker.replay`); `_run_plans` between candidates |
| `acquire`, `switchSettle` | `TargetPool.acquire`; between the teardown and the settle of `_close_slot` |
| `provision`, `starting` | `RunPodTarget.provision` before `create_pod`; `_wait_for_running` and what follows it |
| `annotate`, `measure` | `annotate_hold`; everything between it and the end of the `try` |
| `keep`, `keepAnnotate`, `teardown`, `charge` | the `finally` clause and the charges after it |
| `record`, `recordAnnotate` | the two appends of `hold_open_ended`, for a leak of the candidate, of a switch or of the closing pool; `after` says where to go on |
| `refused`, `iterationEnd` | a creation refused for capacity, to be tried again; the tests at the end of the loop's body |
| `closing`, `poolClose`, `poolSettle`, `exit` | `close_pool`; interpreter exit with its atexit guards |

`error` is what the loop will do with the candidate's error: nothing, try again, or stop
(a RunStopError, an interrupt, or the second unexpected failure in a row, so `stop` may
follow any unexpected failure). A teardown ends in one of three ways: the pod is terminated; or it
is not, and is listed as leaked (`NotTerminated`, the code's PodLeakError); or `leaked_pods.json`
cannot be read or written either (`NotRecorded`). The last leaves by an ordinary exception, with the
pod still billing and its exit guard still set, and the loop goes on as after any unexpected
failure; inside provision the target keeps its pod and is torn down again. `unlisted` holds the pods
let go in this way. `paid`, `orphans`, `estimated` and `unlisted` are history. The
loop may pick any candidate next, and try it again; that covers every order of
`group_by_execution`, `execute_when_available` and a repeated run.

`SharedLedger` keeps the file as a sequence of lines, and a tracker per process. An owner
(the stager or the probe; a cohort run uses the ledger in the same order) holds, rents,
annotates, tears down and settles: at what the provider reported before the teardown, which lags
behind the bill, or at the rate times the time since before the rent, so at anything up to the bill
plus `WaitCost`. It may die anywhere, also in the middle of an append, which
leaves part of a line or a whole line without its newline. A start replays the file
(`ReplayedEntry` is one round of its loop) and may sweep any pod. The reconcile reads
a bill in which some pods may not be posted yet, and may be cut off between its appends.
`overlap`, `foreign` and `reconciled` are history.

`RunRecords` is the other half of the same loop: what a run measures and keeps. `pc`
follows `_run_plans` and `execute_solution` again (claim, capacity, provision, boot, verify,
tasks, serving, teardown, settle, store, dispatch, iteration end, closing, exit) and then
`rescore_tasks`. A record is the fields the properties tell apart; the store is a set,
because it is content-addressed. A clock that counts steps stands for the seconds of a
phase, money is in `Parts` of a step, so fine that every share of `attribute_costs` is exact
(12 in the run; `ShareAssumption` says so of any instance).
`writes` holds what `_store_outcome` has still to write: a crash may come before each
write, and may leave the file torn, after which no index of the store can be read
(`IndexFails`). A run may be repeated, the evaluation protocol may change between runs. A
solution is measured with the plain suite or with deployment checks, of which its plan may not
serve all; a check it does not serve is skipped (`SuiteOf`, `Checked`, `Unserved`). Re-scoring takes
the plain suite only, stores the attempts of every solution and appends the manifest entries
last; `lapsed` lists those it died before.
`Findings` adds what is read from the records: the verdict on attempts, with skipped cases
left out of the rate and a floor in percent, the tiers of qualification, the rows of the living
table.

`PodStart`, `EngineBoot`, `Staging` and `SuiteScoring` follow a rented pod, and `PodLife`
composes them: a GPU pod is started, then boots the models of a sequence; a stager pod
runs the same download on a volume; a serving pod answers the task suite.

| Module | State | A step is |
|---|---|---|
| `PodStart` | lines each source wrote and when, cursors, the log file, the watch, the clock in polls | one request of a poll (status, system log, container log), the judgement, the sleep; between any two the host may write or start |
| `EngineBoot` | the loop's place, the weights on disk, the bag of downloads, the shared exit code, the bag of engines, the log's size | one command; beside it any process on the pod goes on, fails or ends. A command whose connection is lost may run twice (`RunPodTarget.execute`) |
| `Staging` | volumes and what is on them, staged events, prestage lists, `volumes.json`, hours | one provider call, download, file or ledger write of a round; a round may be cut off anywhere |
| `SuiteScoring` | the setting (suite, plan, served length, tokenizer), scores, the case in hand | one request and its answer, one of the few answers the checks tell apart, or a refusal or a transport failure |

`PlanPipeline` plans one candidate: `plan_seed` or `plan_for`, through resolution, tensor
headers, weights, load check, context, prediction, the lowered max_num_seqs and its second
prediction, `build_plan`, parsers and status. Each read may fail. The arithmetic is in
`LayeredCache` (kinds of layers, blocks, padding, startup buffers), `LoadedWeights` (what
is loaded, what a rank holds) and `Calculator` (activation, graphs, overhead, KV budget);
`EngineFacts` is what a vLLM version's generated facts decide. These four have no state.

`Correction` (stateless) is rule matching, the correction strategies and the search for
checkpoints of the same network. `FixProof` is `prove_all` around it: a broken boot or its
stored failure, the paid diagnosis (hold, calls answered or remembered, settle), the gates,
the fixed boot's records, the judgement, the remediation record, and the promotion in the
rule files, killed anywhere and run again.

The `MC` modules give the constants their values. A definition marked "Mutated form" is a
plausible bug of the definition it precedes; PROJECT.json names the property that it breaks.

## The runs

| Run | Instance | Shows |
|---|---|---|
| CohortExecution | 2 candidates on 2 executions, 2 pods, 2 rentals per start, 3 ticks, 2 starts; one candidate is tried twice; 1.33 million states | nine invariants, `NoRentWhenOverspent` and the refinement of `PodCustody` |
| SharedLedger | 2 owners, a reconcile, 2 pods, 2 holds, 3 starts, 1 tick, settles up to the bill, no torn line; 1.85 million states | `EachHoldChargedOnce` (the account and the total that findings.py publishes), `ReconciledIsBilled` |
| TornLedger | the same with 1 pod, 2 ticks, settles up to a tick more than the bill, 1 torn append; 2.13 million states | `SoleWriterAgrees`, `SequentialReplays` |
| RunRecords | 5 solutions (a prediction error, one not permitted, one without a chat template, one of the plain suite, one with two checks of which its plan serves one), 2 launches, 2 executions, 2 protocols, a floor of 100 percent, 1 failure or kill; 0.58 million states | nine invariants, `QualificationNeverFallsBack`, and `RunEnds` under fairness |
| PodLife | a GPU pod with 2 hosts, 2 lines, 2 models and 1 doubled command; a stager with 2 datacenters, 2 models, 2 rounds; a serving pod with 4 suites, 3 plans, 3 lengths, 12 tokenizers; 1.12 million states | six invariants, and `PodEnds` under fairness |
| PlanPipeline | 20 checkpoints (one per layout the calculator traces), 4 GPUs, 2 engine versions, 3 GPU counts, 2 given plans, any read failing; 0.05 million states | four invariants of the prediction and the plan |
| FixProof | 6 failure families over a hub of 10 checkpoints and 4 GPUs, 2 launches, 1 failure or kill; 1.04 million states | `PromotionIsProven`, `CauseRemoved`, `ClassifierCharged` |
| LeakWithoutHold, ReplayChargesTwice, TornLineGlued, ForeignReplay, UnnamedCountedTwice | the instances of CohortExecution and SharedLedger | five sentences of the repository that the code does not keep, one each |

Why these bounds. CohortExecution: two candidates on different executions, one of them
tried twice, is the least that has a reuse, a switch and a capacity retry. Two pods cover an
abandoned, a leaked or an unlisted pod and its replacement, and a pod that is parked and one it is
switched for; the model never has more than one in hand, and the theorems are for any number. Three
ticks give two labels, or a label and an abandoned start, each a tick of its own, and a third after
them. Two starts give a crash, a sweep and a replay of every reachable ledger. An authorized
total of 3 with estimates of 1 is passed by one long measurement, so the overspent paths are
taken; the total of 5 with estimates of 2 in SharedLedger affords two holds, and a reconcile
may find it exhausted. Three starts on the shared ledger are an owner, a foreign replay and a
third process that reads what both wrote.

RunRecords: a second launch sees every store a first one can leave; two executions let one
solution be measured, cut and measured again, or two solutions differ; two protocols give a
re-scoring. `MaxExecutions` stands for a budget that runs out. One failure at a time leaves
one branch out: the stop after two unexpected failures in a row (CohortExecution lets it
happen after any). FixProof has the same two launches and one failure, for the same reason.

The fifth solution is the one whose count and verdict differ in the number of cases that apply. The
candidates come in a fixed order, failing ones first and the one with checks last; the theorems are
for any cohort.

PodLife: a silence limit of two polls is the least that differs from the one poll a host may
take to its first line; two lines per host make one that comes between two reads and one
after; one cut read and one doubled command are each enough to break the properties that
exclude them. Two models show what the first leaves for the second. Two rounds on two
volumes of one region, with an hour between them, are a volume that is grown, one that is
reused, and one whose round was cut off. The needle's lengths are one that fits no
answer, an ordinary one and one where a unit of filler is coarse.

PlanPipeline's inputs are toy checkpoints: bytes are small, but the kinds of layers, group
sizes, tied and replicated tensors, quantization, towers and host tables are those the code
branches on, and each GPU is of another class or memory tier.

`CHECK_DEADLOCK FALSE` stands in the configurations of the bounded runs because a run ends,
and the counters that bound it run out; PodLife and PlanPipeline end in a stuttering step
of their own and are checked for deadlock. Pods are interchangeable in CohortExecution,
and so are the owners in SharedLedger: both symmetries are used, and neither run checks liveness.

### Fairness

Two runs check liveness. `RunRecords` assumes `WF_vars(Goes)`: a process that is up goes on,
where a step is local or a call with a deadline (waits for capacity, requests and a benchmark
have limits of their own). The start of a pod and the boot of an engine have none: cohort.py
says "No fixed limit on a pod's start", vllm_engine.py "There is no limit on how long a boot may
take", and nothing is assumed of `Waits`, the steps that end them. A process may be killed at any
moment, and nothing obliges anybody to start it again. So `RunEnds` says that retries, capacity
waits and failures cannot keep one run from its exit: it ends, or stays in one start or boot for
ever. `PodLife` assumes `WF_vars(Harness)`: the one
thread that polls goes on. Nothing is assumed of the host, of a download, of an engine or of
the operator: a host that never writes, a download that hangs, an engine that logs nothing or
never answers must each be given up by the harness itself, and `PodEnds` says that they
are. What an engine can log is bounded (`MaxLog`): one that logs for ever without
being ready is waited for by the code too, and so is a host: runpod_logs.py says "There is no limit on a
start that keeps logging". These are the two waits that `RunEnds` leaves open. The other
properties are safety and use no fairness.

### What the properties say

Each is stated in its module in the code's words:

* `PodAccounted`, `NoStrayPod`, `OneLivePod`, `ImplementsCustody`: no exception path of
  acquire, keep, provision or teardown drops a live pod and carries on, except one whose
  teardown failed and could not be listed. The code does rent beside that one, with no hold on it;
  what remains true of it is that its exit guard stays and that it never works again.
* `HeldWhileRented` (of every pod in hand), `BetweenCandidates`: append before act holds through the hand-over of
  a pod from a candidate's label to the pool's label and back; no path leaves a label open.
* `ChargedIsBilled`, `AbandonedChargedOnce`: a pod's time is split over a candidate's
  label, an idle label and an abandoned start, and every tick is charged once.
* `NoRentWhenOverspent`, `LeakHeldAtExit`: what an overspent account and a failed teardown
  may still lead to.
* `SoleWriterAgrees`, `SequentialReplays`, `EachHoldChargedOnce`, `ReconciledIsBilled`:
  what can be read back from the file, after crashes, replays and reconciles.

* `TraceResolves`, `EveryRecordShown`: the order of the writes is such that no crash leaves a
  record that names something missing or that no table shows. A re-scored attempt may wait for
  the manifest entry of its own protocol, for ever when the re-scoring died first (a finding).
* `MeasuredOnce`, `SkippedIsMeasured`: resume and re-scoring neither repeat nor skip.
* `CostsAddUp`: the records of an execution carry its whole time, also when an error cut a
  phase short. `NothingFromLeakyPod`, `LeakStopsRun`, `EverySolutionAccounted`: what a
  run may do after a leaked token, a leaked pod, and what it reports at its end.
* `RowAgreesWithVerdict`, `QualificationNeverFallsBack`: figures recomputed from the records
  agree with each other and with earlier ones. A row counts any accepted and any skipped attempt,
  the verdict takes the final one of each case, and both must come to the same rate over the cases
  that apply. A floor of zero is left out of the second: it is reached before anything is accepted.
* `AbandonedWhenSilent`, `KeptOnce`: a host is given up for real silence, although its lines
  are read in overlapping pieces that may fail.
* `VerdictIsTheModels`, `WeightsAsRecorded`, `StorageIsPaid`: what is recorded of a boot, of
  staged weights and of a volume's hours is so on the pod, the volume and the bill. The first
  two hold while no download is late or doubled. The third is an account of what was paid: hours
  before a volume's first entry are not (`early`), hours charged by a round that died before it wrote
  the entry are paid again (`again`), a grown volume pays more, and all else is paid exactly once.
* `NeedleFillsContext`: the long-context check neither overruns the context nor spares it.
* `ReservationCoversLayers`, `RankHoldsItsShare`: the two places where a prediction could be
  too small. `LoweredPlanHolds`, `PlanBootsAsPredicted`: the plan is the one predicted.
* `PromotionIsProven`, `CauseRemoved`: what "Fixed" and a promoted rule claim.
* `ClassifierCharged`: a call of the classifier is charged once although the same log is asked
  about several times, answers are remembered, calls raise and the process dies in between.

Provisos in the invariants are what the runs with an expected violation are about:
`LeakHeldAtExit` leaves out an account that is overspent by then and a pod abandoned at
its start (LeakWithoutHold); `ChargedIsBilled` speaks of the first start, because a replay
charges a reused pod's whole bill (ReplayChargesTwice); `SoleWriterAgrees` excepts a file
in which an append was glued to a torn line (TornLineGlued); `SequentialReplays` asks that no
two processes overlap (ForeignReplay); `ReconciledIsBilled` excepts a hold settled without
a pod to its name (UnnamedCountedTwice). `EachHoldChargedOnce` also excepts a replay whose
settle is written after the owner closed the hold: its process read the file too early.

The provisos of the later modules each stand for a finding below that no run of its own
shows: `unlisted` in CohortExecution, `cut`, `repeated`, `lapsed` and `TwinBoots` in RunRecords, `cuts`
in PodStart, `twice` and `late` in EngineBoot, `early`, `again`, `grown` and `Unlisted` in Staging,
`late` headers in PlanPipeline.

## What is proved

`CohortExecutionProofs` proves for all candidates, executions, pods, estimates and bounds
that satisfy the named assumptions (labels are as the code builds them, sentinels are not
members, amounts are naturals): `Types`, `OnePod`, `Accounted`, `NoStray`, `AlwaysHeld`,
`LeavesNothingOpen`, `ChargedOnce`, and `Implements`, the refinement of `PodCustody`.

The invariants are not inductive by themselves. `IInv` adds to the types:

* `CustodyInv`, where pods are at each step: the guarded pods are those of target and
  slot, and the unlisted ones, as long as the run goes on, the target has a pod exactly while a
  candidate works on it, the slot only at steps that may park. `OneLivePod` needs this: a new pod
  is rented only at `provision`, where target and slot are empty.
* `HoldInv`: the candidate's hold is open from `acquire` to the settle, and the slot's idle
  hold is open and names the slot's pod.
* `OpenInv`: while the run goes on, the open labels are exactly the due ones. It gives
  `BetweenCandidates`, and with it that a retried candidate is not refused as already open.
* `ChargeInv`: a start still to be charged has not been paid, distinct starts have distinct
  pods, and a reused target's starts are never charged again.

Each part has its lemma (`TypeNext`, `CustodyNext`, `HoldNext`, `OpenNext`, `ChargeNext`)
with one step per action. The refinement uses `IInv` and shows that every step is a
`PodCustody` step or a stutter.

`CohortAccountProofs` proves `LeaksHeld`, the property `LeakHeldAtExit` (with its two
exceptions, and for the process that rented the pods). Its invariant `LeakInv`
follows a pod from the failed teardown through the places where the code keeps it until its
hold is open: `CoverInv` says that every leaked pod is held already or waits in one of them,
`WaitingInv` that these are emptied where the code empties them.

It goes on with the account. `BilledIsCharged` (`ChargedIsBilled`) and `OverspentRentsNothing`
(`NoRentWhenOverspent`) follow from `IInv` and `AccountInv`:

* `BalanceInv` is `ChargedIsBilled` for every step of the loop and not only between candidates:
  spent, plus the candidate's clock, less what its abandoned starts were charged, plus the
  parked pod's clock, is the sum of the bills.
* `ShareInv`: the pods a candidate rented were billed within its clock. The settle charges the clock less
  the abandoned starts, cut off at zero; this part says that the cut never happens.
* `StartsInv` (an abandoned start's report is its pod's final bill), `ClocksInv` (clocks are zero
  where no pod is theirs, a pod never rented has no bill) and `AffordInv` (an account past the
  authorized total never reaches a rent: every way there comes by the check after a charge).

These sums have any number of terms, so the proofs need induction over finite sets.
`FoldLemmas` gets it without an induction theorem that takes a predicate: the library's theorem that a
well-founded order has minimal elements (`WFMin`) speaks of sets, so "holds for every subset" is
stated as "the set of subsets for which it holds is all of them" (`SubsetInduction`). From it come
the existence of the function `SumFunction` is defined by (`FoldExists`), that the order of the terms
does not matter (`FoldAnyOrder`) and what a change of one value does to a sum (`SumExcept`). The sums
need `FiniteAssumption`: a cohort has finitely many candidates and rents finitely many pods.

`PodLifeProofs` is about `PodLife`'s specification, and so about `PodStart`, `Staging`, `SuiteScoring` and
`EngineBoot`, for any numbers of hosts, lines, models, sites, rounds, hours and polls:

* `LogsKeptOnce` (`KeptOnce`) from `ReadInv`: cursors are within what was written, a log file
  is increasing and ends at the cursor, and each cut read costs at most one line.
* `SilenceIsReal` (`AbandonedWhenSilent`) from `SilenceInv`, which relates the moment each
  line was written to the cursor of its source, to the polls already read and to what the
  watch holds; the case of a line that is written between the two reads of one poll is why
  the property speaks of the time before the last good poll.
* `StoragePaid` (`StorageIsPaid`) from `StorageInv`: what is due on a volume is at most its size
  times its age, because volumes only grow, and just that while it has the size of its entry
  (`DueInv`); and the property, an amount whose entry is not yet written set apart (`PaidInv`).
* `VerdictsAreTheModels` (`VerdictIsTheModels`) from `ModelInv`: as long as no command ran
  twice and no download is late, the pod runs at most one download, the one that is
  polled, and at most one engine, the one launched last, whose weights are all on disk.
* `StagedAsRecorded` (`WeightsAsRecorded`) from `StagerInv`: while a stager has the volume
  attached, what is on the volume is the stager's disk (`Held`); as long as no download is
  late the stager runs at most the one it waits for, and a code of 0 is that of a whole
  model (`WaitedInv`); a sized volume has room for what is listed and wanted together
  (`RoomInv`), a sum over models that `SumMonotone` compares. It assumes finitely many
  models.
* `NeedleAlwaysFills` (`NeedleFillsContext`) from `NeedleInv`: the filler that is counted is the one
  the probe's rate gives, or that one corrected once (`Sized`). `Heaps` says what rounding does to
  the tokens of two heaps of filler; with it `CheapFirst` and `DearFirst` show, for a first unit that
  costs less or more than its like, that the uncorrected prompt is at most a unit and a fiftieth
  short, and that one correction makes a prompt that is too long fit without losing more than that. So
  of the eight corrections the code allows it never needs a second. `NeedleAssumption` is about
  the served model's tokenizer, which is outside the code: the first unit's difference is less
  than a unit, and small beside a context that holds the needle at all.

`RunRecordsProofs` is about RunRecords and Findings, for any cohort, suite, outcomes, kinds of
failure, numbers of runs, executions, protocols and failures. The records that count are
not those in the store but those that are *known*: stored, or in the batches that
`_store_outcome` has still to write. The invariant is about known records, so that a crash,
which drops the rest of them, leaves a state that is still allowed. Its parts, each with
its lemma:

* `TypeInv`, `PhaseInv`, `LeakInv`: what the execution in hand has at each step (a suite only after
  `tasks`, a memory report only after the token check, a number no stored record has), and that a
  pod left behind is on its way to a stop.
* `AccountInv`, `CompleteInv`: what the loop has not come to, the solution in hand and the four sets
  of the result divide the cohort; what was skipped as complete had its records.
* `BatchInv`, `StoreInv`, `IdentityInv`: what a batch may hold; an attempt's memory report and
  original are stored before it. The order of the writes enters here and nowhere else.
* `LeakyInv`: a leaky execution has boots only. `ExecutionInv`, `RescoredInv`: an execution measures
  one solution under one protocol, and an output is judged again once for each later protocol.
* `MissingInv`: what is measured without repeat was not there. `VerdictInv`: the verdicts of a
  solution whose storing was never cut off cover the suite with its retries, re-scored ones too
  (a rule turns verdicts, never a failed request).
* `TimeInv`, beside `IInv`: the clock and the phase marks are numbers, and an execution has as many
  failed boots as tries, one more for what was raised and one more for a failed teardown.

`LeakyPodLeavesNothing`, `LeakEndsRun`, `EveryTraceResolves`, `NothingMeasuredTwice`,
`SkippedWasMeasured` and `RunAccountsForEverySolution` follow, and from the same invariant,
for what is read from the records, `NoRecordDropped`, `CountAgreesWithVerdict` and the action
property `EvidenceOnlyAdvances`. `EveryStepIsPaidFor` (`CostsAddUp`) needs `TimeInv` too: the boot
records are as many as the boot reports (`BootsCount`), the attempts as many as what was scored
(`SuiteCosts`), no record of one kind equals one of another, so a pool that divides exactly
(`ExactShare`) is a sum of equal terms (`SumConstant`), and the sums over the three kinds
(`SumUnion`) add up to the clock. Assumed are `RunAssumption`, `FindingsAssumption` and, for the
costs, `ShareAssumption`: a
cohort lists a solution once (candidates of one fingerprint are one solution), and there
is a protocol at the start.

`FixProofProofs` is about any broken cases, rules, hub, answers of the classifier, starts
and faults. `DiagnosisIsCharged` (`ClassifierCharged`) follows from `ChargedInv`: what is
due is what the answer in hand cost, and the second question of a diagnosis finds the first
one's answer in the cache. `ClaimsAreBacked` (`PromotionIsProven`) is proved together with
`ProvenInv`, which carries what a proof has established across the steps between: the failure of the
broken plan is on record from the diagnosis on, the gates still hold when the fixed boot is judged, a
stored remediation and the stored boot that proves it are in hand at the promotion, and the version
about to be superseded is in the history before the rule file is written.
`FixProofAssumption` says that the hold pays for the two calls of a diagnosis (0.02 dollars
for two prompts of bounded length), that the family of a case is one of the rules, and that a
boot that failed in the engine left a log (one that did not is `BrokenLeavesNoLog`).

`SharedLedgerProofs` is about the file, for any owners, pods, amounts and bounds. A replay is a
fold over it, and so the proofs begin with folds: that each round of `Replayed` and `Tracked`
is its function applied to the round before (`ReplayRecursion`, `CountRecursion`, from the
definitions by induction on the length), that a line appended to an intact file adds one round to what
is read back (`AppendReads`), and that one appended after a torn line does not (`GluedReads`). `Kinds`
then sorts the steps by what they do to the file: `Writes` a line and its effect on the account,
`Tears` one, `Loads` the file at a start, `Rests`.

* `LedgerInv`: types, the lines only the code can write (`FileInv`), and what an owner's hold is at each
  of its steps (`OwnerInv`), because a line fits the file only if its hold is open there.
* `SoleWriterReplays` (`SoleWriterAgrees`): `Effect` says what each method does to a running tracker,
  and `ReplayFits` that replaying its line does the same.
* `SequentialLedgerReplays` (`SequentialReplays`) needs `SyncedInv`: while nothing overlapped,
  at most one process runs, the file it replayed can be replayed, and a glued line that ends the file
  is dropped by the next start together with the append that was lost in it.
* `HoldsChargedOnce` (`EachHoldChargedOnce`) also speaks of processes that write beside one another. Its
  invariant, `OrderInv`, says what their lines keep to (`Orderly`): a label is held only by its owner, and
  between two holds of it the owner closes it at most once, so that any other closing is a replay's.
  `ChargedMore` shows, line by line, that in such a ledger three things that are computed apart agree: the
  account of a replay, the published total, and `LastSettles`, a sum over the positions of the file that
  gains the new line (`LineAdds`) or has it take the place of the provisional settle (`LineReplaces`).
  `Status` is what they know of a label: how it was closed since its last hold, and whether a provisional
  settle still waits for the owner's.
* `ReconcileBringsToBill` (`ReconciledIsBilled`): `MatchMore` shows, line by line, that the account of a
  replay and the settled amounts `ledger_by_pod` finds per pod add up to the same sum, except for a hold
  settled without a pod to its name (`Tidy`; the sum over the pods is why `PodAssumption` says there are
  finitely many). While nothing overlapped, only one process has what it replayed (`AloneInv`), and
  by `SoleWriterAgrees` it holds what the file says (`Together`), so that a settle written to the file is
  one that the tracker took. `BilledInv` is then what a reconcile keeps to from its reading of the bills
  on: no pod bills any more, no hold is open (`Quiet`), and what is settled for each pod plus
  what is still to be appended for it is its bill (`PaysUp`); when nothing is left to append, the account
  is the bill.

`PlanPipelineProofs` is about the stages of a plan, for any checkpoints, GPUs, engine versions and
given plans, and has four theorems. The first needs no word on what the calculator computes: `BootsAsPredicted`
(`PlanBootsAsPredicted`) follows from `PlanInv`: the claim is always that of the limit the plan will
set (`ClaimInv`; this is what the second prediction of the guard is for), a seed's plan has the
dtype, utilization and context of the call it was predicted with until the last step adds the split
(`SeedPlanInv`), and the calculator reads the dtype that is served (`DtypeInv`). `PlanAssumption` says
that a seed has a GPU and a context a token (`served_context` passes over a limit of 0), and that
0 stands for an unset number.

The second, `LoweredHolds` (`LoweredPlanHolds`), takes the calculator apart. `PlanLimitInv` carries to
the guard that the metadata is well formed and its weights are numbers (`MetadataWellFormed`,
`WeightsLoaded`). In the guard's step, only a layered prediction counts blocks (`OnlyLayered`), and
only for the four families that keep states (`OnlyStateFamilies`); their layer kinds and blocks do not
read max_num_seqs and have a size in bytes (`KindsSame`, `StateTraced`, `BlockType`). Of the terms
subtracted from the memory asked for, the weights and the first capture stay (`WeightSame`), and the
logits, the sampler's state, the MLA workspace, the encoder's batch and the graphs do not grow
(`ActivationGrows`, `NonTorchGrows`, `GraphsGrow`), so that what remains is no less
(`LayeredLowered`) and holds no fewer blocks (`CapacityGrows`). This rests on
`CheckpointAssumption`: a config's declared numbers are positive, its lists are lists, a family with
layers has the fields the code reads as `int(text[field])` (it raises where there is none), and
of the families with states only GLM5Next has a `kv_lora_rank`; on `EnginesAssumption`: every GPU falls in a
tier of every version, which has a positive max_num_seqs; and on `GpusAssumption`. TLC evaluates all
three for the checkpoints of the run.

The third, `LayersCovered` (`ReservationCoversLayers`), says that the blocks counted for a request hold
the sum of what its layers keep. `CoverInv` carries to a known claim that it was computed for a launch on
whole GPUs, a context and a number of tokens (`LaunchBooked`), of well-formed metadata. The rest is
arithmetic about one prediction (`LayeredCovers`), in two halves.

* `AccountCovers`: each layout's blocks hold the layers of kinds that are `Bookable` in it. In the grouped
  layout a group holds a layer of every kind, each of which fits one page a block (`GroupedCovers`). In the
  packed one, the layers that can share a page form a bucket, which is cut into groups of pages; a group's pages
  are at most the anchor's, so the anchor times the groups, at the longest kind's blocks, is no less than
  the bucket's layers (`BucketHolds`), and the buckets are summed by their key (`SumParted`, `SumCovered`).
  In GLM5Next's, each tail has a latent's and an index's page and each state one of the state groups'
  pages (`Glm5Covers`). In the uniform one a block is every layer's page (`UniformCovers`).
* `FamilyBooks`: the kinds of all ten families are `Bookable` in their layout: pages are positive and
  aligned upwards, a state fits its page because the block was rounded up from it, windows are positive.

Beside the assumptions above it needs that a given plan's tensor-parallel size is positive, and
`TailAssumption`: a GLM5Next tail (4 bytes of an index key for every token of a pool) is no larger than the
smallest block, 32 pools of latents and index keys. `_glm5_next_blocks` puts the tails "in one group that
costs one block" (layered.py:891-892) and does not check that they fit, as it does for the states. With
pools of up to 8 tokens they do for any sizes. The property is false without it: with a `kv_lora_rank` of 1,
pools of 64 tokens and an `index_head_dim` of 4096 in the run's GLM5Next config, TLC finds a prediction
that books less than the layers keep.

The fourth, `SharesHeld` (`RankHoldsItsShare`), says that the weights counted per GPU hold what a rank loads
of every tensor. `ReadInv` carries to the prediction that its metadata counts the checkpoint's tensors in
the sizes that were read. What is counted (`WeightsHold`) is the loaded bytes, of which the bytes of the tensors held
whole are replicated and those split by KV head divided by the ranks there are heads for. The loaded total
is the sum over the tensors on the GPU, because each class taken off it is taken off once
(`TotalLoaded`); that sum parts into the whole, the split by head and the evenly split
(`SharesSum`), and `ShardHolds` compares the three with the formula's one division: what the clamp leaves out
is no more than what counting the replicated bytes in full adds. The plain and hybrid formulas divide
everything, which holds where nothing is replicated (`EvenShares`, `OnlyLayeredTraced`). The
paddings only add (`PaddingType`, `StartupType`; the Marlin experts of `MarlinGrows`). It needs `WeightsAssumption`,
of which nothing in the code checks a part, and TLC finds the property false without each:

* The classes are apart (`ClassesApart`): a tied head is no draft layer's (the code asks for the exact name
  `lm_head.weight`), and neither is a table kept on the host; a host table inside a draft layer would be
  taken off twice.
* A family whose replicated tensors are traced is predicted by the layered formula or not at all. A DeepSeek V4
  config without `compress_ratios` is not known as one and gets the plain formula, which divides the
  tensors every rank keeps.
* The padding formulas have the fields they read as `int(text[field])`, and there are no more dense layers than
  layers (`PaddingFits`); with more, the padding is negative.

Every inductive invariant was checked by TLC on the instance of its run before it was proved. That
changed four definitions: `MeasuredOnce` was wrong for three protocols, because a solution measured
under two of them and re-scored under the third has two attempts of one case there that are both
first hand; for the same reason `RowAgreesWithVerdict` and `QualificationNeverFallsBack` now speak of
attempts of one execution (the code lets a random id decide between two, a finding below). And
`Settle` hands `StoreOrder(x)` over as it is, empty batches included, where it used to drop them. And
`RankTimesTp`, what a rank holds of a tensor, asks whether every rank keeps it before whether it is split by head: as
two overlapping cases it had no definite value for a tensor that is both.

Only model-checked:

* `CauseRemoved`: it depends on what the rules, the hub and an exact answer say of each
  other, which are values of the instance and not of the code.
* The type invariants of RunRecords and PodLife beyond what `TypeInv` and its neighbours
  need, and the two liveness properties, which are out of the prover's reach.

## Findings

PROJECT.json quotes each with the sentence it contradicts. Five have a run (LeakWithoutHold,
ReplayChargesTwice, TornLineGlued, ForeignReplay, UnnamedCountedTwice). The others were met
while modelling, and are why a property has a proviso or an action an unexpected end:

* Money: reconcile_billing's test for a live run is never true; `pod_closed` events name no pod;
  a pod is parked after some harness failures; a Modal sandbox whose terminate fails is
  forgotten; a leak that cannot be recorded does not stop the run; storage is charged at the
  new size for old hours, twice after a crash, and not at all before the first entry; a hold
  replayed by two starts is published twice; a base-model proposal is paid before its spend
  can be refused.
* Records: partial attempts count as complete for ever; two equal failed boots are one record;
  a dead engine with an empty log leaves none; an invalid record does not stop the run and
  hides a leak; a torn record file stops every later run; ties between attempts of two
  executions are broken by a random id; re-scoring a re-scored solution doubles its attempts, and one
  that dies never writes the entry of its protocol;
  a workload without lengths is never complete; the reproduction tier is never asked for;
  a row may show another execution's serving report.
* Pods: a log read that times out before its first frame counts as good; a read cut after an id
  drops a line; the exit code of a late or doubled download is taken for the next model's;
  verified models are staged again; what an unlisted round left on a volume is not counted.
* Evaluation and planning: the needle may be sent although it does not fit; a failed read of a chat
  template scores every case as failed; headers read at the third try give a total but
  no replicated bytes; a recorded prediction is not made as the plan booted; the GPU selection
  takes the total for hardware-independent; a correction is checked against an empty workload.
* Fix proof: a crash between the history file and the rule file blocks the family for good; a
  serving report of another workload can satisfy the objective; the CLI diagnoses without rules;
  the classifier's cache tells logs apart by their first 8000 bytes only.

Left in this list only, because no text says otherwise: the second round of a suite that
raises loses the first round's results; a given plan's max_model_len is not passed to its
prediction; a broken plan that once booted healthy is booted again by every proof.

## Not modelled

* The Modal target: the port it implements is the one CohortExecution drives, with fewer outcomes.
* `scheduler.py`, `candidates.py`, `decision.py`, `gpu_selection.py`: rankings and filters of lists,
  without state and called once; the CLI's commands.
* The classifier's prompts and the excerpt it is given, the source scanner and `generate_vllm_facts.py`:
  text processing. What the classifier may answer is an input of FixProof, wrong answers included.
* All tables of `findings.py` but the living one, renderers, sanitization, schemas, hashing.
* Provider and SSH transport, hardware detection, the parsing of engine logs.
* `iterate_diagnosis` and `delete_volume`, which only tests call.

Abstractions to know of. The halves of the cohort run (money in CohortExecution, records in
RunRecords, pods in PodLife) are separate state spaces: each leaves the others' outcomes open, so
no property relates a ledger entry to a record. In PodLife a host writes only before a read
or a sleep; a stalled boot is always a harness failure (cohort.py:80); staging rounds have
distinct tags, commands are doubled on GPU pods only, and hours pass between rounds and
while a download is polled. `leaked_pods.json` is written whole or not at all, and a start whose
sweep cannot write it is a start followed by a crash. FixProof leaves torn record files to RunRecords and uses the facts of
one engine version. Two processes with their own trackers can together spend more than the
authorized total; no text of the repository promises otherwise, so no property claims it.

## Plan

1. The halves of the cohort run composed over one pod: a record's cost against the ledger's charge.
2. `scheduler.py`: a ranking derived again from its record is the same ranking.
3. The Modal target as a second provider of CohortExecution.
