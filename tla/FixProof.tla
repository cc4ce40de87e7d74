------------------------------ MODULE FixProof ------------------------------
(***************************************************************************)
(* The proof that a correction fixes a failure (remediation.py): a plan    *)
(* that is expected to fail is booted, or its stored failure reused; the   *)
(* log is diagnosed, the corrected plan booted and measured, the outcome   *)
(* recorded, and the rule that gave the correction promoted in the rule    *)
(* files (rule_repository.py).  The process may die before any write; a    *)
(* file is written in place and may be left torn.                          *)
(*                                                                         *)
(* A solution is its plan.  What an execution does on a pod is RunRecords' *)
(* and CohortExecution's subject; here it is the records it may leave, in  *)
(* the order they are stored, and how it ends.  The classifier             *)
(* (llm_classifier.py) is asked through paid calls of one unit each; of    *)
(* the ledger only its hold and what it leaves uncharged are here.         *)
(***************************************************************************)
EXTENDS Correction, FiniteSets, SequencesExt

CONSTANTS
  CaseLists,    \* the sequences of broken cases a process may be given
  Answers,      \* what the classifier may say of a log: [family, confident, version, values, quoted, exact],
                \* quoted the values whose evidence is words of the log
  Estimate,     \* calls the classifier's hold pays for
  Logs,         \* the failures a plan's boot may print, by broken plan; others print "other"
  Planned,      \* models the plan pipeline gives a plan for
  Proposals,    \* what the classifier model may propose as a base model
  LostReads,    \* the sets of reads of the Hub that may fail
  TaskCase,     \* the cases of the task suite
  Accepts,      \* the sets of cases an evaluation may accept in this instance
  QualityFloor, \* accepted cases the request asks for
  MaxLaunches, MaxFaults   \* bounds

BrokenCase == UNION {Range(cases) : cases \in CaseLists}

(* The hold pays for the two calls of a diagnosis, whose text is cut to a   *)
(* fixed length; a failure without a log is BrokenLeavesNoLog.             *)
ASSUME FixProofAssumption ==
  /\ IsFiniteSet(TaskCase) /\ Accepts \subseteq SUBSET TaskCase
  /\ QualityFloor \in 0..Cardinality(TaskCase)
  /\ Estimate \in Nat /\ Estimate >= 2 /\ MaxLaunches \in Nat /\ MaxFaults \in Nat
  /\ CaseLists \subseteq Seq(BrokenCase)
  /\ \A c \in BrokenCase : c.family \in Family /\ "none" \notin Logs[c.plan]

VARIABLES
  (* Files *)
  store,     \* the record store
  rules,     \* the current rule file of each family: [version, cites, intact]
  history,   \* superseded rule files: [family, version, intact]
  hold,      \* the classifier's hold is open in the ledger
  (* The process *)
  pc,        \* "down" when none runs
  todo,      \* cases to prove
  log,       \* the captured failure of the broken plan
  fix,       \* the diagnosis: [family, plan, exact], plan a set of at most one,
             \* exact (history) when the classifier read the log right
  writes,    \* records of the execution still to be stored
  then,      \* where the proof goes on once they are
  proved,    \* the memory report that proved the mechanism, as a set
  heard,     \* _classification_cache: [log, reply]
  asked,     \* the classification in hand, as a set of [reply, calls]
  (* Money, as history *)
  due,       \* calls of this diagnosis that were made
  missed,    \* "call", "proposal" or "twice": what the ledger has wrong
  (* Bounds *)
  executions, launches, faults

files == <<store, rules, history>>
money == <<hold, heard, asked, due, missed>>
process == <<todo, log, fix, writes, then, proved>>
bounds == <<executions, launches, faults>>
vars == <<files, pc, process, money, bounds>>

-----------------------------------------------------------------------------
(* Records, and what the store holds about a solution                      *)

FailedBoot(s, e, tag, text) == [scope |-> "boot", sol |-> s, exec |-> e, tag |-> tag, log |-> text]
Memory(s, e) == [scope |-> "memory", sol |-> s, exec |-> e]
Attempt(s, e, c, ok) == [scope |-> "task_outcome", sol |-> s, exec |-> e, case |-> c, accepted |-> ok]
Serving(s, e, ok) == [scope |-> "serving_performance", sol |-> s, exec |-> e, within |-> ok]

RecordsOf(s, scope) == {r \in store : r.scope = scope /\ r.sol = s}

\* RecordedEvidence.missing of a planned solution: what is still to be measured.
Complete(s) ==
  \A scope \in {"memory", "task_outcome", "serving_performance"} : RecordsOf(s, scope) # {}
MissingTasks(s) == RecordsOf(s, "memory") = {} \/ RecordsOf(s, "task_outcome") = {}
MissingServing(s) == RecordsOf(s, "memory") = {} \/ RecordsOf(s, "serving_performance") = {}

(* Mutated form: a boot that failed in the harness is reused too.           *)
StoredFailureLogsAny(s) == {r.log : r \in {b \in RecordsOf(s, "boot") : b.log # "none"}}

\* _stored_failure_log: the logs of stored boots that failed in the engine.
StoredFailureLogs(s) ==
  {r.log : r \in {b \in RecordsOf(s, "boot") : b.tag = "boot:model_failure" /\ b.log # "none"}}

-----------------------------------------------------------------------------
NoFix == [family |-> "none", plan |-> {}, exact |-> FALSE]
Case == Head(todo)
Bad == Case.plan
Fixed == CHOOSE p \in fix.plan : TRUE

Init ==
  /\ store = {} /\ history = {}
  /\ rules = [f \in Family |-> [version |-> 1, cites |-> {}, intact |-> TRUE]]
  /\ pc = "down" /\ todo = <<>> /\ log = "none" /\ fix = NoFix
  /\ writes = <<>> /\ then = "none" /\ proved = {}
  /\ hold = FALSE /\ heard = {} /\ asked = {} /\ due = 0 /\ missed = {}
  /\ executions = 0 /\ launches = 0 /\ faults = 0

Fault == faults < MaxFaults /\ faults' = faults + 1

(* The replay settles the classifier's hold at its estimate.  load_rules    *)
(* reads every rule file of the version; a torn one ends the start with an  *)
(* exception.                                                               *)
Launch ==
  /\ pc = "down" /\ launches < MaxLaunches
  /\ launches' = launches + 1
  /\ hold' = FALSE /\ due' = 0
  /\ missed' = missed \cup (IF due > Estimate THEN {"call"} ELSE {})
  /\ IF \A f \in Family : rules[f].intact
     THEN todo' \in CaseLists /\ pc' = "case"
     ELSE UNCHANGED <<todo, pc>>
  /\ UNCHANGED <<files, log, fix, writes, then, proved, heard, asked, executions, faults>>

Idle ==
  /\ todo' = <<>> /\ log' = "none" /\ fix' = NoFix
  /\ writes' = <<>> /\ then' = "none" /\ proved' = {} /\ heard' = {} /\ asked' = {}

(* prove_all returns, or an exception of one case ends it for them all; the *)
(* pool is closed in both.                                                  *)
Return ==
  /\ pc = "closing" \/ (pc = "case" /\ todo = <<>>)
  /\ pc' = "down" /\ Idle
  /\ UNCHANGED <<files, hold, due, missed, bounds>>

Goes(next) == pc' = next /\ UNCHANGED <<todo, log, fix, writes, then, proved>>

(* The proof of the case is over.                                           *)
CaseOver ==
  /\ pc' = "case"
  /\ todo' = Tail(todo) /\ log' = "none" /\ fix' = NoFix /\ proved' = {}
  /\ UNCHANGED <<writes, then>>

(* An execution stores records in this order and the proof goes on; its log *)
(* is what the caller reads from the outcome.                               *)
Executes(records, text, next) ==
  /\ executions' = executions + 1
  /\ writes' = records /\ then' = next /\ log' = text /\ pc' = "storing"
  /\ UNCHANGED <<files, todo, fix, proved, launches, money>>

NewExecution == executions + 1
Harness(s) == <<FailedBoot(s, NewExecution, "harness", "harness")>>

-----------------------------------------------------------------------------
(* 1. The broken boot                                                       *)

ReuseStoredFailure ==
  /\ pc = "case" /\ todo # <<>>
  /\ log' \in StoredFailureLogs(Bad)
  /\ pc' = "diagnose"
  /\ UNCHANGED <<files, todo, fix, writes, then, proved, money, bounds>>

ToBrokenBoot ==
  /\ pc = "case" /\ todo # <<>> /\ StoredFailureLogs(Bad) = {}
  /\ Goes("broken")
  /\ UNCHANGED <<files, money, bounds>>

(* It booted: replace the plan, it counts for nothing.                      *)
BrokenBootsHealthy ==
  /\ pc = "broken" /\ Fault
  /\ Executes(<<Memory(Bad, NewExecution)>>, "none", "over")

BrokenFails ==
  /\ pc = "broken" /\ UNCHANGED faults
  /\ \E text \in Logs[Bad] :
       Executes(<<FailedBoot(Bad, NewExecution, "boot:model_failure", text)>>, text, "diagnose")

(* The engine left no log, or the host never let it start.                  *)
BrokenLeavesNoLog ==
  /\ pc = "broken" /\ Fault
  /\ Executes(<<>>, "none", "over") \/ Executes(Harness(Bad), "none", "over")

(* No capacity, a refused hold, a leaked pod: after whatever was stored.    *)
BrokenRaises ==
  /\ pc = "broken" /\ Fault
  /\ \/ Executes(<<>>, "none", "closing")
     \/ Executes(Harness(Bad), "none", "closing")
     \/ Executes(<<Memory(Bad, NewExecution)>>, "none", "closing")
     \/ \E text \in Logs[Bad] :
          Executes(<<FailedBoot(Bad, NewExecution, "boot:model_failure", text)>>, "none", "closing")

-----------------------------------------------------------------------------
(* 2. Diagnosis: the log is all the classifier sees; the strategy also sees *)
(* the model's config, the GPU, the prediction and the lineage search.      *)

ConfigOf(plan) == IF plan.model \in Published THEN Repo(plan.model).config ELSE <<>>

\* What the calculator predicted for the plan, 0 without a prediction.
PredictedTotal(plan) == IF plan.model \in Published THEN Repo(plan.model).total ELSE 0

\* _verify_evidence: a value stays only when its evidence is words of the log.
Verified(reply) == Restrict(reply.values, reply.quoted)

Failure(plan, reply, found) ==
  [family |-> reply.family, confident |-> reply.confident, version |-> reply.version,
   extracted |-> Verified(reply), plan |-> plan, config |-> ConfigOf(plan),
   predicted |-> PredictedTotal(plan), weight |-> 0, found |-> found]

\* classify_and_extract calls for the family and, when a rule knows it, for the
\* values; a log it has answered before costs nothing.
Calls(reply) == IF reply.family \in Family THEN 2 ELSE 1
Remembered(text) == {h \in heard : h.log = text}
Ask(text) ==
  IF Remembered(text) # {}
  THEN {[reply |-> h.reply, calls |-> 0] : h \in Remembered(text)}
  ELSE {[reply |-> r, calls |-> Calls(r)] : r \in Answers[text]}

(* Mutated form: the answer is not remembered.                              *)
Forgets(text, reply) == heard

Remembers(text, reply) == heard \cup {[log |-> text, reply |-> reply]}

\* Only a substitution, on a capability the log names, searches the lineage,
\* and a base model is proposed, for a call, when the card declares none.
Searches(reply) ==
  /\ reply.family \in Family /\ Rules[reply.family].strategy = "substitute_artifact"
  /\ reply.confident /\ reply.version # "other" /\ Has(Verified(reply), "min_capability")
Proposes(model, reply) == Searches(reply) /\ Repo(model).declares = ""

\* A repository, the base or not, or none.
GuessBaseModel(model) == IF Repo(model).declares = "" THEN Proposals ELSE {""}

Lineages(model, reply) ==
  IF Searches(reply)
  THEN {Search(Repo(model), proposal, lost) : proposal \in GuessBaseModel(model), lost \in LostReads}
  ELSE {{}}

\* The hold is settled at an amount; exact when it is what the answer cost.
Settles(amount, exact) ==
  /\ hold' = FALSE /\ asked' = {} /\ due' = 0
  /\ missed' = missed \cup (IF due > amount THEN {"call"} ELSE {})
                      \cup (IF exact /\ due < amount THEN {"twice"} ELSE {})

HoldsForClassifier ==
  /\ pc = "diagnose" /\ Goes("classify")
  /\ hold' = TRUE
  /\ UNCHANGED <<files, heard, asked, due, missed, bounds>>

(* The run may not ask the classifier, or the hold is refused.              *)
ClassifierRefused ==
  /\ pc = "diagnose" /\ Fault /\ Goes("closing")
  /\ UNCHANGED <<files, money, executions, launches>>

Classify ==
  /\ pc = "classify" /\ Goes("correct")
  /\ \E answer \in Ask(log) :
       /\ asked' = {answer}
       /\ due' = due + answer.calls
       /\ heard' = Remembers(log, answer.reply)
  /\ UNCHANGED <<files, hold, missed, bounds>>

(* A call or a read of the Hub raises, whatever was paid by then.           *)
DiagnosisRaises ==
  /\ pc \in {"classify", "correct"} /\ Fault /\ Goes("closing")
  /\ Settles(Estimate, FALSE)
  /\ UNCHANGED <<files, heard, executions, launches>>

(* extract asks the same question again, for the values.  The outcome of a  *)
(* search is chosen with its proposal.                                      *)
Correct ==
  /\ pc = "correct"
  /\ \E answer \in asked :
     \E again \in IF answer.reply.family = "unknown" THEN {[answer EXCEPT !.calls = 0]} ELSE Ask(log) :
       LET reply == [answer.reply EXCEPT !.values = again.reply.values, !.quoted = again.reply.quoted]
       IN  /\ due' = due + again.calls
           /\ \E found \in Lineages(Bad.model, reply) :
                fix' = [family |-> reply.family, exact |-> reply.exact,
                        plan |-> Corrected(Failure(Bad, reply, found))]
           /\ pc' = (IF Proposes(Bad.model, reply) THEN "proposed" ELSE "charge")
  /\ UNCHANGED <<files, todo, log, writes, then, proved, hold, heard, asked, missed, bounds>>

(* The proposal was paid: its spend is recorded, or refused.                *)
ProposalCharged ==
  /\ pc = "proposed" /\ Goes("charge")
  /\ UNCHANGED <<files, money, bounds>>

ProposalRefused ==
  /\ pc = "proposed" /\ Fault /\ Goes("closing")
  /\ hold' = FALSE /\ asked' = {} /\ due' = 0
  /\ missed' = missed \cup {"proposal"}
  /\ UNCHANGED <<files, heard, executions, launches>>

(* What the classification cost is charged, the estimate when the           *)
(* classifier model has no price; past the authorized total the settle is   *)
(* written and raises.                                                      *)
Charge ==
  /\ pc = "charge"
  /\ (\E answer \in asked : Settles(answer.calls, TRUE)) \/ Settles(Estimate, FALSE)
  /\ \/ Goes("gates") /\ UNCHANGED faults
     \/ Goes("closing") /\ Fault
  /\ UNCHANGED <<files, heard, executions, launches>>

-----------------------------------------------------------------------------
(* 7. The record of a proof                                                 *)

Remediation(s, mechanism, request, proving) ==
  [scope |-> "remediation", sol |-> s, corrects |-> Bad, diagnosed |-> fix.family,
   expected |-> Case.family, plan |-> fix.plan, mechanism |-> mechanism, request |-> request, proving |-> proving]

Recorded(record) == store' = store \cup {record} /\ UNCHANGED <<rules, history, money>>
NotEvaluated == Recorded(Remediation(Bad, "not_evaluated", "not_evaluated", {}))

-----------------------------------------------------------------------------
(* 3-6. The gates, and the boot of the corrected plan                       *)

\* Gate A: the family is the case's.  Gate B: the plan is another one.
GatesPass == fix.family = Case.family /\ fix.plan # {} /\ Bad \notin fix.plan

\* What the headers of its checkpoint say, if they could be read.
WouldNotLoad(plan, lost) ==
  /\ plan.model \in Published /\ <<plan.model, "names">> \notin lost
  /\ Refused(Repo(plan.model))

GateFails ==
  /\ pc = "gates" /\ ~GatesPass
  /\ NotEvaluated /\ CaseOver /\ UNCHANGED bounds

PredictedNotToLoad ==
  /\ pc = "gates" /\ GatesPass
  /\ \E lost \in LostReads : WouldNotLoad(Fixed, lost)
  /\ NotEvaluated /\ CaseOver /\ UNCHANGED bounds

ToFixed(complete) ==
  /\ pc = "gates" /\ GatesPass
  /\ \E lost \in LostReads : ~WouldNotLoad(Fixed, lost)
  /\ complete <=> Fixed.model \notin Planned \/ Complete(Fixed)
  /\ UNCHANGED <<files, money, bounds>>

(* Measured before, or without a plan of its own: no boot.                  *)
NothingMissing == ToFixed(TRUE) /\ Goes("judge")
ToFixedBoot == ToFixed(FALSE) /\ Goes("fixed")

NoCapacity ==
  /\ pc = "fixed" /\ Fault
  /\ NotEvaluated /\ CaseOver /\ UNCHANGED <<executions, launches>>

\* What a healthy boot stores: its report, then what was missing.
Measurements(s, accepted, within) ==
  <<Memory(s, NewExecution)>>
  \o (IF MissingTasks(s)
      THEN SetToSeq({Attempt(s, NewExecution, c, c \in accepted) : c \in TaskCase}) ELSE <<>>)
  \o (IF MissingServing(s) THEN <<Serving(s, NewExecution, within)>> ELSE <<>>)

FixedBootsHealthy ==
  /\ pc = "fixed" /\ UNCHANGED faults
  /\ \E accepted \in Accepts, within \in BOOLEAN :
       Executes(Measurements(Fixed, accepted, within), log, "judge")

(* The benchmark raised, or the teardown: the records are stored first.     *)
FixedRaises ==
  /\ pc = "fixed" /\ Fault
  /\ \/ Executes(Harness(Fixed), log, "closing")
     \/ Executes(<<Memory(Fixed, NewExecution)>>, log, "closing")
     \/ Executes(Measurements(Fixed, TaskCase, TRUE), log, "closing")

FixedFails ==
  /\ pc = "fixed" /\ Fault
  /\ \/ Executes(<<FailedBoot(Fixed, NewExecution, "boot:model_failure", "other")>>, log, "judge")
     \/ Executes(Harness(Fixed), log, "judge")

StoreNext ==
  /\ pc = "storing"
  /\ IF writes = <<>>
     THEN /\ then' = "none"
          /\ IF then = "over"
             THEN pc' = "case" /\ todo' = Tail(todo) /\ log' = "none"
             ELSE pc' = then /\ UNCHANGED <<todo, log>>
          /\ UNCHANGED <<store, writes>>
     ELSE /\ store' = store \cup {Head(writes)}
          /\ writes' = Tail(writes)
          /\ UNCHANGED <<pc, todo, log, then>>
  /\ UNCHANGED <<rules, history, fix, proved, money, bounds>>

-----------------------------------------------------------------------------
(* 7-8. The verdict, the record, the promotion                              *)

Accepted(s) == {a.case : a \in {b \in RecordsOf(s, "task_outcome") : b.accepted}}

\* A healthy report verifies the mechanism, an engine failure refutes it.
Mechanism(s) ==
  CASE RecordsOf(s, "memory") # {} -> "verified"
    [] RecordsOf(s, "memory") = {} /\ (\E b \in RecordsOf(s, "boot") : b.tag = "boot:model_failure") ->
         "failed"
    [] OTHER -> "not_evaluated"

\* The task suite and the one serving report looked at must both pass.
Request(s, served) ==
  IF /\ Cardinality(Accepted(s)) >= QualityFloor
     /\ RecordsOf(s, "task_outcome") # {}
     /\ served # {} /\ \A r \in served : r.within
  THEN "satisfied" ELSE "violated"

\* At most one element of a set, any of them: the code takes the first digest.
FirstOf(S) == IF S = {} THEN {{}} ELSE {{r} : r \in S}

Judge ==
  /\ pc = "judge"
  /\ \E report \in FirstOf(RecordsOf(Fixed, "memory")),
        served \in FirstOf(RecordsOf(Fixed, "serving_performance")) :
       LET mechanism == Mechanism(Fixed)
           measured == report \cup RecordsOf(Fixed, "task_outcome")
                              \cup RecordsOf(Fixed, "serving_performance")
       IN  IF report = {}
           THEN /\ Recorded(Remediation(Fixed, mechanism, "not_evaluated", {}))
                /\ CaseOver
           ELSE /\ Recorded(Remediation(Fixed, mechanism, Request(Fixed, served), measured))
                /\ proved' = report /\ pc' = "promote"
                /\ UNCHANGED <<todo, log, fix, writes, then>>
  /\ UNCHANGED bounds

\* derive_remediation_result
Label(record) ==
  CASE record.mechanism = "verified" /\ record.request = "satisfied" -> "Fixed"
    [] record.mechanism = "verified" /\ record.request = "violated" -> "Alternative with trade-offs"
    [] OTHER -> "Unverified suggestion"

OldVersion(f, intact) == [family |-> f, version |-> rules[f].version, intact |-> intact]
InHistory(f) == \E intact \in BOOLEAN : OldVersion(f, intact) \in history

(* write_version: the current file is copied to the history, which must not *)
(* hold that version yet.                                                   *)
KeepOldVersion ==
  /\ pc = "promote" /\ ~InHistory(Case.family)
  /\ history' = history \cup {OldVersion(Case.family, TRUE)}
  /\ Goes("promoteWrite")
  /\ UNCHANGED <<store, rules, money, bounds>>

AlreadyInHistory ==
  /\ pc = "promote" /\ InHistory(Case.family)
  /\ Goes("closing")
  /\ UNCHANGED <<files, money, bounds>>

(* The new version at mechanism_verified, citing the boot that proved it.   *)
WriteNewVersion ==
  /\ pc = "promoteWrite"
  /\ rules' = [rules EXCEPT ![Case.family].version = @ + 1, ![Case.family].cites = proved]
  /\ CaseOver
  /\ UNCHANGED <<store, history, money, bounds>>

-----------------------------------------------------------------------------
(* A kill at any step: memory is lost, and a file in the middle of a write  *)
(* may be left torn.                                                        *)
Crash ==
  /\ pc # "down" /\ Fault
  /\ \/ UNCHANGED files
     \/ /\ pc = "promote" /\ ~InHistory(Case.family)
        /\ history' = history \cup {OldVersion(Case.family, FALSE)}
        /\ UNCHANGED <<store, rules>>
     \/ /\ pc = "promoteWrite"
        /\ rules' = [rules EXCEPT ![Case.family].intact = FALSE]
        /\ UNCHANGED <<store, history>>
  /\ pc' = "down" /\ Idle
  /\ missed' = missed \cup (IF pc = "proposed" THEN {"proposal"} ELSE {})
  /\ UNCHANGED <<hold, due, executions, launches>>

Next ==
  \/ Launch \/ Return
  \/ ReuseStoredFailure \/ ToBrokenBoot
  \/ BrokenBootsHealthy \/ BrokenFails \/ BrokenLeavesNoLog \/ BrokenRaises
  \/ HoldsForClassifier \/ ClassifierRefused \/ Classify \/ DiagnosisRaises
  \/ Correct \/ ProposalCharged \/ ProposalRefused \/ Charge
  \/ GateFails \/ PredictedNotToLoad \/ NothingMissing \/ ToFixedBoot
  \/ NoCapacity \/ FixedBootsHealthy \/ FixedRaises \/ FixedFails \/ StoreNext
  \/ Judge \/ KeepOldVersion \/ AlreadyInHistory \/ WriteNewVersion
  \/ Crash

Spec == Init /\ [][Next]_vars

-----------------------------------------------------------------------------
(* Properties                                                               *)

Stored(scope) == {r \in store : r.scope = scope}

(* What a rule's status and a "Fixed" label claim can be found in the files, *)
(* whatever died or failed on the way: a promoted rule cites a stored        *)
(* healthy boot of a solution that a stored remediation names as verified,   *)
(* of another plan than the one it corrects, whose own failure in the engine *)
(* is stored with its log; the versions it superseded are all in the         *)
(* history; and a remediation labelled Fixed is proved by stored records of  *)
(* its solution that meet the quality floor and the serving objective.       *)
BrokenOnRecord(plan) ==
  \E b \in Stored("boot") : b.sol = plan /\ b.tag = "boot:model_failure" /\ b.log # "none"

RuleIsProven(f) ==
  /\ \A v \in 1..(rules[f].version - 1) : [family |-> f, version |-> v, intact |-> TRUE] \in history
  /\ rules[f].version > 1 =>
       \E r \in Stored("remediation"), m \in Stored("memory") :
         /\ rules[f].cites = {m} /\ m \in r.proving /\ m.sol = r.sol
         /\ r.mechanism = "verified" /\ r.diagnosed = f
         /\ r.sol # r.corrects /\ BrokenOnRecord(r.corrects)

LabelIsProven(r) ==
  Label(r) = "Fixed" =>
    /\ r.proving \subseteq store /\ \A p \in r.proving : p.sol = r.sol
    /\ \E m \in r.proving : m.scope = "memory"
    /\ \E p \in r.proving : p.scope = "serving_performance" /\ p.within
    /\ Cardinality({a.case : a \in {p \in r.proving : p.scope = "task_outcome" /\ p.accepted}})
         >= QualityFloor

PromotionIsProven ==
  /\ \A f \in Family : rules[f].intact => RuleIsProven(f)
  /\ \A r \in Stored("remediation") : LabelIsProven(r)

(* Every call of the classifier that was paid is charged once, through the  *)
(* hold of its diagnosis, by the cache, by failures, by deaths and the next  *)
(* start's replay; only the proposal of a base model, whose spend is         *)
(* recorded after it was paid and without a hold, can go uncharged.          *)
ClassifierCharged ==
  /\ missed \subseteq {"proposal"}
  /\ pc \notin {"down", "classify", "correct", "proposed", "charge"} => ~hold /\ due = 0

(* What makes a plan fail the way a family names, from the engine's side.   *)
FailsAs(f, p) ==
  LET r == Repo(p.model)
      length == Get(p.config, "max_model_len", r.config.max_position_embeddings)
  IN  CASE f = "oom_weight_load" -> 100 * r.total > Gpus[p.sku].memory * Get(p.config, "gpu_memory_utilization", Util)
        [] f = "oom_kv_cache" -> length > r.longest
        [] f = "max_model_len" -> length > r.config.max_position_embeddings
        [] f = "dtype_incompatible" -> p.dtype = "float16" /\ r.config.model_type \in Rules[f].blocklist
        [] f = "tp_divisibility" -> r.config.num_attention_heads % p.tp # 0 \/ p.tp > p.count
        [] f = "quant_compute_capability" ->
             Needs(r) > Gpus[p.sku].capability \/ r.shape # Repo(Bad.model).shape \/ r.norm # Repo(Bad.model).norm
        [] OTHER -> FALSE

(* A correction removes its cause: when the classifier read the log of the  *)
(* broken plan right, the plan that goes to the fixed boot does not fail    *)
(* the same way again, and a substituted checkpoint is the same network,    *)
(* whatever reads of the Hub failed and whatever base was proposed.  The     *)
(* predicted total is taken to be the same on every GPU.                    *)
CauseRemoved ==
  pc = "gates" /\ fix.exact /\ GatesPass /\ log = Case.family
    => FailsAs(Case.family, Bad) /\ ~FailsAs(Case.family, Fixed)
=============================================================================
