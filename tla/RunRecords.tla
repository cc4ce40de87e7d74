----------------------------- MODULE RunRecords -----------------------------
(***************************************************************************)
(* What a cohort run measures and keeps: the run loop of cohort.py, the    *)
(* boots and measurements of execute_solution, the records _store_outcome  *)
(* writes one by one, the resume that decides from them what is still to   *)
(* be measured, and the re-scoring of recorded outputs under a new         *)
(* evaluation protocol.  The process may die before any of its writes.     *)
(*                                                                         *)
(* The store is content-addressed, so it is a set: two equal records are   *)
(* one.  A record of an execution names it by number, which stands for the *)
(* clock readings, pod and attempt ids that tell executions apart.  Time   *)
(* is counted in steps of a measurement, money in parts of a step so fine  *)
(* that every share the code computes is exact.  The budget and the pods   *)
(* of the same run are CohortExecution's subject.                          *)
(***************************************************************************)
EXTENDS Integers, Sequences, FiniteSets, FiniteSetsExt, Functions

CONSTANTS
  Plans,           \* the solutions of the cohort, in the order they are run
  Planned,         \* those with status "planned"; the others are prediction errors
  Permitted,       \* those the authorization envelope allows to execute
  Chat,            \* those whose model has a chat template or renderer
  Checked,         \* those measured with the suite that has deployment checks
  Case,            \* the cases of the task suites
  SuiteOf,         \* of each solution the cases of the suite it is measured with
  Unserved,        \* of each solution the checks its plan does not serve
  Log,             \* what a failed boot may leave in its log
  DeclaresServing, \* the serving workload declares its lengths
  RepeatAllowed,   \* a run may be started with repeat, which is no repeat on an empty store
  Outcome,         \* what scoring a case may give in this instance
  SloVerdict,      \* what a serving benchmark may give
  FailureKinds,    \* the kinds of exception steps may raise in this instance
  Parts,           \* what a step of time costs
  MaxExecutions,   \* what the budget pays for: a further hold is refused
  MaxLaunches, MaxProtocol, MaxFaults   \* bounds

Solution == Range(Plans)

ASSUME RunAssumption ==
  /\ Plans \in Seq(Solution) /\ Plans # <<>>
  /\ \A i, j \in DOMAIN Plans : Plans[i] = Plans[j] => i = j
  /\ Planned \subseteq Solution /\ Permitted \subseteq Solution /\ Chat \subseteq Solution
  /\ Checked \subseteq Solution
  /\ SuiteOf \in [Solution -> SUBSET Case]
  /\ Unserved \in [Solution -> SUBSET Case] /\ \A s \in Solution \ Checked : Unserved[s] = {}
  /\ IsFiniteSet(Case) /\ DeclaresServing \in BOOLEAN /\ RepeatAllowed \in BOOLEAN
  /\ Outcome \subseteq {"accepted", "rejected", "failed"}
  /\ SloVerdict \subseteq {"pass", "fail"}
  /\ FailureKinds \subseteq {"harness", "unexpected", "interrupt", "stop"}
  /\ MaxExecutions \in Nat /\ MaxLaunches \in Nat /\ MaxProtocol \in Nat \ {0}
  /\ MaxFaults \in Nat

CapacityAttempts == 3
MaxUnexpectedInARow == 2
BootAttempts == 2

(* An execution has no more attempts, and no more boot reports.             *)
MostShares == Max({2 * Cardinality(Case), BootAttempts + 2})

ASSUME ShareAssumption ==
  Parts \in Nat \ {0} /\ \A n \in 1..MostShares : \E share \in 0..Parts : Parts = share * n

VARIABLES
  (* Files *)
  store,       \* the record store
  manifest,    \* identity manifest: pairs of a solution and an evaluation protocol
  protocol,    \* the protocol the accepted inputs now bind
  torn,        \* a record file was left half written: no index of the store can be read
  (* The process *)
  pc,          \* "down" when none runs
  repeat,      \* it was started with repeat
  todo,        \* solutions the loop has not come to
  x,           \* the solution in execution, see Idle
  writes,      \* batches of records still to be stored, in order
  result,      \* CohortResult
  row,         \* unexpected_in_a_row
  (* History and bounds *)
  executions,  \* number of executions so far
  cut,         \* solutions whose storing was cut off by a death or an invalid record
  repeated,    \* some run was a repeat
  leakyTokens, \* executions whose token check failed
  leakSeen,    \* this run left a pod it could not terminate
  lapsed,      \* re-scorings whose manifest entry was lost: pairs as in manifest
  launches,
  faults       \* failures and deaths so far

files == <<store, manifest, protocol, torn>>
process == <<repeat, todo, x, writes, result, row>>
history == <<executions, cut, repeated, leakyTokens, leakSeen, lapsed, launches, faults>>
vars == <<files, pc, process, history>>

-----------------------------------------------------------------------------
(* Records *)

ClaimRecord(s) == [scope |-> "claim", sol |-> s]

BootRecord(s, e, failure, cost) ==
  [scope |-> "boot", sol |-> s, exec |-> e, tag |-> failure.tag, log |-> failure.log,
   cost |-> cost]

MemoryRecord(s, e, cost) == [scope |-> "memory", sol |-> s, exec |-> e, cost |-> cost]

(* origin is 0 for an attempt of a run, and the protocol of the attempt it  *)
(* re-scores otherwise.                                                     *)
AttemptRecord(s, e, scored, proto, origin, cost) ==
  [scope |-> "task_outcome", sol |-> s, exec |-> e, case |-> scored.case,
   retry |-> scored.retry, accepted |-> scored.outcome, protocol |-> proto,
   origin |-> origin, cost |-> cost]

ServingRecord(s, e, verdict, cost) ==
  [scope |-> "serving_performance", sol |-> s, exec |-> e, verdict |-> verdict, cost |-> cost]

RecordsOf(s, scope) == {r \in store : r.sol = s /\ r.scope = scope}
AttemptsUnder(s, proto) == {a \in RecordsOf(s, "task_outcome") : a.protocol = proto}

-----------------------------------------------------------------------------
(* RecordedEvidence.missing: what a run still has to measure; nothing when  *)
(* task and serving are both FALSE and there is no boot to do.              *)

FullScope == [boot |-> TRUE, task |-> TRUE, serving |-> TRUE]

(* Mutated form: attempts under any protocol count.                         *)
MissingAnyProtocol(s) ==
  LET memory == RecordsOf(s, "memory") # {}
      attempts == RecordsOf(s, "task_outcome") # {}
      serving == RecordsOf(s, "serving_performance") # {}
  IN  IF ~memory THEN FullScope
      ELSE [boot |-> ~(attempts /\ serving), task |-> ~attempts, serving |-> ~serving]

Missing(s) ==
  LET memory == RecordsOf(s, "memory") # {}
      attempts == AttemptsUnder(s, protocol) # {}
      serving == RecordsOf(s, "serving_performance") # {}
  IN  IF ~memory THEN FullScope
      ELSE [boot |-> ~(attempts /\ serving), task |-> ~attempts, serving |-> ~serving]

-----------------------------------------------------------------------------
(* Phase times and their costs *)

Span(from, to) == IF from # 0 /\ to # 0 THEN to - from ELSE 0
TaskTime(t) == Span(t.taskStart, t.taskEnd)
ServingTime(t) == Span(t.servingStart, t.servingEnd)
BootTime(t) == t.clock - TaskTime(t) - ServingTime(t)

(* attribute_costs *)
BootCost(t, attempts) ==
  Parts * (BootTime(t) + (IF attempts = 0 THEN TaskTime(t) ELSE 0))
PerAttempt(t, attempts) == IF attempts = 0 THEN 0 ELSE (Parts * TaskTime(t)) \div attempts
ServingCost(t) == Parts * ServingTime(t)

(* A phase that an error interrupted ends at the teardown.                  *)
CloseOpenPhases(t) ==
  [t EXCEPT !.taskEnd = IF t.taskStart # 0 /\ @ = 0 THEN t.clock ELSE @,
            !.servingEnd = IF t.servingStart # 0 /\ @ = 0 THEN t.clock ELSE @]

-----------------------------------------------------------------------------
(* The records of one execution *)

FinalReport(t) == (t.healthy /\ t.report) \/ t.logTail # "none"
BootReports(t) == Len(t.failed) + (IF FinalReport(t) THEN 1 ELSE 0)

(* Mutated form: an interrupted serving run is paid by nobody.              *)
BootPoolOnly(t) == BootCost(t, Cardinality(t.scored))

(* Paid time without a record of its own is carried by the boot reports.    *)
BootPool(t) ==
  BootCost(t, Cardinality(t.scored)) + (IF t.bench = "none" THEN ServingCost(t) ELSE 0)

BootShare(t) == IF BootReports(t) = 0 THEN 0 ELSE BootPool(t) \div BootReports(t)

FailedBoots(t) ==
  {BootRecord(t.sol, t.exec, t.failed[i], BootShare(t)) : i \in DOMAIN t.failed}

LastBoot(t) ==
  IF t.healthy /\ t.report THEN {MemoryRecord(t.sol, t.exec, BootShare(t))}
  ELSE IF t.logTail # "none"
       THEN {BootRecord(t.sol, t.exec, [tag |-> "model", log |-> t.logTail], BootShare(t))}
       ELSE {}

Attempts(t, retry) ==
  {AttemptRecord(t.sol, t.exec, a, protocol, 0, PerAttempt(t, Cardinality(t.scored))) :
     a \in {b \in t.scored : b.retry = retry}}

ServingReports(t) ==
  IF t.bench = "none" THEN {} ELSE {ServingRecord(t.sol, t.exec, t.bench, ServingCost(t))}

(* Mutated form: the attempts are stored before the boot they belong to.    *)
AttemptsFirst(t) ==
  <<Attempts(t, 0), Attempts(t, 1), FailedBoots(t), LastBoot(t), ServingReports(t)>>

StoreOrder(t) ==
  <<FailedBoots(t), LastBoot(t), Attempts(t, 0), Attempts(t, 1), ServingReports(t)>>

-----------------------------------------------------------------------------
(* No solution in execution. *)
Idle ==
  [sol |-> CHOOSE s \in Solution : TRUE, scope |-> FullScope, exec |-> 0, tries |-> 0,
   boot |-> 0, failed |-> <<>>, healthy |-> FALSE, report |-> FALSE, logTail |-> "none",
   scored |-> {}, bench |-> "none", error |-> "none", leaked |-> FALSE, clock |-> 0,
   taskStart |-> 0, taskEnd |-> 0, servingStart |-> 0, servingEnd |-> 0]

NoResult ==
  [executed |-> {}, skipped |-> {}, complete |-> {}, errors |-> {}, stopped |-> FALSE]

Init ==
  /\ store = {} /\ manifest = {} /\ protocol = 1 /\ torn = FALSE
  /\ pc = "down" /\ repeat = FALSE /\ todo = <<>> /\ x = Idle /\ writes = <<>>
  /\ result = NoResult /\ row = 0
  /\ executions = 0 /\ cut = {} /\ repeated = FALSE /\ leakyTokens = {} /\ leakSeen = FALSE
  /\ lapsed = {} /\ launches = 0 /\ faults = 0

(* Every failure and death counts against the bound; a retry that fails     *)
(* again is the same failure.                                               *)
Fault == faults < MaxFaults /\ faults' = faults + 1

-----------------------------------------------------------------------------
(* Starting, dying, ending *)

Launch ==
  /\ pc = "down" /\ launches < MaxLaunches
  /\ launches' = launches + 1
  /\ repeat' \in (IF RepeatAllowed /\ store # {} THEN BOOLEAN ELSE {FALSE})
  /\ repeated' = (repeated \/ repeat')
  /\ todo' = Plans /\ result' = NoResult /\ row' = 0 /\ leakSeen' = FALSE
  /\ pc' = "loop"
  /\ UNCHANGED <<files, x, writes, executions, cut, leakyTokens, lapsed, faults>>

(* The solutions a re-scoring has new attempts of and no manifest entry yet. *)
Unnamed ==
  CASE pc = "rescoring" -> result.executed
    [] pc = "rescoreStore" -> result.executed \cup {x.sol}
    [] OTHER -> {}

(* A kill, at any step: memory is lost, files stay.  A record is written in *)
(* place, so the one being written may be left torn.                        *)
Crash ==
  /\ pc # "down" /\ Fault
  /\ cut' = IF pc \in {"store", "rescoreStore"} THEN cut \cup {x.sol} ELSE cut
  /\ lapsed' = lapsed \cup {<<s, protocol>> : s \in Unnamed}
  /\ torn' \in IF pc \in {"claim", "store", "rescoreStore"} THEN {torn, TRUE} ELSE {torn}
  /\ pc' = "down"
  /\ todo' = <<>> /\ x' = Idle /\ writes' = <<>> /\ result' = NoResult /\ row' = 0
  /\ repeat' = FALSE /\ leakSeen' = FALSE
  /\ UNCHANGED <<store, manifest, protocol, executions, repeated, leakyTokens, launches>>

(* close_pool, however the loop ended; a pod it cannot terminate is         *)
(* reported as the reason of the stop.                                      *)
ClosePool ==
  /\ pc = "closing"
  /\ \/ UNCHANGED <<result, faults>>
     \/ Fault /\ result' = [result EXCEPT !.stopped = TRUE]
  /\ pc' = "exit"
  /\ UNCHANGED <<files, repeat, todo, x, writes, row, executions, cut, repeated, leakyTokens,
                 leakSeen, lapsed, launches>>

Exit ==
  /\ pc \in {"exit", "rescored"}
  /\ pc' = "down"
  /\ todo' = <<>> /\ x' = Idle /\ writes' = <<>> /\ result' = NoResult /\ row' = 0
  /\ repeat' = FALSE /\ leakSeen' = FALSE
  /\ UNCHANGED <<files, executions, cut, repeated, leakyTokens, lapsed, launches, faults>>

-----------------------------------------------------------------------------
(* _run_plans up to the execution *)

(* recorded_evidence parses every record of the store; one that does not    *)
(* parse ends the run with an exception.                                    *)
IndexFails ==
  /\ pc = "loop" /\ todo # <<>> /\ torn
  /\ result' = [result EXCEPT !.stopped = TRUE]
  /\ pc' = "closing"
  /\ UNCHANGED <<files, repeat, todo, x, writes, row, history>>

(* Mutated form: a solution stays in the loop.                              *)
RecordIdentityAgain ==
  /\ pc = "loop" /\ todo # <<>> /\ ~torn
  /\ manifest' = manifest \cup {<<Head(todo), protocol>>}
  /\ x' = [Idle EXCEPT !.sol = Head(todo)]
  /\ pc' = "claim"
  /\ UNCHANGED <<store, protocol, torn, repeat, todo, writes, result, row, history>>

(* record_identity, before anything of the solution is stored.              *)
RecordIdentity ==
  /\ pc = "loop" /\ todo # <<>> /\ ~torn
  /\ manifest' = manifest \cup {<<Head(todo), protocol>>}
  /\ todo' = Tail(todo)
  /\ x' = [Idle EXCEPT !.sol = Head(todo)]
  /\ pc' = "claim"
  /\ UNCHANGED <<store, protocol, torn, repeat, writes, result, row, history>>

(* A solution that is not planned ends with its claim.                      *)
PredictionError ==
  /\ pc = "claim" /\ x.sol \notin Planned
  /\ store' = store \cup {ClaimRecord(x.sol)}
  /\ result' = [result EXCEPT !.errors = @ \cup {x.sol}]
  /\ pc' = "loop"
  /\ UNCHANGED <<manifest, protocol, torn, repeat, todo, x, writes, row, history>>

(* store_claim_once, then what is missing; a complete solution is skipped.  *)
AlreadyMeasured ==
  /\ pc = "claim" /\ x.sol \in Planned
  /\ ~repeat /\ ~Missing(x.sol).boot
  /\ store' = store \cup {ClaimRecord(x.sol)}
  /\ result' = [result EXCEPT !.complete = @ \cup {x.sol}]
  /\ pc' = "loop"
  /\ UNCHANGED <<manifest, protocol, torn, repeat, todo, x, writes, row, history>>

(* Too dear for the remaining budget.                                       *)
CannotAfford ==
  /\ pc = "claim" /\ x.sol \in Planned
  /\ repeat \/ Missing(x.sol).boot
  /\ store' = store \cup {ClaimRecord(x.sol)}
  /\ result' = [result EXCEPT !.skipped = @ \cup {x.sol}]
  /\ pc' = "loop"
  /\ UNCHANGED <<manifest, protocol, torn, repeat, todo, x, writes, row, history>>

ToExecute ==
  /\ pc = "claim" /\ x.sol \in Planned
  /\ repeat \/ Missing(x.sol).boot
  /\ store' = store \cup {ClaimRecord(x.sol)}
  /\ x' = [x EXCEPT !.scope = IF repeat THEN FullScope ELSE Missing(x.sol)]
  /\ pc' = "capacity"
  /\ UNCHANGED <<manifest, protocol, torn, repeat, todo, writes, result, row, history>>

(* The wait for stock gave up.                                              *)
NoCapacity ==
  /\ pc = "capacity" /\ Fault
  /\ result' = [result EXCEPT !.skipped = @ \cup {x.sol}]
  /\ pc' = "iterationEnd"
  /\ UNCHANGED <<files, repeat, todo, x, writes, row, executions, cut, repeated, leakyTokens,
                 leakSeen, lapsed, launches>>

(* Mutated form: the executions of a run share one number.                  *)
BeginUncounted ==
  /\ pc = "capacity" /\ x.sol \in Permitted
  /\ x' = [x EXCEPT !.exec = executions + 1]
  /\ pc' = "provision"
  /\ UNCHANGED <<files, repeat, todo, writes, result, row, history>>

(* execute_solution refuses what the envelope does not allow, else takes    *)
(* the hold, which the budget may refuse; acquire may raise before the try  *)
(* that settles and records.                                                *)
Begin ==
  /\ pc = "capacity"
  /\ \/ /\ x.sol \notin Permitted
        /\ x' = [x EXCEPT !.error = "harness"]
        /\ pc' = "dispatch" /\ UNCHANGED <<executions, faults>>
     \/ /\ x.sol \in Permitted /\ Fault
        /\ \E e \in {"unexpected", "stop"} : x' = [x EXCEPT !.error = e]
        /\ pc' = "dispatch" /\ UNCHANGED executions
     \/ /\ x.sol \in Permitted /\ executions < MaxExecutions
        /\ x' = [x EXCEPT !.exec = executions + 1]
        /\ pc' = "provision" /\ executions' = executions + 1 /\ UNCHANGED faults
     \/ /\ x.sol \in Permitted /\ executions = MaxExecutions
        /\ x' = [x EXCEPT !.error = "stop"]
        /\ pc' = "dispatch" /\ UNCHANGED <<executions, faults>>
  /\ UNCHANGED <<files, repeat, todo, writes, result, row, cut, repeated, leakyTokens,
                 leakSeen, lapsed, launches>>

-----------------------------------------------------------------------------
(* The measurements of execute_solution: one action per step of the try.    *)

Tick(t) == [t EXCEPT !.clock = @ + 1]

FailedBoot(t, tag, log) == [t EXCEPT !.failed = Append(@, [tag |-> tag, log |-> log])]

(* The except clause: whatever was raised becomes a failed boot.            *)
Raised(t, e) == [FailedBoot(t, "exception", e) EXCEPT !.error = e]

Goto(label) ==
  /\ pc' = label
  /\ UNCHANGED <<files, repeat, todo, writes, result, row, executions, cut, repeated,
                 leakSeen, lapsed, launches>>

Step(here, t, next) == pc = here /\ x' = t /\ Goto(next) /\ UNCHANGED <<leakyTokens, faults>>
Fails(here, t, next) == pc = here /\ x' = t /\ Goto(next) /\ UNCHANGED leakyTokens /\ Fault
FailsAgain(here, t, next, again) ==
  IF again THEN Step(here, t, next) ELSE Fails(here, t, next)

Provision ==
  \/ Step("provision", Tick(x), "boot")
  \/ \E e \in FailureKinds : Fails("provision", Raised(Tick(x), e), "teardown")
  \/ FailsAgain("provision", Raised(Tick(x), "capacity"), "teardown", x.tries > 0)

(* A GPU that is not clean, a failed download and an engine that died of    *)
(* the harness are tried once more.                                         *)
BootHarnessFailure ==
  \E tag \in {"unclean", "harness"}, log \in Log :
    LET failed == FailedBoot(Tick([x EXCEPT !.boot = @ + 1]), tag, log)
    IN  FailsAgain("boot", failed, IF failed.boot < BootAttempts THEN "boot" ELSE "teardown",
                   x.boot > 0)

(* A model failure is not retried; an engine that died before it logged     *)
(* anything leaves an empty log.                                            *)
BootModelFailure ==
  \E log \in Log \cup {"none"} : Fails("boot", [Tick(x) EXCEPT !.logTail = log], "teardown")

BootHealthy == Step("boot", [Tick(x) EXCEPT !.healthy = TRUE], "verify")

BootRaises == \E e \in FailureKinds : Fails("boot", Raised(Tick(x), e), "teardown")

(* Mutated form: the boot stays healthy and is read like any other.         *)
TokenLeaksLate ==
  /\ pc = "verify" /\ Fault
  /\ x' = [FailedBoot(x, "exception", "leak") EXCEPT !.error = "stop", !.report = TRUE]
  /\ leakyTokens' = leakyTokens \cup {x.exec}
  /\ Goto("teardown")

(* The token check failed: nothing from this pod is evidence.               *)
TokenLeaks ==
  /\ pc = "verify" /\ Fault
  /\ x' = [FailedBoot(x, "exception", "leak") EXCEPT !.error = "stop", !.healthy = FALSE]
  /\ leakyTokens' = leakyTokens \cup {x.exec}
  /\ Goto("teardown")

Verify ==
  \/ Step("verify", [x EXCEPT !.report = TRUE, !.taskStart = x.clock], "tasks")
  \/ \E e \in FailureKinds : Fails("verify", Raised(x, e), "teardown")

Scored(case, retry, outcome) == [case |-> case, retry |-> retry, outcome |-> outcome]

(* Mutated form: every case is sent twice.                                  *)
RetryAll(first) == DOMAIN first

FailedIn(first) == {c \in DOMAIN first : first[c] = "failed"}

(* Mutated form: the retries are not kept.                                  *)
SuiteFirstRound(first, second) == {Scored(c, 0, first[c]) : c \in DOMAIN first}

(* _run_task_suite: both attempts of a case whose request failed.           *)
Suite(first, second) ==
  {Scored(c, 0, first[c]) : c \in DOMAIN first}
  \cup {Scored(c, 1, second[c]) : c \in FailedIn(first)}

(* A check the plan does not serve is skipped, by what the plan says.        *)
FirstRound(s) ==
  {first \in [SuiteOf[s] -> Outcome \cup {"skipped"}] :
     \A c \in SuiteOf[s] : first[c] = "skipped" <=> c \in Unserved[s]}

(* The results are handed over when the whole suite is through; the engine  *)
(* log is fetched after a failed request.                                   *)
Tasks ==
  LET Ended(t) == [t EXCEPT !.taskEnd = t.clock]
      Handed(t, scored) ==
        \/ Step("tasks", Ended([t EXCEPT !.scored = scored]), "serving")
        \/ /\ \E a \in scored : a.outcome = "failed"
           /\ \E e \in FailureKinds :
                Fails("tasks", Raised([t EXCEPT !.scored = scored], e), "teardown")
  IN  \/ ~x.scope.task /\ Step("tasks", Ended(x), "serving")
      \/ /\ x.scope.task /\ x.sol \notin Chat
         /\ Handed(x, {Scored(c, 0, "failed") : c \in SuiteOf[x.sol]})
      \/ /\ x.scope.task /\ x.sol \in Chat
         /\ \/ \E first \in FirstRound(x.sol) : \E second \in [FailedIn(first) -> Outcome] :
                 Handed(Tick(x), Suite(first, second))
            \/ \E e \in FailureKinds : Fails("tasks", Raised(Tick(x), e), "teardown")

Serving ==
  LET started == Tick([x EXCEPT !.servingStart = x.clock])
  IN  IF x.scope.serving /\ DeclaresServing
      THEN \/ \E verdict \in SloVerdict :
                Step("serving", [started EXCEPT !.bench = verdict, !.servingEnd = started.clock],
                     "teardown")
           \/ \E e \in FailureKinds : Fails("serving", Raised(started, e), "teardown")
      ELSE Step("serving", x, "teardown")

(* The pod is parked, torn down, or left running because it could not be    *)
(* terminated.                                                              *)
DropsPod(t) == t.error # "none" \/ \E i \in DOMAIN t.failed : t.failed[i].tag # "harness"

Teardown ==
  /\ pc = "teardown" /\ pc' = "settle"
  /\ \/ ~DropsPod(x) /\ x' = CloseOpenPhases(x) /\ UNCHANGED <<leakSeen, faults>>
     \/ x' = CloseOpenPhases(Tick(x)) /\ UNCHANGED <<leakSeen, faults>>
     \/ /\ Fault
        /\ x' = CloseOpenPhases(Tick([FailedBoot(x, "leak", "leak") EXCEPT !.leaked = TRUE]))
        /\ leakSeen' = TRUE
     \/ /\ Fault
        /\ x' = CloseOpenPhases(Tick([FailedBoot(x, "teardown", "error")
                  EXCEPT !.error = IF @ = "none" THEN "unexpected" ELSE @]))
        /\ UNCHANGED leakSeen
  /\ UNCHANGED <<files, repeat, todo, writes, result, row, executions, cut, repeated,
                 leakyTokens, lapsed, launches>>

-----------------------------------------------------------------------------
(* settle, then _store_outcome                                              *)

(* What the loop still looks at when the records have been built.           *)
Handled(t) ==
  [Idle EXCEPT !.sol = t.sol, !.scope = t.scope, !.tries = t.tries, !.error = t.error,
               !.leaked = t.leaked]

(* A settle past the authorized total raises before anything is stored.     *)
SettleRaises == Fails("settle", [Handled(x) EXCEPT !.error = "stop"], "dispatch")

Settle ==
  /\ pc = "settle"
  /\ writes' = StoreOrder(x)
  /\ x' = Handled(x)
  /\ pc' = "store"
  /\ UNCHANGED <<files, repeat, todo, result, row, history>>

Written == \A i \in DOMAIN writes : writes[i] = {}

(* One file per record, written in place, batch by batch.                   *)
StoreNext ==
  /\ pc \in {"store", "rescoreStore"}
  /\ \E i \in DOMAIN writes : \E r \in writes[i] :
       /\ \A j \in 1..(i - 1) : writes[j] = {}
       /\ store' = store \cup {r}
       /\ writes' = [writes EXCEPT ![i] = @ \ {r}]
  /\ UNCHANGED <<manifest, protocol, torn, pc, repeat, todo, x, result, row, history>>

(* A record that fails validation is refused: the error takes the place of  *)
(* whatever the execution raised, its leaked pod included.                  *)
InvalidRecord ==
  /\ pc = "store" /\ ~Written /\ Fault
  /\ cut' = cut \cup {x.sol}
  /\ leakSeen' = FALSE
  /\ x' = [x EXCEPT !.error = "unexpected", !.leaked = FALSE]
  /\ writes' = <<>>
  /\ pc' = "dispatch"
  /\ UNCHANGED <<files, repeat, todo, result, row, executions, repeated, leakyTokens,
                 lapsed, launches>>

(* Mutated form: a leaked pod is recorded and no more.                      *)
StoreDoneKeepsError ==
  /\ pc = "store" /\ Written
  /\ writes' = <<>>
  /\ pc' = "dispatch"
  /\ UNCHANGED <<files, repeat, todo, x, result, row, history>>

(* Every record is down; a leaked pod is raised before the error.           *)
StoreDone ==
  /\ pc = "store" /\ Written
  /\ writes' = <<>>
  /\ x' = [x EXCEPT !.error = IF x.leaked THEN "stop" ELSE @, !.leaked = FALSE]
  /\ pc' = "dispatch"
  /\ UNCHANGED <<files, repeat, todo, result, row, history>>

-----------------------------------------------------------------------------
(* _run_plans: what each kind of end means for the run                      *)

Ends(error, newResult, newRow, next) ==
  /\ pc = "dispatch" /\ x.error = error
  /\ result' = newResult /\ row' = newRow /\ pc' = next
  /\ UNCHANGED <<files, repeat, todo, x, writes, history>>

Skipped == [result EXCEPT !.skipped = @ \cup {x.sol}]
Stopped == [result EXCEPT !.stopped = TRUE]

(* Mutated form: an earlier refusal stays in the skipped.                   *)
ExecutedStillSkipped ==
  Ends("none", [result EXCEPT !.executed = @ \cup {x.sol}], 0, "iterationEnd")

Executed ==
  Ends("none", [result EXCEPT !.executed = @ \cup {x.sol}, !.skipped = @ \ {x.sol}], 0,
       "iterationEnd")

StopsRun == Ends("stop", Stopped, row, "iterationEnd")

(* Ctrl-C leaves run_cohort by its finally, without a result.               *)
Interrupted == Ends("interrupt", Stopped, row, "closing")

HarnessFailure == Ends("harness", Skipped, row, "iterationEnd")

UnexpectedFailure ==
  Ends("unexpected",
       [Skipped EXCEPT !.stopped = @ \/ row + 1 >= MaxUnexpectedInARow], row + 1,
       "iterationEnd")

(* Refused for capacity: wait again, CapacityAttempts times in all.         *)
CapacityRefused ==
  /\ pc = "dispatch" /\ x.error = "capacity"
  /\ result' = Skipped
  /\ x' = [Idle EXCEPT !.sol = x.sol, !.scope = x.scope, !.tries = x.tries + 1]
  /\ pc' = IF x.tries + 1 < CapacityAttempts THEN "capacity" ELSE "iterationEnd"
  /\ UNCHANGED <<files, repeat, todo, writes, row, history>>

(* A stop, a pod lost while switching executions or a cost overrun ends the *)
(* loop.                                                                    *)
IterationEnd ==
  /\ pc = "iterationEnd"
  /\ x' = Idle
  /\ \/ ~result.stopped /\ pc' = "loop" /\ UNCHANGED <<result, faults>>
     \/ result.stopped /\ pc' = "closing" /\ UNCHANGED <<result, faults>>
     \/ ~result.stopped /\ Fault /\ result' = Stopped /\ pc' = "closing"
  /\ UNCHANGED <<files, repeat, todo, writes, row, executions, cut, repeated, leakyTokens,
                 leakSeen, lapsed, launches>>

LoopEnd ==
  /\ pc = "loop" /\ todo = <<>>
  /\ pc' = "closing"
  /\ UNCHANGED <<files, repeat, todo, x, writes, result, row, history>>

-----------------------------------------------------------------------------
(* Re-scoring                                                               *)

(* The operator changes the scoring rule the inputs bind; before the first   *)
(* run that would be the rule they start with.                              *)
ChangeProtocol ==
  /\ pc = "down" /\ protocol < MaxProtocol /\ manifest # {}
  /\ protocol' = protocol + 1
  /\ UNCHANGED <<store, manifest, torn, pc, process, history>>

(* The records are loaded first, which a torn one ends.                     *)
LaunchRescore ==
  /\ pc = "down" /\ launches < MaxLaunches
  /\ launches' = launches + 1
  /\ IF torn THEN pc' = "rescored" /\ UNCHANGED todo
     ELSE pc' = "rescoring" /\ todo' = Plans
  /\ UNCHANGED <<files, repeat, x, writes, result, row, executions, cut, repeated,
                 leakyTokens, leakSeen, lapsed, faults>>

(* Mutated form: a solution already scored under the protocol is scored again. *)
RescorableAlways(s) ==
  s \notin Checked /\ RecordsOf(s, "task_outcome") # {} /\ \E p \in 1..MaxProtocol : <<s, p>> \in manifest

(* The script re-scores under the plain suite, and passes over what was     *)
(* measured with another: no observation of a check is judged as text.      *)
Rescorable(s) ==
  /\ s \notin Checked
  /\ RecordsOf(s, "task_outcome") # {}
  /\ \E p \in 1..MaxProtocol : <<s, p>> \in manifest
  /\ AttemptsUnder(s, protocol) = {}

(* A new rule may turn the verdict on an output, a failed request stays     *)
(* failed.                                                                  *)
Judged(a, turned) ==
  IF a \notin turned THEN a.accepted
  ELSE CASE a.accepted = "accepted" -> "rejected"
         [] a.accepted = "rejected" -> "accepted"
         [] OTHER -> a.accepted

Rescored(a, turned) ==
  AttemptRecord(a.sol, a.exec, Scored(a.case, a.retry, Judged(a, turned)), protocol, a.protocol, 0)

(* One new attempt per recorded attempt of the solution, at no cost.        *)
RescoreSolution ==
  /\ pc = "rescoring" /\ todo # <<>>
  /\ todo' = Tail(todo)
  /\ LET s == Head(todo) IN
     IF Rescorable(s)
     THEN /\ \E turned \in SUBSET RecordsOf(s, "task_outcome") :
               writes' = <<{Rescored(a, turned) : a \in RecordsOf(s, "task_outcome")}>>
          /\ x' = [Idle EXCEPT !.sol = s]
          /\ pc' = "rescoreStore"
     ELSE UNCHANGED <<x, writes, pc>>
  /\ UNCHANGED <<files, repeat, result, row, history>>

RescoreStored ==
  /\ pc = "rescoreStore" /\ Written
  /\ writes' = <<>>
  /\ result' = [result EXCEPT !.executed = @ \cup {x.sol}]
  /\ x' = Idle
  /\ pc' = "rescoring"
  /\ UNCHANGED <<files, repeat, todo, row, history>>

(* The manifest entries are appended when every solution is through, one by *)
(* one.                                                                     *)
RescoreNamed ==
  /\ pc = "rescoring" /\ todo = <<>>
  /\ \E s \in result.executed :
       /\ manifest' = manifest \cup {<<s, protocol>>}
       /\ result' = [result EXCEPT !.executed = @ \ {s}]
  /\ UNCHANGED <<store, protocol, torn, pc, repeat, todo, x, writes, row, history>>

RescoreDone ==
  /\ pc = "rescoring" /\ todo = <<>> /\ result.executed = {}
  /\ pc' = "rescored"
  /\ UNCHANGED <<files, process, history>>

-----------------------------------------------------------------------------
(* The start of a pod and the boot of an engine end when they fail, are     *)
(* healthy or fall silent: one that keeps logging has no limit.             *)
Waits == Provision \/ BootHarnessFailure \/ BootModelFailure \/ BootHealthy \/ BootRaises

(* Every other step ends by itself or by its timeout.                       *)
Goes ==
  \/ IndexFails \/ RecordIdentity
  \/ PredictionError \/ AlreadyMeasured \/ CannotAfford \/ ToExecute \/ NoCapacity \/ Begin
  \/ TokenLeaks \/ Verify \/ Tasks \/ Serving \/ Teardown
  \/ SettleRaises \/ Settle \/ StoreNext \/ InvalidRecord \/ StoreDone
  \/ Executed \/ StopsRun \/ Interrupted \/ HarnessFailure \/ UnexpectedFailure
  \/ CapacityRefused \/ IterationEnd \/ LoopEnd \/ ClosePool \/ Exit
  \/ RescoreSolution \/ RescoreStored \/ RescoreNamed
  \/ RescoreDone

Run == Waits \/ Goes

Next == Launch \/ LaunchRescore \/ ChangeProtocol \/ Crash \/ Run

Spec == Init /\ [][Next]_vars /\ WF_vars(Goes)

-----------------------------------------------------------------------------
(* Properties *)

(* Every variable stays in its domain; records name executions that began.  *)
TypeOK ==
  /\ \A r \in store :
       /\ r.sol \in Solution
       /\ r.scope \in {"claim", "boot", "memory", "task_outcome", "serving_performance"}
       /\ r.scope # "claim" => r.exec \in 1..executions /\ r.cost \in Nat
       /\ r.scope = "task_outcome" => r.protocol \in 1..protocol /\ r.origin \in 0..protocol
  /\ manifest \cup lapsed \subseteq Solution \X (1..protocol)
  /\ protocol \in 1..MaxProtocol
  /\ pc \in {"down", "loop", "claim", "capacity", "provision", "boot", "verify", "tasks",
             "serving", "teardown", "settle", "store", "dispatch", "iterationEnd",
             "closing", "exit", "rescoring", "rescoreStore", "rescored"}
  /\ Range(todo) \subseteq Solution
  /\ x.sol \in Solution /\ x.exec \in 0..executions /\ x.tries \in 0..CapacityAttempts
  /\ result.executed \cup result.skipped \cup result.complete \cup result.errors \subseteq Solution
  /\ row \in Nat /\ executions \in 0..MaxExecutions
  /\ faults \in 0..MaxFaults /\ launches \in 0..MaxLaunches

(* Every stored record can be read later, in every state, so also after a    *)
(* death between two writes.  An attempt can be traced: a measured one to    *)
(* the stored memory report of its own boot, a re-scored one to the attempt  *)
(* whose output was judged again (trace_references of build_task_attempt).   *)
(* The manifest holds the objects a record's fingerprints are computed from, *)
(* for an attempt under the very protocol that scored it, and the claim is   *)
(* stored that its predictions are compared with (record_identity and        *)
(* store_claim_once come first).  Re-scoring appends its entries last, so a  *)
(* re-scored attempt may be without one: until they are appended, and for    *)
(* ever when the re-scoring died before its own was.                         *)
Attempt(r) == r.scope = "task_outcome"

Traced(a) ==
  IF a.origin = 0
  THEN \E m \in store : m.scope = "memory" /\ m.sol = a.sol /\ m.exec = a.exec
  ELSE \E b \in store :
         /\ Attempt(b) /\ b.sol = a.sol /\ b.exec = a.exec /\ b.protocol = a.origin
         /\ b.case = a.case /\ b.retry = a.retry

AwaitsEntry(a) ==
  /\ a.origin # 0
  /\ \/ a.protocol = protocol /\ a.sol \in Unnamed
     \/ <<a.sol, a.protocol>> \in lapsed

TraceResolves ==
  \A r \in store :
    /\ \E p \in 1..protocol : <<r.sol, p>> \in manifest
    /\ r.scope # "claim" => ClaimRecord(r.sol) \in store
    /\ Attempt(r) => /\ Traced(r)
                     /\ <<r.sol, r.protocol>> \in manifest \/ AwaitsEntry(r)

(* Without repeat, a solution is measured at most once under one protocol,  *)
(* also when a run or a re-scoring was cut off, and no output is judged     *)
(* twice by one: resume and re-scoring both look at what is stored, and     *)
(* neither adds to it.  Re-scoring of a re-scored attempt is not meant.     *)
FirstHand(a) ==
  a.origin = 0 \/ \E b \in store : /\ Attempt(b) /\ b.sol = a.sol /\ b.exec = a.exec
                                   /\ b.case = a.case /\ b.retry = a.retry
                                   /\ b.protocol = a.origin /\ b.origin = 0

MeasuredOnce ==
  ~repeated =>
    \A a, b \in {r \in store : Attempt(r)} :
      /\ a.sol = b.sol /\ a.protocol = b.protocol /\ a.case = b.case /\ a.retry = b.retry
      /\ a.origin = 0 \/ a.exec = b.exec
      /\ FirstHand(a) /\ FirstHand(b)
      => a = b

(* The records of one execution carry its whole time: provisioning, failed  *)
(* boots, the phases an error interrupted and the teardown.  Not so when    *)
(* two failed boots are the same record, or when the engine died with an    *)
(* empty log and no boot has a record (attribute_costs, _store_outcome).    *)
TwinBoots(t) == \E i, j \in DOMAIN t.failed : i # j /\ t.failed[i] = t.failed[j]

CostsAddUp ==
  pc = "settle" /\ ~TwinBoots(x) /\ BootReports(x) > 0 =>
    LET written == UNION {StoreOrder(x)[i] : i \in DOMAIN StoreOrder(x)}
    IN  SumFunction([r \in written |-> r.cost]) = Parts * x.clock

(* A token in the engine's environment voids the whole pod: the failed boot *)
(* is the only record of such an execution (INV-13).                        *)
NothingFromLeakyPod ==
  \A r \in store : r.scope # "claim" /\ r.exec \in leakyTokens => r.scope = "boot"

(* A run that was not stopped says of every solution exactly one thing, a   *)
(* creation refused twice and measured at the third try included.           *)
EverySolutionAccounted ==
  pc = "exit" /\ ~result.stopped =>
    /\ result.executed \cup result.skipped \cup result.complete \cup result.errors = Solution
    /\ Cardinality(result.executed) + Cardinality(result.skipped)
         + Cardinality(result.complete) + Cardinality(result.errors) = Cardinality(Solution)

(* A solution skipped as already measured has its memory report, a verdict  *)
(* for every case under the protocol in force, the retry of every request   *)
(* that failed, and a serving report.  A death or an invalid record in the  *)
(* middle of its storing is the exception: what was stored counts as        *)
(* complete for ever.                                                       *)
SkippedIsMeasured ==
  \A s \in result.complete \ cut :
    LET verdicts == AttemptsUnder(s, protocol)
    IN  /\ \E r \in store : r.sol = s /\ r.scope = "memory"
        /\ \E r \in store : r.sol = s /\ r.scope = "serving_performance"
        /\ \A c \in SuiteOf[s] :
             /\ \E a \in verdicts : a.case = c /\ a.retry = 0
             /\ s \in Chat => \A a \in verdicts :
                  a.case = c /\ a.retry = 0 /\ a.accepted = "failed" =>
                    \E b \in verdicts : b.case = c /\ b.retry = 1 /\ b.exec = a.exec

(* After a pod that could not be terminated the run rents nothing more: it  *)
(* stores what it has and ends.  (A record refused as invalid meanwhile     *)
(* takes the leak's place, and is left out here.)                           *)
LeakStopsRun ==
  leakSeen => pc \in {"settle", "store", "dispatch", "iterationEnd", "closing", "exit"}

(* A run that is started ends, whatever fails in it, unless the start of a  *)
(* pod or a boot never does (the wait is on progress, cohort.py says, and   *)
(* has no limit of its own): capacity waits, boot retries, candidate        *)
(* failures and re-scorings are bounded.                                    *)
RunEnds == []<>(pc = "down") \/ <>[](pc \in {"provision", "boot"})
=============================================================================
