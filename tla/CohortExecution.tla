--------------------------- MODULE CohortExecution ---------------------------
(***************************************************************************)
(* One orchestrator process that rents pods and pays for them: the run     *)
(* loop of cohort.py around execute_solution, the TargetPool (pods.py),    *)
(* the RunPodTarget it provisions and tears down (adapters/backends/       *)
(* runpod.py), and the BudgetTracker they append to.                       *)
(*                                                                         *)
(* A step is one durable or visible effect: one ledger append, one         *)
(* provider call, one wait.  Between any two of them the process may be    *)
(* killed (Crash), and the next start sweeps orphaned pods and replays the *)
(* ledger.  What a candidate measures is left out, and the loop may pick   *)
(* any candidate next.                                                     *)
(*                                                                         *)
(* Time is counted in ticks while the process waits; a billing pod costs   *)
(* one unit per tick, so costs are exact and can be compared with bills.   *)
(***************************************************************************)
EXTENDS BudgetTracker, FiniteSets

CONSTANTS
  Solution,       \* the candidates
  Execution,      \* requested executions: provider, GPU, count, cloud, image
  NoSolution,
  NoExecution,
  ExecOf,         \* the execution each candidate requests
  Estimate,       \* what is held for each candidate
  IdleEstimate,   \* IDLE_HOLD_MINUTES at the hourly rate
  HourlyRate,     \* the estimate of an open-ended hold
  StartAttempts,  \* pods rented for one start before PodStartError
  MaxTicks,       \* bound: ticks of waiting in a behaviour
  MaxLaunches,    \* bound: processes started
  MaxTries        \* bound: times each candidate is executed

RunLabel(s) == <<"run", s>>
IdleLabel(p) == <<"pod-idle", p>>
LeakLabel(p) == <<"leak", p>>

ASSUME LabelAssumption ==
  Label = {RunLabel(s) : s \in Solution} \cup {IdleLabel(p) : p \in Pod}
            \cup {LeakLabel(p) : p \in Pod}
ASSUME FiniteAssumption == IsFiniteSet(Solution) /\ IsFiniteSet(Pod)
ASSUME SentinelAssumption == NoSolution \notin Solution /\ NoExecution \notin Execution
ASSUME PlanAssumption ==
  /\ ExecOf \in [Solution -> Execution]
  /\ Estimate \in [Solution -> Nat]
  /\ IdleEstimate \in Nat /\ HourlyRate \in Nat
  /\ StartAttempts \in Nat /\ MaxTicks \in Nat /\ MaxLaunches \in Nat
  /\ MaxTries \in [Solution -> Nat]

VARIABLES
  (* The provider *)
  pods,         \* "fresh", "billing" or "gone", per pod
  bill,         \* ticks billed, per pod
  (* The process: the run loop *)
  pc,           \* the step it is at; "down" when no process runs
  after,        \* the step that follows the recording of leaks
  stopped,      \* result.stopped is set
  leaks,        \* leaked pods whose open-ended hold is still to be written
  (* The process: execute_solution *)
  sp,           \* the candidate in execution
  target,       \* target.pod_id
  reused,       \* the pod came from the pool
  starts,       \* start_attempts left for their logs: pod and seconds
  unspent,      \* those not yet charged by record_pod_spend
  abandoned,    \* the amount those charged add up to
  elapsed,      \* ticks since timing.provision_start
  leaked,       \* the pod of the PodLeakError the final teardown raised
  error,        \* what the loop does with the candidate's error, if it raised one
  (* The process: TargetPool *)
  slot,         \* the parked pod
  slotKey,      \* the execution it is parked for
  idle,         \* ticks since slot.idle_since
  closing,      \* the pod being closed
  closedLeaks,  \* pool.closed entries that carry a PodLeakError
  guard,        \* pods whose atexit teardown guard is registered
  (* Files other than the ledger *)
  leakLog,      \* leaked_pods.json
  (* History and bounds *)
  orphans,      \* pods left billing with no process that knows them
  paid,         \* how often each pod was charged as abandoned
  estimated,    \* a replay settled some hold at its estimate
  unlisted,     \* pods let go by a teardown whose leak record failed
  ticks, launches, tries

providerVars == <<pods, bill>>
loopVars == <<after, stopped, leaks>>
solutionVars == <<sp, target, reused, starts, unspent, abandoned, elapsed, leaked, error>>
poolVars == <<slot, slotKey, idle, closing, closedLeaks>>
boundVars == <<ticks, launches, tries>>
historyVars == <<orphans, paid, estimated, unlisted>>
vars == <<budgetVars, providerVars, pc, loopVars, solutionVars, poolVars, guard, leakLog,
          historyVars, boundVars>>

Billing == {p \in Pod : pods[p] = "billing"}

Init ==
  /\ BudgetInit
  /\ pods = [p \in Pod |-> "fresh"]
  /\ bill = [p \in Pod |-> 0]
  /\ pc = "down" /\ after = "loop" /\ stopped = FALSE /\ leaks = {}
  /\ sp = NoSolution /\ target = NoPod /\ reused = FALSE
  /\ starts = {} /\ unspent = {} /\ abandoned = 0 /\ elapsed = 0
  /\ leaked = NoPod /\ error = "none"
  /\ slot = NoPod /\ slotKey = NoExecution /\ idle = 0 /\ closing = NoPod /\ closedLeaks = {}
  /\ guard = {} /\ leakLog = {} /\ orphans = {} /\ paid = [p \in Pod |-> 0]
  /\ estimated = FALSE /\ unlisted = {}
  /\ ticks = 0 /\ launches = 0 /\ tries = [s \in Solution |-> 0]

-----------------------------------------------------------------------------
(* RunPodTarget.teardown of a live pod: terminated; or, after every attempt *)
(* failed (the pod bills on, or the answers were lost), listed as leaked;   *)
(* or, when leaked_pods.json cannot be read or written either, left by an   *)
(* ordinary exception.  The guard is unregistered in the first two.         *)

Terminated(p) ==
  /\ pods' = [pods EXCEPT ![p] = "gone"]
  /\ guard' = guard \ {p}
  /\ UNCHANGED <<bill, leakLog>>

(* Mutated form: nothing is written to leaked_pods.json.                    *)
NotTerminatedUnlisted(p) ==
  /\ pods' \in {pods, [pods EXCEPT ![p] = "gone"]}
  /\ guard' = guard \ {p}
  /\ UNCHANGED <<bill, leakLog>>

NotTerminated(p) ==
  /\ pods' \in {pods, [pods EXCEPT ![p] = "gone"]}
  /\ guard' = guard \ {p}
  /\ leakLog' = leakLog \cup {p}
  /\ UNCHANGED bill

NotRecorded(p) ==
  /\ pods' \in {pods, [pods EXCEPT ![p] = "gone"]}
  /\ UNCHANGED <<bill, guard, leakLog>>

-----------------------------------------------------------------------------
(* Starting, dying and waiting *)

(* build_ports: the sweep of pods whose uptime reached an hour (any set of  *)
(* the billing ones), then the replay.                                      *)
Launch ==
  /\ pc = "down" /\ launches < MaxLaunches
  /\ launches' = launches + 1
  /\ \E old \in SUBSET Billing : \E swept \in SUBSET old :
       /\ pods' = [p \in Pod |-> IF p \in swept THEN "gone" ELSE pods[p]]
       /\ orphans' = orphans \ swept
       /\ leakLog' = leakLog \cup (old \ swept)
  /\ pc' = "replay"
  /\ UNCHANGED <<budgetVars, bill, loopVars, solutionVars, poolVars, guard, paid, estimated,
                 unlisted, ticks, tries>>

(* An open hold is settled at what the provider reports for its pod, the    *)
(* pod's whole bill, or at its estimate when the provider does not answer.  *)
ReplayOpenHold(l) ==
  /\ pc = "replay"
  /\ \/ ReplaySettle(l, holds[l].estimate) /\ estimated' = TRUE
     \/ /\ holds[l].pod \in Pod
        /\ ReplaySettle(l, bill[holds[l].pod])
        /\ UNCHANGED estimated
  /\ UNCHANGED <<providerVars, pc, loopVars, solutionVars, poolVars, guard, leakLog,
                 orphans, paid, unlisted, boundVars>>

ReplayDone ==
  /\ pc = "replay" /\ OpenLabels = {}
  /\ pc' = "loop"
  /\ UNCHANGED <<budgetVars, providerVars, loopVars, solutionVars, poolVars, guard, leakLog,
                 historyVars, boundVars>>

(* The process's memory goes; the ledger, leaked_pods.json and the pods stay. *)
ForgetProcess ==
  /\ pc' = "down" /\ after' = "loop" /\ stopped' = FALSE /\ leaks' = {}
  /\ sp' = NoSolution /\ target' = NoPod /\ reused' = FALSE
  /\ starts' = {} /\ unspent' = {} /\ abandoned' = 0 /\ elapsed' = 0
  /\ leaked' = NoPod /\ error' = "none"
  /\ slot' = NoPod /\ slotKey' = NoExecution /\ idle' = 0 /\ closing' = NoPod
  /\ closedLeaks' = {} /\ guard' = {} /\ overran' = FALSE
  /\ unlisted' = {}

(* A kill: no finally clause and no atexit guard runs.                      *)
Crash ==
  /\ pc # "down"
  /\ ForgetProcess
  /\ orphans' = orphans \cup guard
  /\ UNCHANGED <<spent, holds, providerVars, leakLog, paid, estimated, boundVars>>

(* Interpreter exit: every registered guard terminates its pod once; a      *)
(* failure is only logged.                                                  *)
Exit ==
  /\ pc = "exit"
  /\ ForgetProcess
  /\ \E ended \in SUBSET guard :
       /\ pods' = [p \in Pod |-> IF p \in ended THEN "gone" ELSE pods[p]]
       /\ orphans' = orphans \cup (guard \ ended)
  /\ UNCHANGED <<spent, holds, bill, leakLog, paid, estimated, boundVars>>

(* Time counts while a pod bills and the process waits, or there is none.   *)
Tick ==
  /\ pc \in {"starting", "measure", "loop", "down"} /\ Billing # {} /\ ticks < MaxTicks
  /\ ticks' = ticks + 1
  /\ bill' = [p \in Pod |-> IF pods[p] = "billing" THEN bill[p] + 1 ELSE bill[p]]
  /\ elapsed' = IF pc \in {"starting", "measure"} THEN elapsed + 1 ELSE elapsed
  /\ idle' = IF slot # NoPod THEN idle + 1 ELSE idle
  /\ UNCHANGED <<budgetVars, pods, pc, loopVars, sp, target, reused, starts, unspent, abandoned,
                 leaked, error, slot, slotKey, closing, closedLeaks, guard, leakLog,
                 historyVars, launches, tries>>

-----------------------------------------------------------------------------
(* execute_solution: the hold and the pod *)

(* The next candidate, or, its creation refused for lack of capacity, the   *)
(* same one again after another wait.                                       *)
StartSolution(s) ==
  /\ pc = "loop" \/ (pc = "refused" /\ s = sp)
  /\ tries[s] < MaxTries[s]
  /\ OpenHold(RunLabel(s), Estimate[s])
  /\ pc' = "acquire" /\ sp' = s /\ reused' = FALSE
  /\ tries' = [tries EXCEPT ![s] = @ + 1]
  /\ UNCHANGED <<providerVars, loopVars, target, starts, unspent, abandoned, elapsed, leaked,
                 error, poolVars, guard, leakLog, historyVars, ticks, launches>>

(* An exception that leaves execute_solution before its try or at its       *)
(* settle: BudgetExceededError, on which the loop stops.                    *)
StopOverspent == pc' = "closing" /\ stopped' = TRUE

(* acquire, a pod parked for this execution: its idle time is settled.  The *)
(* slot is already popped when the settle raises.                           *)
AcquireParked ==
  /\ pc = "acquire" /\ slot # NoPod /\ slotKey = ExecOf[sp]
  /\ Settle(IdleLabel(slot), idle)
  /\ slot' = NoPod /\ slotKey' = NoExecution /\ idle' = 0
  /\ \/ /\ Overspent' /\ StopOverspent
        /\ UNCHANGED <<target, reused>>
     \/ /\ ~Overspent'
        /\ pc' = "annotate" /\ target' = slot /\ reused' = TRUE
        /\ UNCHANGED stopped
  /\ UNCHANGED <<providerVars, after, leaks, sp, starts, unspent, abandoned, elapsed, leaked,
                 error, closing, closedLeaks, guard, leakLog, historyVars, boundVars>>

(* Mutated form: the slot is dropped and its pod is not torn down.          *)
CloseSlotForgets(next) ==
  /\ slot # NoPod
  /\ closing' = slot /\ slot' = NoPod /\ slotKey' = NoExecution
  /\ pc' = next
  /\ UNCHANGED <<budgetVars, providerVars, loopVars, solutionVars, idle, closedLeaks, guard,
                 leakLog, historyVars, boundVars>>

(* _close_slot, first half: the parked pod is torn down.  Any exception of  *)
(* the teardown is kept for the caller, which looks for a leak only.        *)
CloseSlot(next) ==
  /\ slot # NoPod
  /\ \/ (Terminated(slot) \/ NotTerminated(slot)) /\ UNCHANGED unlisted
     \/ NotRecorded(slot) /\ unlisted' = unlisted \cup {slot}
  /\ closing' = slot /\ slot' = NoPod /\ slotKey' = NoExecution
  /\ pc' = next
  /\ UNCHANGED <<budgetVars, loopVars, solutionVars, idle, closedLeaks, orphans, paid, estimated,
                 boundVars>>

AcquireClosesOther ==
  /\ pc = "acquire" /\ slotKey # ExecOf[sp]
  /\ CloseSlot("switchSettle")

(* Mutated form: what the switch could not terminate is not passed on.      *)
AcquireAfterCloseDropsError ==
  /\ pc = "switchSettle"
  /\ Settle(IdleLabel(closing), idle)
  /\ idle' = 0 /\ closing' = NoPod /\ starts' = {}
  /\ pc' = "provision"
  /\ UNCHANGED <<providerVars, after, stopped, leaks, sp, target, reused, unspent, abandoned,
                 elapsed, leaked, error, slot, slotKey, closedLeaks, guard, leakLog,
                 historyVars, boundVars>>

(* _close_slot, second half, then the factory.  A raise loses the entry.    *)
AcquireAfterClose ==
  /\ pc = "switchSettle"
  /\ Settle(IdleLabel(closing), idle)
  /\ idle' = 0 /\ closing' = NoPod
  /\ \/ /\ Overspent' /\ StopOverspent
        /\ UNCHANGED <<closedLeaks, starts>>
     \/ /\ ~Overspent'
        /\ closedLeaks' = closedLeaks \cup ({closing} \cap leakLog)
        /\ pc' = "provision" /\ starts' = {}
        /\ UNCHANGED stopped
  /\ UNCHANGED <<providerVars, after, leaks, sp, target, reused, unspent, abandoned, elapsed,
                 leaked, error, slot, slotKey, guard, leakLog, historyVars, boundVars>>

(* Mutated form: a parked pod for another execution does not matter.        *)
AcquireNewAnyway ==
  /\ pc = "acquire" /\ slotKey # ExecOf[sp]
  /\ pc' = "provision" /\ starts' = {}
  /\ UNCHANGED <<budgetVars, providerVars, loopVars, sp, target, reused, unspent, abandoned,
                 elapsed, leaked, error, poolVars, guard, leakLog, historyVars, boundVars>>

AcquireNew ==
  /\ pc = "acquire" /\ slot = NoPod
  /\ pc' = "provision" /\ starts' = {}
  /\ UNCHANGED <<budgetVars, providerVars, loopVars, sp, target, reused, unspent, abandoned,
                 elapsed, leaked, error, poolVars, guard, leakLog, historyVars, boundVars>>

-----------------------------------------------------------------------------
(* RunPodTarget.provision *)

CreatePod(p) ==
  /\ pc = "provision" /\ pods[p] = "fresh" /\ Cardinality(starts) < StartAttempts
  /\ pods' = [pods EXCEPT ![p] = "billing"]
  /\ target' = p /\ guard' = guard \cup {p}
  /\ pc' = "starting"
  /\ UNCHANGED <<budgetVars, bill, loopVars, sp, reused, starts, unspent, abandoned, elapsed,
                 leaked, error, poolVars, leakLog, historyVars, boundVars>>

(* create_pod raises, or every attempt was abandoned (PodStartError).  Only  *)
(* a creation refused for lack of capacity is tried again; the second       *)
(* unexpected failure in a row stops the run.                               *)
CreateFails ==
  /\ pc = "provision"
  /\ pc' = "teardown"
  /\ error' \in {"none", "stop"} \cup
       (IF Cardinality(starts) < StartAttempts THEN {"refused"} ELSE {})
  /\ UNCHANGED <<budgetVars, providerVars, loopVars, sp, target, reused, starts, unspent,
                 abandoned, elapsed, leaked, poolVars, guard, leakLog, historyVars, boundVars>>

(* The provider rented the pod; its answer did not arrive.                  *)
CreateAnswerLost(p) ==
  /\ pc = "provision" /\ pods[p] = "fresh" /\ Cardinality(starts) < StartAttempts
  /\ pods' = [pods EXCEPT ![p] = "billing"]
  /\ orphans' = orphans \cup {p}
  /\ pc' = "teardown" /\ error' \in {"none", "stop"}
  /\ UNCHANGED <<budgetVars, bill, loopVars, sp, target, reused, starts, unspent, abandoned,
                 elapsed, leaked, poolVars, guard, leakLog, paid, estimated, unlisted,
                 boundVars>>

(* Mutated form: the pod that was abandoned is not torn down.               *)
AbandonStartLeavesPod ==
  /\ pc = "starting"
  /\ starts' = starts \cup {[pod |-> target, seconds |-> bill[target]]}
  /\ target' = NoPod /\ pc' = "provision"
  /\ UNCHANGED <<budgetVars, providerVars, loopVars, sp, reused, unspent, abandoned, elapsed, leaked,
                 error, poolVars, guard, leakLog, historyVars, boundVars>>

(* PodStartAbandoned: its report is kept, the pod is torn down and another  *)
(* is rented; a teardown that fails raises out of provision: PodLeakError,  *)
(* or an exception before the target has forgotten its pod.                 *)
AbandonStart ==
  /\ pc = "starting"
  /\ starts' = starts \cup {[pod |-> target, seconds |-> bill[target]]}
  /\ \/ Terminated(target) /\ target' = NoPod /\ pc' = "provision" /\ UNCHANGED error
     \/ NotTerminated(target) /\ target' = NoPod /\ pc' = "teardown" /\ error' = "stop"
     \/ NotRecorded(target) /\ UNCHANGED target /\ pc' = "teardown" /\ error' \in {"none", "stop"}
  /\ UNCHANGED <<budgetVars, loopVars, sp, reused, unspent, abandoned, elapsed, leaked, poolVars,
                 historyVars, boundVars>>

(* The pod runs and answers SSH; or the wait, the status query or SSH fails. *)
StartEnds ==
  /\ pc = "starting"
  /\ \/ pc' = "annotate" /\ UNCHANGED error
     \/ pc' = "teardown" /\ error' \in {"none", "stop"}
  /\ UNCHANGED <<budgetVars, providerVars, loopVars, sp, target, reused, starts, unspent,
                 abandoned, elapsed, leaked, poolVars, guard, leakLog, historyVars, boundVars>>

AnnotateRun ==
  /\ pc = "annotate"
  /\ AnnotateHold(RunLabel(sp), target)
  /\ pc' = "measure"
  /\ UNCHANGED <<providerVars, loopVars, solutionVars, poolVars, guard, leakLog, historyVars,
                 boundVars>>

(* The measurement ends without an error and without a tag that drops the   *)
(* pod; with one of these; or with a RunStopError or an interrupt.          *)
Measured ==
  /\ pc = "measure"
  /\ \/ pc' = "keep" /\ UNCHANGED error
     \/ pc' = "teardown" /\ error' \in {"none", "stop"}
  /\ UNCHANGED <<budgetVars, providerVars, loopVars, sp, target, reused, starts, unspent,
                 abandoned, elapsed, leaked, poolVars, guard, leakLog, historyVars, boundVars>>

-----------------------------------------------------------------------------
(* execute_solution: the finally clause and the charges *)

ReusedStartsToCharge == starts  \* mutated form

(* What the pod costs beyond the hold's own share is read from              *)
(* start_attempts only when this execution rented the pod.                  *)
StartsToCharge == IF reused THEN {} ELSE starts

(* Mutated form: the pod is parked without a hold.                          *)
KeepParksUnheld ==
  /\ pc = "keep"
  /\ slot' = target /\ slotKey' = ExecOf[sp] /\ idle' = 0 /\ target' = NoPod
  /\ pc' = "charge" /\ unspent' = StartsToCharge /\ reused' = FALSE
  /\ UNCHANGED <<budgetVars, providerVars, loopVars, sp, starts, abandoned, elapsed, leaked,
                 error, closing, closedLeaks, guard, leakLog, historyVars, boundVars>>

KeepHolds ==
  /\ pc = "keep"
  /\ OpenHold(IdleLabel(target), IdleEstimate)
  /\ pc' = "keepAnnotate"
  /\ UNCHANGED <<providerVars, loopVars, solutionVars, poolVars, guard, leakLog, historyVars,
                 boundVars>>

(* Mutated form: the idle hold does not name its pod.                       *)
KeepParksUnnamed ==
  /\ pc = "keepAnnotate"
  /\ slot' = target /\ slotKey' = ExecOf[sp] /\ idle' = 0 /\ target' = NoPod
  /\ pc' = "charge" /\ unspent' = StartsToCharge /\ reused' = FALSE
  /\ UNCHANGED <<budgetVars, providerVars, loopVars, sp, starts, abandoned, elapsed, leaked,
                 error, closing, closedLeaks, guard, leakLog, historyVars, boundVars>>

KeepParks ==
  /\ pc = "keepAnnotate"
  /\ AnnotateHold(IdleLabel(target), target)
  /\ slot' = target /\ slotKey' = ExecOf[sp] /\ idle' = 0 /\ target' = NoPod
  /\ pc' = "charge" /\ unspent' = StartsToCharge /\ reused' = FALSE
  /\ UNCHANGED <<providerVars, loopVars, sp, starts, abandoned, elapsed, leaked, error,
                 closing, closedLeaks, guard, leakLog, historyVars, boundVars>>

(* The idle hold is refused: the pod is torn down instead.                  *)
KeepRefused ==
  /\ pc = "keep"
  /\ IsOpen(IdleLabel(target)) \/ ~CanAfford(IdleEstimate)
  /\ pc' = "teardown"
  /\ UNCHANGED <<budgetVars, providerVars, loopVars, solutionVars, poolVars, guard, leakLog,
                 historyVars, boundVars>>

(* _teardown: a leak is reported; another failure of the teardown is the    *)
(* candidate's error, unless it had one.                                    *)
TeardownTarget ==
  /\ pc = "teardown"
  /\ \/ target = NoPod /\ UNCHANGED <<providerVars, guard, leakLog, leaked, error, unlisted>>
     \/ target # NoPod /\ Terminated(target) /\ UNCHANGED <<leaked, error, unlisted>>
     \/ /\ target # NoPod /\ NotTerminated(target)
        /\ leaked' = target /\ error' = "stop"
        /\ UNCHANGED unlisted
     \/ /\ target # NoPod /\ NotRecorded(target)
        /\ unlisted' = unlisted \cup {target}
        /\ error' \in (IF error = "none" THEN {"none", "stop"} ELSE {error})
        /\ UNCHANGED leaked
  /\ target' = NoPod
  /\ pc' = "charge" /\ unspent' = StartsToCharge /\ reused' = FALSE
  /\ UNCHANGED <<budgetVars, loopVars, sp, starts, abandoned, elapsed, poolVars,
                 orphans, paid, estimated, boundVars>>

ChargeAbandoned(start) ==
  /\ pc = "charge"
  /\ RecordPodSpend(start.seconds)
  /\ unspent' = unspent \ {start}
  /\ abandoned' = abandoned + start.seconds
  /\ paid' = [paid EXCEPT ![start.pod] = @ + 1]
  /\ UNCHANGED <<providerVars, pc, loopVars, sp, target, reused, starts, elapsed, leaked, error,
                 poolVars, guard, leakLog, orphans, estimated, unlisted, boundVars>>

WholeRunCharge == elapsed  \* mutated form

(* The hold pays for the rest of the pod's time.                            *)
RunCharge == IF elapsed > abandoned THEN elapsed - abandoned ELSE 0

SettleRun ==
  /\ pc = "charge" /\ unspent = {}
  /\ Settle(RunLabel(sp), RunCharge)
  /\ \/ Overspent' /\ StopOverspent /\ UNCHANGED <<after, leaks>>
     \/ /\ ~Overspent'
        /\ pc' = "record" /\ after' = (IF error = "refused" THEN "refused" ELSE "iterationEnd")
        /\ leaks' = {leaked} \ {NoPod}
        /\ stopped' = (error = "stop")
  /\ sp' = (IF error = "refused" THEN sp ELSE NoSolution)
  /\ abandoned' = 0 /\ elapsed' = 0 /\ leaked' = NoPod /\ error' = "none"
  /\ starts' = (IF slot = NoPod THEN {} ELSE starts)  \* start_attempts goes with its target
  /\ UNCHANGED <<providerVars, target, reused, unspent, poolVars, guard, leakLog,
                 historyVars, boundVars>>

-----------------------------------------------------------------------------
(* hold_open_ended for each leaked pod; then the loop goes on or closes     *)

RecordLeak(p) ==
  /\ pc = "record" /\ p \in leaks
  /\ OpenEndedHold(LeakLabel(p), HourlyRate)
  /\ pc' = "recordAnnotate"
  /\ UNCHANGED <<providerVars, loopVars, solutionVars, poolVars, guard, leakLog, historyVars,
                 boundVars>>

AnnotateLeak(p) ==
  /\ pc = "recordAnnotate" /\ p \in leaks
  /\ IsOpen(LeakLabel(p)) /\ AnnotateHold(LeakLabel(p), p)
  /\ leaks' = leaks \ {p}
  /\ pc' = "record"
  /\ UNCHANGED <<providerVars, after, stopped, solutionVars, poolVars, guard, leakLog,
                 historyVars, boundVars>>

LeaksRecorded ==
  /\ pc = "record" /\ leaks = {}
  /\ pc' = after
  /\ UNCHANGED <<budgetVars, providerVars, loopVars, solutionVars, poolVars, guard, leakLog,
                 historyVars, boundVars>>

(* After each candidate: stop, record the pods closed while switching (a    *)
(* leak among them stops the run), stop on an overrun, or go on.            *)
IterationEnd ==
  /\ pc \in {"iterationEnd", "refused"}
  /\ IF stopped THEN pc' = "closing" /\ UNCHANGED <<loopVars, closedLeaks>>
     ELSE IF closedLeaks # {}
     THEN /\ pc' = "record" /\ after' = "closing"
          /\ leaks' = closedLeaks /\ closedLeaks' = {} /\ stopped' = TRUE
     ELSE /\ pc' = (IF overran THEN "closing" ELSE "loop")
          /\ stopped' = overran
          /\ UNCHANGED <<after, leaks, closedLeaks>>
  /\ sp' = NoSolution
  /\ UNCHANGED <<budgetVars, providerVars, target, reused, starts, unspent, abandoned, elapsed,
                 leaked, error, slot, slotKey, idle, closing, guard, leakLog,
                 historyVars, boundVars>>

PlansDone ==
  /\ pc = "loop"
  /\ pc' = "closing"
  /\ UNCHANGED <<budgetVars, providerVars, loopVars, solutionVars, poolVars, guard, leakLog,
                 historyVars, boundVars>>

-----------------------------------------------------------------------------
(* close_pool, run when the loop ends however it ended *)

ClosePoolSwitches ==
  /\ pc = "closing"
  /\ pc' = "record" /\ after' = "poolClose"
  /\ leaks' = closedLeaks /\ closedLeaks' = {}
  /\ UNCHANGED <<budgetVars, providerVars, stopped, solutionVars, slot, slotKey, idle, closing,
                 guard, leakLog, historyVars, boundVars>>

ClosePoolTearsDown ==
  /\ pc = "poolClose"
  /\ CloseSlot("poolSettle")

(* A raise here leaves close_pool before the leak is recorded.              *)
ClosePoolSettles ==
  /\ pc = "poolSettle"
  /\ Settle(IdleLabel(closing), idle)
  /\ idle' = 0 /\ closing' = NoPod
  /\ \/ Overspent' /\ pc' = "exit" /\ UNCHANGED <<after, leaks>>
     \/ /\ ~Overspent'
        /\ pc' = "record" /\ after' = "exit"
        /\ leaks' = {closing} \cap leakLog
  /\ UNCHANGED <<providerVars, stopped, solutionVars, slot, slotKey, closedLeaks, guard, leakLog,
                 historyVars, boundVars>>

ClosePoolEmpty ==
  /\ pc = "poolClose" /\ slot = NoPod
  /\ pc' = "exit"
  /\ UNCHANGED <<budgetVars, providerVars, loopVars, solutionVars, poolVars, guard, leakLog,
                 historyVars, boundVars>>

-----------------------------------------------------------------------------
Process ==
  \/ Launch \/ ReplayDone \/ Exit
  \/ \E l \in Label : ReplayOpenHold(l)
  \/ \E s \in Solution : StartSolution(s)
  \/ AcquireParked \/ AcquireClosesOther \/ AcquireAfterClose \/ AcquireNew
  \/ \E p \in Pod : CreatePod(p) \/ CreateAnswerLost(p)
  \/ CreateFails \/ AbandonStart \/ StartEnds \/ AnnotateRun \/ Measured
  \/ KeepHolds \/ KeepParks \/ KeepRefused \/ TeardownTarget
  \/ \E start \in unspent : ChargeAbandoned(start)
  \/ SettleRun
  \/ \E p \in Pod : RecordLeak(p) \/ AnnotateLeak(p)
  \/ LeaksRecorded \/ IterationEnd \/ PlansDone
  \/ ClosePoolSwitches \/ ClosePoolTearsDown \/ ClosePoolSettles \/ ClosePoolEmpty

Next == Process \/ Crash \/ Tick

Spec == Init /\ [][Next]_vars

-----------------------------------------------------------------------------
(* Types *)

Steps == {"down", "replay", "loop", "acquire", "switchSettle", "provision", "starting",
          "annotate", "measure", "keep", "keepAnnotate", "teardown", "charge", "record",
          "recordAnnotate", "refused", "iterationEnd", "closing", "poolClose", "poolSettle", "exit"}
StartReport == [pod : Pod, seconds : Nat]

ProcessTypeOK ==
  /\ pods \in [Pod -> {"fresh", "billing", "gone"}] /\ bill \in [Pod -> Nat]
  /\ pc \in Steps
  /\ after \in {"loop", "refused", "iterationEnd", "closing", "poolClose", "exit"}
  /\ stopped \in BOOLEAN /\ leaks \in SUBSET Pod
  /\ sp \in Solution \cup {NoSolution} /\ target \in Pod \cup {NoPod} /\ reused \in BOOLEAN
  /\ starts \in SUBSET StartReport /\ unspent \in SUBSET StartReport
  /\ abandoned \in Nat /\ elapsed \in Nat
  /\ leaked \in Pod \cup {NoPod} /\ error \in {"none", "refused", "stop"}
  /\ slot \in Pod \cup {NoPod} /\ slotKey \in Execution \cup {NoExecution} /\ idle \in Nat
  /\ closing \in Pod \cup {NoPod} /\ closedLeaks \in SUBSET Pod /\ guard \in SUBSET Pod
  /\ leakLog \in SUBSET Pod /\ orphans \in SUBSET Pod /\ paid \in [Pod -> Nat]
  /\ estimated \in BOOLEAN /\ unlisted \in SUBSET Pod
  /\ ticks \in Nat /\ launches \in Nat /\ tries \in [Solution -> Nat]

(* Every variable holds values of its kind, and a closed label keeps        *)
(* nothing of its hold.                                                     *)
TypeOK == BudgetTypeOK /\ ProcessTypeOK

-----------------------------------------------------------------------------
(* Safety *)

(* A billing pod is always in somebody's hands: a live process will tear it *)
(* down at exit at the latest, or it is in leaked_pods.json for the owner,  *)
(* or its process is gone and the next start's sweep is to find it.         *)
PodAccounted == Billing \subseteq guard \cup leakLog \cup orphans

(* While the run goes on, the guarded pods are exactly the one its          *)
(* candidate works on, the one its pool keeps and those no teardown could   *)
(* end or list: no exception path of acquire, provision, keep or the final  *)
(* teardown drops any other live pod and carries on, and none of the last   *)
(* kind loses its exit guard.                                               *)
NoStrayPod ==
  pc # "down" /\ ~stopped => guard = ({target, slot} \ {NoPod}) \cup unlisted

(* acquire's "one live pod at a time ... no pod bills idle while other work *)
(* runs": whatever failed to start, was switched or was parked before.  A   *)
(* pod whose teardown failed without a leak record is the exception.        *)
OneLivePod == \A p, q \in guard \ unlisted : p = q

(* At every step at which the process can die, a pod it has in hand is paid *)
(* for by an open hold, so the replay will charge it (append before act,    *)
(* through acquire, keep and the hand-over of a pod between two labels).    *)
HeldWhileRented ==
  \A p \in guard \ unlisted :
    IsOpen(IdleLabel(p)) \/ (sp \in Solution /\ IsOpen(RunLabel(sp)))

(* Between candidates the ledger holds nothing but the parked pod's idle    *)
(* hold, annotated with that pod: no path leaves a candidate's hold open,   *)
(* which would refuse its next attempt as already open.                     *)
BetweenCandidates ==
  pc \in {"loop", "refused"} =>
    /\ OpenLabels = (IF slot = NoPod THEN {} ELSE {IdleLabel(slot)})
    /\ slot # NoPod => holds[IdleLabel(slot)].pod = slot

(* No pod is rented once spending has passed the authorized total, whoever  *)
(* overspent: the candidate before, the pod parked for it or a replay.      *)
NoRentWhenOverspent ==
  [][\A p \in Pod : pods[p] = "fresh" /\ pods'[p] # "fresh" => ~Overspent]_vars

(* As long as nothing crashed, leaked or was lost and every teardown ended  *)
(* its pod, the account equals the bills between candidates, apart from the *)
(* idle time of the parked pod: every billed tick is charged once, under    *)
(* the candidate's label, the pod's idle label or its abandoned start.      *)
ChargedIsBilled ==
  pc = "loop" /\ launches = 1 /\ leakLog = {} /\ orphans = {} /\ unlisted = {} =>
    spent + idle = SumFunction(bill)

(* A pod left for its logs is charged on its own line at most once, however *)
(* often the target whose start it belongs to is reused.                    *)
AbandonedChargedOnce == \A p \in Pod : paid[p] <= 1

(* When the process ends, a pod it could not terminate has an open-ended    *)
(* hold for the next replay, wherever its teardown failed: after the        *)
(* candidate, on a switch or as the pool closed.  Two paths leave it out:   *)
(* an account that is overspent by then, and a pod abandoned at its start.  *)
LeakHeldAtExit ==
  pc = "exit" /\ launches = 1 /\ ~Overspent =>
    \A p \in leakLog \cap Billing :
      \/ IsOpen(LeakLabel(p)) /\ holds[LeakLabel(p)].pod = p
      \/ paid[p] > 0

(* cohort.py, _teardown: a pod that may still be billing keeps an           *)
(* open-ended hold for the replay, without exception.                       *)
EveryLeakHeldAtExit ==
  pc = "exit" /\ launches = 1 => \A p \in leakLog \cap Billing : IsOpen(LeakLabel(p))

(* billing.py: the ledger and the bill differ by pods the ledger does not   *)
(* name and by pods settled at their estimate.  So an account in which no   *)
(* hold was settled at its estimate charges no more than the bills.         *)
WithinBillsUnlessEstimated == ~estimated => spent <= SumFunction(bill)

-----------------------------------------------------------------------------
(* Refinement *)

(* A pod whose teardown failed is left, though its exit guard stays.        *)
CustodyOf(p) ==
  CASE pods[p] = "fresh" -> "unrented"
    [] pods[p] = "gone" -> "ended"
    [] pods[p] = "billing" /\ p \notin guard \ unlisted -> "left"
    [] pods[p] = "billing" /\ p \in guard \ unlisted /\ p = slot -> "parked"
    [] OTHER -> "working"

Custody == INSTANCE PodCustody WITH custody <- [p \in Pod |-> CustodyOf(p)]

(* Every step of the orchestrator is a step PodCustody allows, or none of   *)
(* its business.                                                            *)
ImplementsCustody == Custody!Spec
=============================================================================
