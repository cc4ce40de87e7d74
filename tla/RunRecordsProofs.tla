-------------------------- MODULE RunRecordsProofs --------------------------
(***************************************************************************)
(* Proofs about RunRecords, for any cohort, suite, number of executions,   *)
(* launches, protocols and faults.  The inductive invariant IInv has three *)
(* layers.  PhaseInv and LeakInv follow one execution from step to step;   *)
(* AccountInv follows the solutions of a run; StoreInv and KnownInv say    *)
(* what the records can be.  A record is known when it is stored or in a   *)
(* batch still to be stored: storing one changes nothing that is known,    *)
(* and a death or an invalid record only takes known records away, so what *)
(* is said of every known record needs a proof where records are made:     *)
(* the claim, Settle and RescoreSolution.                                  *)
(* TimeInv counts the failed boots of an execution and keeps its clock a   *)
(* number, for what its records cost together.  The last part is about     *)
(* Findings: what the table and the qualification read from the records,   *)
(* for any table rows and any quality floor; it needs no other invariant.  *)
(***************************************************************************)
EXTENDS Findings, FoldLemmas, FiniteSetTheorems, TLAPS

Pending == UNION {writes[i] : i \in DOMAIN writes}
Known == store \cup Pending

OfExecution(r) == r.scope # "claim"
Memory(r) == r.scope = "memory"
ServingReport(r) == r.scope = "serving_performance"

-----------------------------------------------------------------------------
(* Steps of a process.                                                     *)

(* Between the hold of an execution and its settle.                        *)
Executing == {"provision", "boot", "verify", "tasks", "serving", "teardown", "settle"}

(* A solution is out of the loop's list and its end not yet noted.         *)
InHand == Executing \cup {"capacity", "store", "dispatch"}

RunSteps == InHand \cup {"loop", "claim", "iterationEnd", "closing", "exit"}
RescoreSteps == {"rescoring", "rescoreStore", "rescored"}

(* A case is skipped when the plan does not serve it, and never accepted.   *)
Fits(verdict, c, s) ==
  (verdict = "skipped" => c \in Unserved[s]) /\ (verdict = "accepted" => c \notin Unserved[s])

RecordTyped(r) ==
  /\ r.sol \in Solution
  /\ r.scope \in {"claim", "boot", "memory", "task_outcome", "serving_performance"}
  /\ OfExecution(r) => r.exec \in 1..executions
  /\ Attempt(r) => /\ r.case \in SuiteOf[r.sol] /\ r.retry \in {0, 1}
                   /\ Fits(r.accepted, r.case, r.sol)
                   /\ r.protocol \in 1..protocol
                   /\ r.origin \in 0..(r.protocol - 1)

TypeInv ==
  /\ manifest \cup lapsed \subseteq Solution \X (1..protocol)
  /\ protocol \in 1..MaxProtocol
  /\ executions \in Nat
  /\ pc \in {"down"} \cup RunSteps \cup RescoreSteps
  /\ todo \in Seq(Solution)
  /\ DOMAIN x = DOMAIN Idle /\ x.sol \in Solution
  /\ DOMAIN result = DOMAIN NoResult
  /\ repeat => repeated
  /\ pc \notin {"store", "rescoreStore"} => writes = <<>>
  /\ \A r \in Known : RecordTyped(r)

-----------------------------------------------------------------------------
(* One execution.                                                          *)

(* What a suite hands over: every case once, and the retry of exactly those *)
(* whose request failed, which a model without a chat template never gets. *)
Covers(scored, s) ==
  /\ \A a \in scored : a.case \in SuiteOf[s] /\ a.retry \in {0, 1} /\ Fits(a.outcome, a.case, s)
  /\ \A a, b \in scored : a.case = b.case /\ a.retry = b.retry => a = b
  /\ scored # {} => \A c \in SuiteOf[s] : \E a \in scored : a.case = c /\ a.retry = 0
  /\ \A a, b \in scored :
       a.case = b.case /\ a.retry = 1 /\ b.retry = 0 => b.outcome = "failed"
  /\ s \in Chat => \A a \in scored : a.retry = 0 /\ a.outcome = "failed" =>
               \E b \in scored : b.case = a.case /\ b.retry = 1

SuiteShape(t) == Covers(t.scored, t.sol) /\ (t.scored # {} => t.scope.task)

Unmeasured(t) == t.scored = {} /\ t.bench = "none"
Unfailed(t) == t.error = "none" /\ t.logTail = "none"

PhaseInv ==
  /\ pc \in {"claim", "capacity", "provision", "boot"} =>
       Unmeasured(x) /\ Unfailed(x) /\ ~x.healthy /\ ~x.report
  /\ pc \in {"verify", "tasks"} => Unmeasured(x) /\ Unfailed(x) /\ x.healthy
  /\ pc = "serving" => x.bench = "none" /\ Unfailed(x) /\ x.healthy
  /\ pc \in {"tasks", "serving"} => x.report
  /\ pc \in {"serving", "teardown", "settle"} => SuiteShape(x)
  /\ pc \in {"teardown", "settle"} =>
       /\ ~Unmeasured(x) => x.healthy /\ x.report
       /\ x.bench # "none" => x.scope.serving
       /\ x.exec \in leakyTokens => Unmeasured(x) /\ x.logTail = "none" /\ ~x.healthy
       /\ x.error = "capacity" => Unmeasured(x)
  /\ pc \in Executing =>
       /\ x.exec \in 1..executions
       /\ \A r \in store : OfExecution(r) => r.exec # x.exec
  /\ pc \in Executing \ {"teardown", "settle"} => x.exec \notin leakyTokens
  /\ leakyTokens \subseteq 1..executions

(* After a pod that could not be terminated.                               *)
LeakInv ==
  leakSeen =>
    /\ pc \in {"settle", "store", "dispatch", "iterationEnd", "closing", "exit"}
    /\ pc \in {"settle", "store"} => x.leaked
    /\ pc = "dispatch" => x.error = "stop"
    /\ pc = "iterationEnd" => result.stopped

-----------------------------------------------------------------------------
(* The solutions of a run.                                                 *)

Done == result.executed \cup result.skipped \cup result.complete \cup result.errors

AccountInv ==
  /\ pc = "down" => result = NoResult
  /\ pc \in RescoreSteps => result.complete = {}
  /\ pc \in RescoreSteps => result.executed \subseteq Solution
  /\ pc \in RunSteps =>
       /\ Done \subseteq Solution
       /\ \A i, j \in DOMAIN todo : todo[i] = todo[j] => i = j
       /\ Done \cap Range(todo) = {}
       /\ result.executed \cap (result.skipped \cup result.complete \cup result.errors) = {}
       /\ result.skipped \cap (result.complete \cup result.errors) = {}
       /\ result.complete \cap result.errors = {}
       /\ pc \in InHand \cup {"claim"} =>
            x.sol \notin result.executed \cup result.complete \cup result.errors
                           \cup Range(todo)
       /\ pc = "claim" => x.sol \notin result.skipped
       /\ ~result.stopped =>
            Solution \subseteq Done \cup Range(todo)
                                 \cup (IF pc \in InHand \cup {"claim"} THEN {x.sol} ELSE {})
       /\ pc \in {"closing", "exit"} /\ ~result.stopped => todo = <<>>

(* What was skipped as complete had all three scopes in the store, and is   *)
(* not taken up again.                                                     *)
CompleteInv ==
  \A s \in result.complete :
    /\ \E r \in store : r.sol = s /\ Memory(r)
    /\ \E r \in store : r.sol = s /\ ServingReport(r)
    /\ AttemptsUnder(s, protocol) # {}

-----------------------------------------------------------------------------
(* The records.                                                            *)

SameOutput(a, b) == a.sol = b.sol /\ a.exec = b.exec /\ a.case = b.case /\ a.retry = b.retry

HasMemory(r, records) ==
  \E m \in records : Memory(m) /\ m.sol = r.sol /\ m.exec = r.exec
HasOriginal(a, records) ==
  \E b \in records : Attempt(b) /\ SameOutput(a, b) /\ b.protocol = a.origin

(* The batches of an execution, and of a re-scoring.                       *)
BatchInv ==
  /\ pc = "store" =>
       /\ DOMAIN writes = 1..5
       /\ \A i \in 1..5 : \A r \in writes[i] : r.sol = x.sol /\ OfExecution(r)
       /\ \A r \in writes[1] \cup writes[2] : r.scope \in {"boot", "memory"}
       /\ \A r \in writes[3] \cup writes[4] : Attempt(r) /\ r.origin = 0
       /\ \A r \in writes[5] : ServingReport(r)
       /\ \A r \in writes[3] \cup writes[4] \cup writes[5] : HasMemory(r, store \cup writes[2])
       /\ x.error = "capacity" => writes[3] \cup writes[4] \cup writes[5] = {}
  /\ pc = "rescoreStore" =>
       /\ DOMAIN writes = {1}
       /\ \A r \in writes[1] : /\ r.sol = x.sol /\ Attempt(r) /\ r.origin # 0
                               /\ HasMemory(r, store) /\ HasOriginal(r, store)

StoreInv ==
  \A r \in store :
    /\ Attempt(r) \/ ServingReport(r) => HasMemory(r, store)
    /\ Attempt(r) /\ r.origin # 0 => HasOriginal(r, store)

IdentityInv ==
  /\ \A r \in Known : \E p \in 1..protocol : <<r.sol, p>> \in manifest
  /\ \A r \in Known : OfExecution(r) => ClaimRecord(r.sol) \in store
  /\ \A r \in Known : Attempt(r) => <<r.sol, r.protocol>> \in manifest \/ AwaitsEntry(r)
  /\ pc \in InHand \cup {"claim"} => <<x.sol, protocol>> \in manifest
  /\ pc \in InHand => ClaimRecord(x.sol) \in store

LeakyInv ==
  \A r \in Known : OfExecution(r) /\ r.exec \in leakyTokens => r.scope = "boot"

(* An execution is of one solution and measures under one protocol; the     *)
(* attempt of a case and retry is unique in it.                            *)
ExecutionInv ==
  /\ \A a, b \in Known : OfExecution(a) /\ OfExecution(b) /\ a.exec = b.exec => a.sol = b.sol
  /\ \A a, b \in Known :
       Attempt(a) /\ Attempt(b) /\ a.origin = 0 /\ b.origin = 0 /\ a.exec = b.exec =>
         a.protocol = b.protocol /\ (a.case = b.case /\ a.retry = b.retry => a = b)

(* A re-scored attempt is under a later protocol than the measurement, and  *)
(* there is one for each measured output and protocol.                     *)
RescoredInv ==
  /\ \A a, o \in Known :
       Attempt(a) /\ Attempt(o) /\ a.origin # 0 /\ o.origin = 0 /\ a.exec = o.exec =>
         o.protocol < a.protocol
  /\ \A a, b, o \in Known :
       /\ Attempt(a) /\ Attempt(b) /\ Attempt(o) /\ SameOutput(a, b) /\ SameOutput(a, o)
       /\ a.protocol = b.protocol /\ a.origin = b.origin
       /\ a.origin = o.protocol /\ o.origin = 0
       => a = b

(* What a run without repeat measures was not there, at every try.         *)
ToMeasure ==
  \/ pc \in Executing \cup {"capacity"}
  \/ pc \in {"store", "dispatch"} /\ x.error = "capacity"

MissingInv ==
  /\ ~repeated =>
       /\ \A a, b \in Known :
            /\ Attempt(a) /\ Attempt(b) /\ a.sol = b.sol /\ a.protocol = b.protocol
            /\ a.origin = 0
            => b.origin = 0 /\ a.exec = b.exec
       /\ \A a, b \in Known : ServingReport(a) /\ ServingReport(b) /\ a.sol = b.sol => a = b
  /\ ToMeasure /\ ~repeat =>
       /\ x.scope.task => AttemptsUnder(x.sol, protocol) = {}
       /\ x.scope.serving => RecordsOf(x.sol, "serving_performance") = {}

(* Only a failed request is tried again, whatever the protocol; the verdicts *)
(* of a solution whose storing was never cut off cover the suite.          *)
SameMeasurement(a, b) == a.sol = b.sol /\ a.exec = b.exec /\ a.protocol = b.protocol
Covered(a, records) ==
  /\ \A c \in SuiteOf[a.sol] : \E b \in records :
       Attempt(b) /\ SameMeasurement(a, b) /\ b.case = c /\ b.retry = 0
  /\ a.sol \in Chat /\ a.retry = 0 /\ a.accepted = "failed" =>
       \E b \in records : Attempt(b) /\ SameMeasurement(a, b) /\ b.case = a.case /\ b.retry = 1

VerdictInv ==
  /\ \A a, b \in Known :
       /\ Attempt(a) /\ Attempt(b) /\ a.exec = b.exec /\ a.case = b.case
       /\ a.retry = 1 /\ b.retry = 0
       => b.accepted = "failed"
  /\ \A a \in Known : Attempt(a) /\ a.sol \notin cut => Covered(a, Known)

IInv ==
  /\ TypeInv /\ PhaseInv /\ LeakInv /\ AccountInv /\ CompleteInv
  /\ BatchInv /\ StoreInv /\ IdentityInv /\ LeakyInv
  /\ ExecutionInv /\ RescoredInv /\ MissingInv /\ VerdictInv

-----------------------------------------------------------------------------
(* The state outside the execution.                                        *)

LEMMA SolutionNotEmpty == Idle.sol \in Solution /\ Plans \in Seq(Solution)
<1>1. Plans \in Seq(Solution) /\ Plans # <<>>
  BY RunAssumption
<1>2. Plans[1] \in Solution
  BY <1>1
<1>3. (CHOOSE s \in Solution : TRUE) \in Solution
  BY <1>2
<1> QED
  BY <1>1, <1>3 DEF Idle

LEMMA NothingPending == writes = <<>> => Pending = {} /\ Known = store
  BY DEF Pending, Known

LEMMA InitInv == Init => IInv
<1> SUFFICES ASSUME Init PROVE IInv
  OBVIOUS
<1>1. Known = {} /\ store = {}
  BY NothingPending DEF Init, Known
<1>2. TypeInv
  BY <1>1, SolutionNotEmpty, RunAssumption DEF Init, TypeInv
<1>3. PhaseInv /\ LeakInv
  BY <1>1 DEF Init, PhaseInv, LeakInv, Executing
<1>4. AccountInv
  BY DEF Init, AccountInv, RescoreSteps, RunSteps, InHand, Executing
<1>5. CompleteInv
  BY DEF Init, CompleteInv, NoResult
<1>6. BatchInv /\ StoreInv /\ IdentityInv /\ LeakyInv
  BY <1>1 DEF Init, BatchInv, StoreInv, IdentityInv, LeakyInv, InHand, Executing
<1>7. ExecutionInv /\ RescoredInv
  BY <1>1 DEF ExecutionInv, RescoredInv
<1>8. MissingInv /\ VerdictInv
  BY <1>1 DEF Init, MissingInv, VerdictInv, ToMeasure, Executing
<1> QED
  BY <1>2, <1>3, <1>4, <1>5, <1>6, <1>7, <1>8 DEF IInv

-----------------------------------------------------------------------------
(* What a step does to the records.                                        *)

(* Nothing is made or lost; a record may move from its batch into the store. *)
Keeps == Known' = Known /\ store \subseteq store' /\ cut' = cut

(* What was not stored yet is lost.                                        *)
Drops ==
  /\ pc \in {"store", "rescoreStore"} /\ pc' \in {"down", "dispatch"}
  /\ Known' = store /\ store' = store /\ writes' = <<>>
  /\ cut' = cut \cup {x.sol}
  /\ UNCHANGED <<manifest, protocol, leakyTokens, executions, repeated>>

Claims ==
  /\ pc = "claim" /\ writes' = <<>> /\ Known = store /\ Known' = store'
  /\ store' = store \cup {ClaimRecord(x.sol)}
  /\ UNCHANGED <<manifest, protocol, leakyTokens, executions, repeated, cut>>

(* Batches of records are made; none is stored.                            *)
Makes(batches) ==
  /\ writes' = batches /\ store' = store /\ Known = store
  /\ Known' = store \cup UNION {batches[i] : i \in DOMAIN batches}
  /\ UNCHANGED <<manifest, protocol, leakyTokens, executions, repeated, cut>>

Settles == pc = "settle" /\ pc' = "store" /\ x' = Handled(x) /\ Makes(StoreOrder(x))

Rescores ==
  /\ pc = "rescoring" /\ pc' = "rescoreStore" /\ todo # <<>>
  /\ Rescorable(Head(todo)) /\ x' = [Idle EXCEPT !.sol = Head(todo)]
  /\ \E turned \in SUBSET RecordsOf(Head(todo), "task_outcome") :
       Makes(<<{Rescored(a, turned) : a \in RecordsOf(Head(todo), "task_outcome")}>>)

(* The bounds on what a record names only grow.                            *)
Grows ==
  /\ manifest \subseteq manifest'
  /\ protocol' = protocol \/ (protocol' = protocol + 1 /\ pc = "down" /\ pc' = "down")
  /\ executions' = executions \/ executions' = executions + 1
  /\ repeated => repeated'
  /\ leakyTokens' = leakyTokens
       \/ (pc = "verify" /\ leakyTokens' = leakyTokens \cup {x.exec} /\ writes = <<>>)

LEMMA StoreNextKeeps == ASSUME StoreNext PROVE Known' = Known /\ store \subseteq store'
<1>1. PICK i \in DOMAIN writes : \E r \in writes[i] :
        /\ store' = store \cup {r}
        /\ writes' = [writes EXCEPT ![i] = @ \ {r}]
  BY DEF StoreNext
<1>2. PICK r \in writes[i] : /\ store' = store \cup {r}
                             /\ writes' = [writes EXCEPT ![i] = writes[i] \ {r}]
  BY <1>1
<1>3. DOMAIN writes' = DOMAIN writes
  BY <1>2
<1>4. \A j \in DOMAIN writes : writes'[j] = IF j = i THEN writes[i] \ {r} ELSE writes[j]
  BY <1>2
<1>5. Pending' \subseteq Pending /\ Pending \subseteq Pending' \cup {r} /\ r \in Pending
  BY <1>3, <1>4 DEF Pending
<1> QED
  BY <1>2, <1>5 DEF Known

LEMMA WrittenKeeps ==
  ASSUME Written, writes' = <<>>, store' = store PROVE Known' = Known
<1>1. Pending = {} /\ Pending' = {}
  BY DEF Written, Pending
<1> QED
  BY <1>1 DEF Known

LEMMA MakesBatches ==
  ASSUME NEW batches, writes = <<>>, writes' = batches, store' = store,
         UNCHANGED <<manifest, protocol, leakyTokens, executions, repeated, cut>>
  PROVE  Makes(batches)
<1>1. Known = store
  BY NothingPending
<1>2. Known' = store \cup UNION {batches[i] : i \in DOMAIN batches}
  BY DEF Known, Pending
<1> QED
  BY <1>1, <1>2 DEF Makes

LEMMA RecordSteps ==
  ASSUME TypeInv, [Next]_vars
  PROVE  Grows /\ (Keeps \/ Drops \/ Claims \/ Settles \/ Rescores)
<1> USE DEF TypeInv, vars, files, process, history
<1> DEFINE Quiet == UNCHANGED <<store, writes, cut>>
<1> DEFINE Here == Grows /\ (Keeps \/ Drops \/ Claims \/ Settles \/ Rescores)
<1>1. Quiet => Keeps
  BY DEF Keeps, Known, Pending
<1>2. Grows /\ Quiet => Here
  BY <1>1
<1>3. CASE Launch \/ LaunchRescore \/ ChangeProtocol \/ ClosePool \/ Exit \/ IndexFails
             \/ RecordIdentity \/ NoCapacity \/ Begin
  BY <1>2, <1>3 DEF Grows, Launch, LaunchRescore, ChangeProtocol, ClosePool, Exit, IndexFails,
                    RecordIdentity, NoCapacity, Begin
<1>4. CASE Provision \/ BootHarnessFailure \/ BootModelFailure \/ BootHealthy \/ BootRaises
             \/ TokenLeaks \/ Verify \/ Tasks \/ Serving \/ Teardown \/ SettleRaises
  BY <1>2, <1>4 DEF Grows, Provision, BootHarnessFailure, BootModelFailure, BootHealthy,
                    BootRaises, TokenLeaks, Verify, Tasks, Serving, Teardown, SettleRaises,
                    Step, Fails, FailsAgain, Goto, Fault
<1>5. CASE Executed \/ StopsRun \/ Interrupted \/ HarnessFailure \/ UnexpectedFailure
             \/ CapacityRefused \/ IterationEnd \/ LoopEnd \/ RescoreNamed \/ RescoreDone
             \/ UNCHANGED vars
  BY <1>2, <1>5 DEF Grows, Executed, StopsRun, Interrupted, HarnessFailure, UnexpectedFailure,
                    CapacityRefused, IterationEnd, LoopEnd, RescoreNamed, RescoreDone, Ends
<1>6. CASE Crash
  <2>1. Grows
    BY <1>6 DEF Grows, Crash
  <2>2. CASE pc \in {"store", "rescoreStore"}
    <3>1. writes' = <<>> /\ store' = store
      BY <1>6 DEF Crash
    <3>2. Known' = store
      BY <3>1 DEF Known, Pending
    <3> QED
      BY <1>6, <2>1, <2>2, <3>2 DEF Crash, Drops
  <2>3. CASE pc \notin {"store", "rescoreStore"}
    BY <1>2, <1>6, <2>1, <2>3 DEF Crash
  <2> QED
    BY <2>2, <2>3
<1>7. CASE InvalidRecord
  <2>1. writes' = <<>> /\ store' = store
    BY <1>7 DEF InvalidRecord
  <2>2. Known' = store
    BY <2>1 DEF Known, Pending
  <2> QED
    BY <1>7, <2>2 DEF InvalidRecord, Drops, Grows
<1>8. CASE StoreNext
  BY <1>8, StoreNextKeeps DEF StoreNext, Keeps, Grows
<1>9. CASE StoreDone \/ RescoreStored
  BY <1>9, WrittenKeeps DEF StoreDone, RescoreStored, Keeps, Grows
<1>10. CASE PredictionError \/ AlreadyMeasured \/ CannotAfford \/ ToExecute
  <2>1. writes = <<>> /\ writes' = <<>> /\ pc = "claim"
    BY <1>10 DEF PredictionError, AlreadyMeasured, CannotAfford, ToExecute
  <2>2. Known = store /\ Known' = store'
    BY <2>1 DEF Known, Pending
  <2> QED
    BY <1>10, <2>1, <2>2
       DEF PredictionError, AlreadyMeasured, CannotAfford, ToExecute, Claims, Grows
<1>11. CASE Settle
  <2>1. Makes(StoreOrder(x))
    BY <1>11, MakesBatches DEF Settle
  <2> QED
    BY <1>11, <2>1 DEF Settle, Settles, Grows
<1>12. CASE RescoreSolution
  <2>1. CASE Rescorable(Head(todo))
    <3>1. PICK turned \in SUBSET RecordsOf(Head(todo), "task_outcome") :
            writes' = <<{Rescored(a, turned) : a \in RecordsOf(Head(todo), "task_outcome")}>>
      BY <1>12, <2>1 DEF RescoreSolution
    <3>2. Makes(<<{Rescored(a, turned) : a \in RecordsOf(Head(todo), "task_outcome")}>>)
      BY <1>12, <3>1, MakesBatches DEF RescoreSolution
    <3>3. Rescores
      BY <1>12, <2>1, <3>2 DEF RescoreSolution, Rescores
    <3> QED
      BY <1>12, <3>3 DEF RescoreSolution, Grows
  <2>2. CASE ~Rescorable(Head(todo))
    BY <1>2, <1>12, <2>2 DEF RescoreSolution, Grows
  <2> QED
    BY <2>1, <2>2
<1> QED
  BY <1>3, <1>4, <1>5, <1>6, <1>7, <1>8, <1>9, <1>10, <1>11, <1>12 DEF Next, Run, Waits, Goes

-----------------------------------------------------------------------------
(* The records that an execution makes.                                    *)

MadeBy(t) == UNION {StoreOrder(t)[i] : i \in DOMAIN StoreOrder(t)}

AttemptOf(t, a) ==
  AttemptRecord(t.sol, t.exec, a, protocol, 0, PerAttempt(t, Cardinality(t.scored)))

LEMMA BatchesMade ==
  ASSUME NEW t
  PROVE  /\ DOMAIN StoreOrder(t) = 1..5
         /\ StoreOrder(t)[1] = FailedBoots(t) /\ StoreOrder(t)[2] = LastBoot(t)
         /\ StoreOrder(t)[3] = Attempts(t, 0) /\ StoreOrder(t)[4] = Attempts(t, 1)
         /\ StoreOrder(t)[5] = ServingReports(t)
         /\ MadeBy(t) = FailedBoots(t) \cup LastBoot(t) \cup Attempts(t, 0) \cup Attempts(t, 1)
                          \cup ServingReports(t)
<1>1. DOMAIN StoreOrder(t) = 1..5
  BY DEF StoreOrder
<1>2. /\ StoreOrder(t)[1] = FailedBoots(t) /\ StoreOrder(t)[2] = LastBoot(t)
      /\ StoreOrder(t)[3] = Attempts(t, 0) /\ StoreOrder(t)[4] = Attempts(t, 1)
      /\ StoreOrder(t)[5] = ServingReports(t)
  BY DEF StoreOrder
<1>3. 1..5 = {1, 2, 3, 4, 5}
  OBVIOUS
<1>4. MadeBy(t) = UNION {StoreOrder(t)[i] : i \in {1, 2, 3, 4, 5}}
  BY <1>1, <1>3 DEF MadeBy
<1> QED
  BY <1>1, <1>2, <1>4

LEMMA BootsMade ==
  ASSUME NEW t, NEW r \in FailedBoots(t) \cup LastBoot(t)
  PROVE  /\ r.sol = t.sol /\ r.exec = t.exec /\ r.scope \in {"boot", "memory"}
         /\ Memory(r) => t.healthy /\ t.report
  BY DEF FailedBoots, LastBoot, BootRecord, MemoryRecord, Memory

LEMMA AttemptsMade ==
  ASSUME NEW t, NEW retry, NEW r \in Attempts(t, retry)
  PROVE  \E a \in t.scored : a.retry = retry /\ r = AttemptOf(t, a)
  BY DEF Attempts, AttemptOf

LEMMA AttemptFields ==
  ASSUME NEW t, NEW a
  PROVE  LET r == AttemptOf(t, a) IN
         /\ Attempt(r) /\ r.sol = t.sol /\ r.exec = t.exec /\ r.case = a.case
         /\ r.retry = a.retry /\ r.accepted = a.outcome /\ r.protocol = protocol
         /\ r.origin = 0
  BY DEF AttemptOf, AttemptRecord, Attempt

LEMMA ServingMade ==
  ASSUME NEW t, NEW r \in ServingReports(t)
  PROVE  /\ r.sol = t.sol /\ r.exec = t.exec /\ ServingReport(r)
         /\ t.bench # "none" /\ ServingReports(t) = {r}
  BY DEF ServingReports, ServingRecord, ServingReport

LEMMA RecordsMade ==
  ASSUME NEW t, NEW r \in MadeBy(t)
  PROVE  /\ r.sol = t.sol /\ r.exec = t.exec
         /\ r.scope \in {"boot", "memory", "task_outcome", "serving_performance"}
         /\ Attempt(r) => \E a \in t.scored : a.retry \in {0, 1} /\ r = AttemptOf(t, a)
         /\ ServingReport(r) => t.bench # "none" /\ ServingReports(t) = {r}
<1>1. CASE r \in FailedBoots(t) \cup LastBoot(t)
  BY <1>1, BootsMade DEF Attempt, ServingReport
<1>2. CASE r \in Attempts(t, 0) \cup Attempts(t, 1)
  <2>1. PICK a \in t.scored : a.retry \in {0, 1} /\ r = AttemptOf(t, a)
    BY <1>2, AttemptsMade
  <2> QED
    BY <2>1, AttemptFields DEF Attempt, ServingReport
<1>3. CASE r \in ServingReports(t)
  BY <1>3, ServingMade DEF Attempt, ServingReport
<1> QED
  BY <1>1, <1>2, <1>3, BatchesMade

LEMMA EveryAttemptMade ==
  ASSUME NEW t, NEW a \in t.scored, a.retry \in {0, 1} PROVE AttemptOf(t, a) \in MadeBy(t)
  BY BatchesMade DEF Attempts, AttemptOf

LEMMA RescoredFields ==
  ASSUME NEW a, NEW turned
  PROVE  LET r == Rescored(a, turned) IN
         /\ Attempt(r) /\ SameOutput(r, a) /\ r.protocol = protocol /\ r.origin = a.protocol
         /\ r.accepted = "failed" <=> a.accepted = "failed"
         /\ r.accepted = "skipped" => a.accepted = "skipped"
  BY DEF Rescored, AttemptRecord, Attempt, SameOutput, Judged, Scored

(* What a re-scoring makes.                                                *)
LEMMA RescoredMade ==
  ASSUME NEW s, NEW turned,
         Makes(<<{Rescored(a, turned) : a \in RecordsOf(s, "task_outcome")}>>)
  PROVE  /\ Known' = Known \cup {Rescored(a, turned) : a \in RecordsOf(s, "task_outcome")}
         /\ DOMAIN writes' = {1}
         /\ writes'[1] = {Rescored(a, turned) : a \in RecordsOf(s, "task_outcome")}
<1> DEFINE new == {Rescored(a, turned) : a \in RecordsOf(s, "task_outcome")}
<1> HIDE DEF new
<1>1. DOMAIN <<new>> = {1} /\ <<new>>[1] = new
  OBVIOUS
<1>2. UNION {<<new>>[i] : i \in DOMAIN <<new>>} = new
  BY <1>1
<1>3. Makes(<<new>>)
  BY DEF new
<1> QED
  BY <1>1, <1>2, <1>3 DEF Makes, new

-----------------------------------------------------------------------------
(* Types.                                                                  *)

LEMMA RecordsTyped ==
  ASSUME TypeInv, PhaseInv, [Next]_vars PROVE \A r \in Known' : RecordTyped(r)'
<1> DEFINE Typed(r) == RecordTyped(r)'
<1>1. Grows /\ (Keeps \/ Drops \/ Claims \/ Settles \/ Rescores)
  BY RecordSteps
<1>2. /\ protocol' \in Nat /\ protocol \in 1..protocol' /\ protocol \in Nat
      /\ executions' \in Nat /\ executions \in 0..executions' /\ executions \in Nat
  BY <1>1, RunAssumption DEF TypeInv, Grows
<1>3. ASSUME NEW r, RecordTyped(r) PROVE Typed(r)
  BY <1>2, <1>3 DEF RecordTyped
<1>4. store \subseteq Known /\ \A r \in Known : Typed(r)
  BY <1>3 DEF Known, TypeInv
<1>5. CASE Keeps \/ Drops
  BY <1>4, <1>5 DEF Keeps, Drops
<1>6. CASE Claims
  <2>1. RecordTyped(ClaimRecord(x.sol))
    BY DEF ClaimRecord, RecordTyped, OfExecution, Attempt, TypeInv
  <2> QED
    BY <1>3, <1>4, <1>6, <2>1 DEF Claims
<1>7. CASE Settles
  <2> DEFINE t == x
  <2>1. t.sol \in Solution /\ t.exec \in 1..executions /\ SuiteShape(t)
    BY <1>7 DEF Settles, TypeInv, PhaseInv, Executing
  <2>2. ASSUME NEW r \in MadeBy(t) PROVE RecordTyped(r)
    <3>1. r.sol \in Solution /\ r.exec \in 1..executions
      BY <2>1, RecordsMade
    <3>2. ASSUME Attempt(r)
          PROVE  /\ r.case \in SuiteOf[r.sol] /\ r.retry \in {0, 1}
                 /\ Fits(r.accepted, r.case, r.sol)
                 /\ r.protocol \in 1..protocol /\ r.origin \in 0..(r.protocol - 1)
      <4>1. PICK a \in t.scored : a.retry \in {0, 1} /\ r = AttemptOf(t, a)
        BY <3>2, RecordsMade
      <4>2. a.case \in SuiteOf[t.sol] /\ Fits(a.outcome, a.case, t.sol)
        BY <2>1 DEF SuiteShape, Covers
      <4>3. protocol \in 1..protocol /\ 0 \in 0..(protocol - 1)
        BY DEF TypeInv
      <4>4. /\ r.case = a.case /\ r.retry = a.retry /\ r.protocol = protocol
            /\ r.origin = 0 /\ r.sol = t.sol /\ r.accepted = a.outcome
        BY <4>1, AttemptFields
      <4> QED
        BY <4>1, <4>2, <4>3, <4>4
    <3> QED
      BY <3>1, <3>2, RecordsMade DEF RecordTyped
  <2> QED
    BY <1>3, <1>4, <1>7, <2>2 DEF Settles, Makes, MadeBy
<1>8. CASE Rescores
  <2> DEFINE s == Head(todo)
  <2>1. PICK turned : Makes(<<{Rescored(a, turned) : a \in RecordsOf(s, "task_outcome")}>>)
    BY <1>8 DEF Rescores
  <2>2. ASSUME NEW a \in RecordsOf(s, "task_outcome") PROVE RecordTyped(Rescored(a, turned))
    <3>1. a \in Known /\ Attempt(a) /\ RecordTyped(a) /\ OfExecution(a) /\ a.sol = s
      BY DEF RecordsOf, Known, Attempt, OfExecution, TypeInv
    <3>2. a.protocol # protocol
      BY <1>8, <3>1 DEF Rescores, Rescorable, AttemptsUnder
    <3>3. a.protocol \in 0..(protocol - 1) /\ protocol \in 1..protocol
      BY <1>2, <3>1, <3>2 DEF RecordTyped
    <3>4. a.sol \in Solution /\ Unserved[a.sol] = {}
      BY <1>8, <3>1, RunAssumption DEF Rescores, Rescorable, RecordTyped
    <3>5. Fits(Rescored(a, turned).accepted, a.case, a.sol)
      BY <3>1, <3>4, RescoredFields DEF RecordTyped, Fits
    <3> QED
      BY <3>1, <3>3, <3>5, RescoredFields DEF RecordTyped, SameOutput, OfExecution, Attempt
  <2> QED
    BY <1>3, <1>4, <2>1, <2>2, RescoredMade
<1> QED
  BY <1>1, <1>5, <1>6, <1>7, <1>8

LEMMA PlansSuffix ==
  ASSUME NEW s \in Seq(Solution), s # <<>>
  PROVE  /\ Head(s) \in Solution /\ Tail(s) \in Seq(Solution)
         /\ Range(s) = {Head(s)} \cup Range(Tail(s))
         /\ (\A i, j \in DOMAIN s : s[i] = s[j] => i = j) =>
              /\ Head(s) \notin Range(Tail(s))
              /\ \A i, j \in DOMAIN Tail(s) : Tail(s)[i] = Tail(s)[j] => i = j
<1>1. /\ Head(s) \in Solution /\ Tail(s) \in Seq(Solution) /\ Head(s) = s[1]
      /\ Len(s) \in Nat \ {0} /\ Len(Tail(s)) = Len(s) - 1
      /\ \A i \in 1..(Len(s) - 1) : Tail(s)[i] = s[i + 1]
  OBVIOUS
<1>2. DOMAIN s = 1..Len(s) /\ DOMAIN Tail(s) = 1..(Len(s) - 1)
  BY <1>1
<1>3. Range(s) \subseteq {Head(s)} \cup Range(Tail(s))
  <2> SUFFICES ASSUME NEW i \in 1..Len(s), i # 1 PROVE s[i] \in Range(Tail(s))
    BY <1>1, <1>2 DEF Range
  <2>1. i - 1 \in 1..(Len(s) - 1) /\ Tail(s)[i - 1] = s[i]
    BY <1>1
  <2> QED
    BY <1>2, <2>1 DEF Range
<1>4. {Head(s)} \cup Range(Tail(s)) \subseteq Range(s)
  BY <1>1, <1>2 DEF Range
<1>5. (\A i, j \in DOMAIN s : s[i] = s[j] => i = j) =>
        /\ Head(s) \notin Range(Tail(s))
        /\ \A i, j \in DOMAIN Tail(s) : Tail(s)[i] = Tail(s)[j] => i = j
  BY <1>1, <1>2 DEF Range
<1> QED
  BY <1>1, <1>3, <1>4, <1>5

(* The two agree on all that decides what is stored.                       *)
SameRecords(t, u) ==
  /\ DOMAIN t = DOMAIN Idle
  /\ t.sol = u.sol /\ t.scope = u.scope /\ t.exec = u.exec
  /\ t.scored = u.scored /\ t.bench = u.bench
  /\ t.healthy = u.healthy /\ t.report = u.report /\ t.logTail = u.logTail

Like(t, u) == SameRecords(t, u) /\ t.error = u.error /\ t.leaked = u.leaked

LEMMA LikeSteps ==
  ASSUME NEW t, DOMAIN t = DOMAIN Idle
  PROVE  /\ Like(t, t) /\ Like(Tick(t), t) /\ Like(CloseOpenPhases(t), t)
         /\ \A tag, log : Like(FailedBoot(t, tag, log), t)
<1> USE DEF Like, SameRecords, Idle
<1>1. Like(t, t)
  OBVIOUS
<1>2. Like(Tick(t), t)
  BY DEF Tick
<1>3. Like(CloseOpenPhases(t), t)
  BY DEF CloseOpenPhases
<1>4. ASSUME NEW tag, NEW log PROVE Like(FailedBoot(t, tag, log), t)
  BY DEF FailedBoot
<1> QED
  BY <1>1, <1>2, <1>3, <1>4

LEMMA RaisedLike ==
  ASSUME NEW t, DOMAIN t = DOMAIN Idle, NEW e
  PROVE  Like(Raised(t, e), [t EXCEPT !.error = e])
<1> DEFINE u == FailedBoot(t, "exception", e)
<1>1. Like(u, t)
  BY LikeSteps
<1> HIDE DEF u
<1>2. Like([u EXCEPT !.error = e], [t EXCEPT !.error = e])
  BY <1>1 DEF Like, SameRecords, Idle
<1> QED
  BY <1>2 DEF Raised, u

(* What each step of an execution does to it: the step ends it with an      *)
(* error, or goes on.                                                      *)
Erring(kinds) == pc' = "teardown" /\ \E e \in kinds : Like(x', [x EXCEPT !.error = e])

LEMMA RaisedErrs ==
  ASSUME DOMAIN x = DOMAIN Idle, NEW t, Like(t, x), NEW kinds, NEW e \in kinds,
         pc' = "teardown", x' = Raised(t, e)
  PROVE  Erring(kinds)
<1>1. Like([t EXCEPT !.error = e], [x EXCEPT !.error = e])
  BY DEF Like, SameRecords, Idle
<1>2. Like(x', [t EXCEPT !.error = e])
  BY RaisedLike DEF Like, SameRecords
<1>3. Like(x', [x EXCEPT !.error = e])
  BY <1>1, <1>2 DEF Like, SameRecords
<1> QED
  BY <1>3 DEF Erring

LEMMA BootSteps ==
  ASSUME DOMAIN x = DOMAIN Idle
  PROVE  /\ Provision => \/ pc' = "boot" /\ Like(x', x)
                         \/ Erring(FailureKinds \cup {"capacity"})
         /\ BootHarnessFailure => pc' \in {"boot", "teardown"} /\ Like(x', x)
         /\ BootModelFailure =>
              pc' = "teardown" /\ \E log : Like(x', [x EXCEPT !.logTail = log])
         /\ BootHealthy => pc' = "verify" /\ Like(x', [x EXCEPT !.healthy = TRUE])
         /\ BootRaises => Erring(FailureKinds)
         /\ TokenLeaks => /\ pc' = "teardown"
                          /\ Like(x', [x EXCEPT !.error = "stop", !.healthy = FALSE])
         /\ Verify => \/ pc' = "tasks" /\ Like(x', [x EXCEPT !.report = TRUE])
                      \/ Erring(FailureKinds)
<1> USE DEF Step, Fails, FailsAgain, Goto
<1>1. Like(x, x) /\ Like(Tick(x), x)
  BY LikeSteps
<1>2. ASSUME Provision
      PROVE  \/ pc' = "boot" /\ Like(x', x)
             \/ Erring(FailureKinds \cup {"capacity"})
  <2>1. CASE pc' = "boot" /\ x' = Tick(x)
    BY <1>1, <2>1
  <2>2. CASE \E e \in FailureKinds \cup {"capacity"} : pc' = "teardown" /\ x' = Raised(Tick(x), e)
    BY <1>1, <2>2, RaisedErrs
  <2> QED
    BY <1>2, <2>1, <2>2 DEF Provision
<1>3. ASSUME BootHarnessFailure PROVE pc' \in {"boot", "teardown"} /\ Like(x', x)
  <2> DEFINE t == Tick([x EXCEPT !.boot = @ + 1])
  <2>1. PICK tag, log : x' = FailedBoot(t, tag, log) /\ pc' \in {"boot", "teardown"}
    BY <1>3 DEF BootHarnessFailure
  <2>2. Like([x EXCEPT !.boot = @ + 1], x)
    BY DEF Like, SameRecords, Idle
  <2>3. Like(t, [x EXCEPT !.boot = @ + 1])
    BY <2>2, LikeSteps DEF Like, SameRecords
  <2>4. Like(x', t)
    BY <2>1, <2>3, LikeSteps DEF Like, SameRecords
  <2> QED
    BY <2>1, <2>2, <2>3, <2>4 DEF Like, SameRecords
<1>4. ASSUME BootModelFailure
      PROVE  pc' = "teardown" /\ \E log : Like(x', [x EXCEPT !.logTail = log])
  <2>1. PICK log : x' = [Tick(x) EXCEPT !.logTail = log] /\ pc' = "teardown"
    BY <1>4 DEF BootModelFailure
  <2>2. Like(x', [x EXCEPT !.logTail = log])
    BY <2>1 DEF Tick, Like, SameRecords, Idle
  <2> QED
    BY <2>1, <2>2
<1>5. BootHealthy => pc' = "verify" /\ Like(x', [x EXCEPT !.healthy = TRUE])
  BY DEF BootHealthy, Tick, Like, SameRecords, Idle
<1>6. BootRaises => Erring(FailureKinds)
  BY <1>1, RaisedErrs DEF BootRaises
<1>7. ASSUME TokenLeaks
      PROVE  pc' = "teardown" /\ Like(x', [x EXCEPT !.error = "stop", !.healthy = FALSE])
  BY <1>7 DEF TokenLeaks, FailedBoot, Like, SameRecords, Idle
<1>8. ASSUME Verify
      PROVE  \/ pc' = "tasks" /\ Like(x', [x EXCEPT !.report = TRUE])
             \/ Erring(FailureKinds)
  <2>1. CASE pc' = "tasks" /\ x' = [x EXCEPT !.report = TRUE, !.taskStart = x.clock]
    BY <2>1 DEF Like, SameRecords, Idle
  <2>2. CASE \E e \in FailureKinds : pc' = "teardown" /\ x' = Raised(x, e)
    BY <1>1, <2>2, RaisedErrs
  <2> QED
    BY <1>8, <2>1, <2>2 DEF Verify
<1> QED
  BY <1>2, <1>3, <1>4, <1>5, <1>6, <1>7, <1>8

LEMMA SuiteCovers ==
  ASSUME NEW s, NEW first \in FirstRound(s), NEW second \in [FailedIn(first) -> Outcome]
  PROVE  Covers(Suite(first, second), s)
<1> DEFINE suite == Suite(first, second)
<1> DEFINE cases == SuiteOf[s]
<1>1. /\ DOMAIN first = cases
      /\ \A c \in cases : first[c] = "skipped" <=> c \in Unserved[s]
      /\ \A c \in cases : first[c] = "failed" => second[c] \in Outcome
  BY DEF FirstRound, FailedIn
<1>2. "skipped" \notin Outcome
  BY RunAssumption
<1>3. \A a \in suite :
        \/ \E c \in cases : a = Scored(c, 0, first[c])
        \/ \E c \in cases : first[c] = "failed" /\ a = Scored(c, 1, second[c])
  BY <1>1 DEF Suite, FailedIn
<1>4. \A a \in suite : /\ a.case \in cases
                       /\ \/ a = Scored(a.case, 0, first[a.case]) /\ a.retry = 0
                          \/ a = Scored(a.case, 1, second[a.case]) /\ a.retry = 1 /\ first[a.case] = "failed"
  BY <1>3 DEF Scored
<1>5. \A a, b \in suite : a.case = b.case /\ a.retry = b.retry => a = b
  BY <1>4
<1>6. \A c \in cases : /\ Scored(c, 0, first[c]) \in suite /\ Scored(c, 0, first[c]).case = c
                       /\ Scored(c, 0, first[c]).retry = 0
  BY <1>1 DEF Suite, Scored
<1>7. \A c \in cases : \E a \in suite : a.case = c /\ a.retry = 0
  BY <1>6
<1>8. \A a, b \in suite : a.case = b.case /\ a.retry = 1 /\ b.retry = 0 => b.outcome = "failed"
  BY <1>4 DEF Scored
<1>9. \A a \in suite : a.retry = 0 /\ a.outcome = "failed" =>
                        \E b \in suite : b.case = a.case /\ b.retry = 1
  <2> SUFFICES ASSUME NEW a \in suite, a.retry = 0, a.outcome = "failed"
               PROVE  \E b \in suite : b.case = a.case /\ b.retry = 1
    OBVIOUS
  <2>1. a.case \in cases /\ first[a.case] = "failed"
    BY <1>4 DEF Scored
  <2>2. Scored(a.case, 1, second[a.case]) \in suite
    BY <1>1, <2>1 DEF Suite, FailedIn
  <2> QED
    BY <2>2 DEF Scored
<1>10. ASSUME NEW a \in suite PROVE Fits(a.outcome, a.case, s)
  <2>1. CASE a = Scored(a.case, 0, first[a.case])
    <3>1. a.outcome = first[a.case]
      BY <2>1 DEF Scored
    <3> QED
      BY <1>1, <1>4, <3>1 DEF Fits
  <2>2. CASE a = Scored(a.case, 1, second[a.case]) /\ first[a.case] = "failed"
    <3>1. a.outcome = second[a.case]
      BY <2>2 DEF Scored
    <3> QED
      BY <1>1, <1>2, <1>4, <2>2, <3>1 DEF Fits
  <2> QED
    BY <1>4, <2>1, <2>2
<1> HIDE DEF suite
<1> QED
  BY <1>4, <1>5, <1>7, <1>8, <1>9, <1>10 DEF Covers, suite

LEMMA NothingCovers == \A s : Covers({}, s)
  BY DEF Covers

LEMMA NoChatCovers ==
  ASSUME NEW s, s \notin Chat PROVE Covers({Scored(c, 0, "failed") : c \in SuiteOf[s]}, s)
<1> DEFINE failed == {Scored(c, 0, "failed") : c \in SuiteOf[s]}
<1>1. \A a \in failed : /\ a.case \in SuiteOf[s] /\ a.retry = 0 /\ a.outcome = "failed"
                        /\ a = Scored(a.case, 0, "failed")
  BY DEF Scored
<1>2. \A c \in SuiteOf[s] : \E a \in failed : a.case = c /\ a.retry = 0
  <2>1. \A c \in SuiteOf[s] : Scored(c, 0, "failed") \in failed
    OBVIOUS
  <2> HIDE DEF failed
  <2> QED
    BY <2>1 DEF Scored
<1> HIDE DEF failed
<1>3. Covers(failed, s)
  BY <1>1, <1>2 DEF Covers, Fits
<1> QED
  BY <1>3 DEF failed

LEMMA TaskSteps ==
  ASSUME DOMAIN x = DOMAIN Idle, Tasks
  PROVE  \/ pc' = "serving" /\ Like(x', x)
         \/ Erring(FailureKinds)
         \/ \E scored :
              /\ x.scope.task /\ Covers(scored, x.sol)
              /\ \/ pc' = "serving" /\ Like(x', [x EXCEPT !.scored = scored])
                 \/ /\ pc' = "teardown"
                    /\ \E e \in FailureKinds : Like(x', [x EXCEPT !.scored = scored, !.error = e])
<1> DEFINE Ended(t) == [t EXCEPT !.taskEnd = t.clock]
           Handed(t, scored) ==
             \/ pc' = "serving" /\ x' = Ended([t EXCEPT !.scored = scored])
             \/ \E e \in FailureKinds : pc' = "teardown" /\ x' = Raised([t EXCEPT !.scored = scored], e)
           Given(scored) ==
              \/ pc' = "serving" /\ Like(x', [x EXCEPT !.scored = scored])
              \/ /\ pc' = "teardown"
                 /\ \E e \in FailureKinds : Like(x', [x EXCEPT !.scored = scored, !.error = e])
<1>1. Like(x, x) /\ Like(Tick(x), x)
  BY LikeSteps
<1>2. ASSUME NEW t, Like(t, x), NEW scored, Handed(t, scored) PROVE Given(scored)
  <2> DEFINE u == [t EXCEPT !.scored = scored]
  <2>1. Like(u, [x EXCEPT !.scored = scored])
    BY <1>2 DEF Like, SameRecords, Idle
  <2>2. CASE pc' = "serving" /\ x' = Ended(u)
    BY <2>1, <2>2 DEF Like, SameRecords, Idle
  <2>3. CASE \E e \in FailureKinds : pc' = "teardown" /\ x' = Raised(u, e)
    <3>1. PICK e \in FailureKinds : pc' = "teardown" /\ x' = Raised(u, e)
      BY <2>3
    <3>2. DOMAIN u = DOMAIN Idle
      BY <2>1 DEF Like, SameRecords
    <3> HIDE DEF u
    <3>4. Like(x', [u EXCEPT !.error = e])
      BY <3>1, <3>2, RaisedLike DEF Like, SameRecords
    <3>3. Like([u EXCEPT !.error = e], [x EXCEPT !.scored = scored, !.error = e])
      BY <2>1 DEF Like, SameRecords, Idle
    <3> QED
      BY <3>1, <3>3, <3>4 DEF Like, SameRecords
  <2> QED
    BY <1>2, <2>2, <2>3
<1>3. CASE ~x.scope.task /\ Step("tasks", Ended(x), "serving")
  BY <1>3 DEF Step, Goto, Like, SameRecords, Idle
<1>4. CASE /\ x.scope.task /\ x.sol \notin Chat
           /\ Handed(x, {Scored(c, 0, "failed") : c \in SuiteOf[x.sol]})
  <2>1. Given({Scored(c, 0, "failed") : c \in SuiteOf[x.sol]})
    BY <1>1, <1>2, <1>4
  <2> QED
    BY <1>4, <2>1, NoChatCovers
<1>5. CASE \E first \in FirstRound(x.sol) : \E second \in [FailedIn(first) -> Outcome] :
             x.scope.task /\ x.sol \in Chat /\ Handed(Tick(x), Suite(first, second))
  <2>1. PICK first \in FirstRound(x.sol) : \E second \in [FailedIn(first) -> Outcome] :
               x.scope.task /\ x.sol \in Chat /\ Handed(Tick(x), Suite(first, second))
    BY <1>5
  <2>2. PICK second \in [FailedIn(first) -> Outcome] :
               x.scope.task /\ x.sol \in Chat /\ Handed(Tick(x), Suite(first, second))
    BY <2>1
  <2>3. Given(Suite(first, second))
    BY <1>1, <1>2, <2>2
  <2> QED
    BY <2>2, <2>3, SuiteCovers
<1>6. CASE \E e \in FailureKinds : Fails("tasks", Raised(Tick(x), e), "teardown")
  BY <1>1, <1>6, RaisedErrs DEF Fails, Goto
<1> QED
  BY <1>3, <1>4, <1>5, <1>6 DEF Tasks, Step, Fails, Goto

LEMMA ServingSteps ==
  ASSUME DOMAIN x = DOMAIN Idle, Serving
  PROVE  \/ pc' = "teardown" /\ Like(x', x)
         \/ Erring(FailureKinds)
         \/ /\ x.scope.serving /\ pc' = "teardown"
            /\ \E verdict : Like(x', [x EXCEPT !.bench = verdict])
<1> DEFINE started == Tick([x EXCEPT !.servingStart = x.clock])
<1>1. Like(started, x)
  BY DEF Tick, Like, SameRecords, Idle
<1>2. CASE \E e \in FailureKinds : Fails("serving", Raised(started, e), "teardown")
  BY <1>1, <1>2, RaisedErrs DEF Fails, Goto
<1>3. CASE Step("serving", x, "teardown")
  BY <1>3, LikeSteps DEF Step, Goto
<1>4. CASE \E verdict : /\ x.scope.serving
                        /\ Step("serving", [started EXCEPT !.bench = verdict, !.servingEnd = started.clock],
                                "teardown")
  BY <1>1, <1>4 DEF Step, Goto, Like, SameRecords, Idle
<1> QED
  BY <1>2, <1>3, <1>4 DEF Serving

(* The teardown adds a failed boot at most, and an error.                  *)
LEMMA TeardownSteps ==
  ASSUME DOMAIN x = DOMAIN Idle, Teardown
  PROVE  /\ pc' = "settle"
         /\ SameRecords(x', x)
         /\ x'.error = x.error \/ x'.error = "unexpected"
         /\ leakSeen' => leakSeen \/ x'.leaked
<1>1. ASSUME NEW t, SameRecords(t, x), x' = CloseOpenPhases(t) \/ x' = CloseOpenPhases(Tick(t))
      PROVE  SameRecords(x', x) /\ x'.error = t.error /\ x'.leaked = t.leaked
  <2>1. Like(x', t) \/ (Like(x', Tick(t)) /\ Like(Tick(t), t))
    BY <1>1, LikeSteps DEF Like, SameRecords
  <2> QED
    BY <1>1, <2>1 DEF Like, SameRecords
<1>2. CASE (x' = CloseOpenPhases(x) \/ x' = CloseOpenPhases(Tick(x))) /\ leakSeen' = leakSeen
  <2>1. SameRecords(x, x)
    BY DEF SameRecords
  <2> QED
    BY <1>1, <1>2, <2>1 DEF Teardown
<1>3. CASE x' = CloseOpenPhases(Tick([FailedBoot(x, "leak", "leak") EXCEPT !.leaked = TRUE]))
  <2> DEFINE t == [FailedBoot(x, "leak", "leak") EXCEPT !.leaked = TRUE]
  <2>1. SameRecords(t, x) /\ t.error = x.error /\ t.leaked
    BY DEF FailedBoot, SameRecords, Idle
  <2> HIDE DEF t
  <2> QED
    BY <1>1, <1>3, <2>1 DEF Teardown, t
<1>4. CASE /\ x' = CloseOpenPhases(Tick([FailedBoot(x, "teardown", "error")
                  EXCEPT !.error = IF @ = "none" THEN "unexpected" ELSE @]))
           /\ leakSeen' = leakSeen
  <2> DEFINE t == [FailedBoot(x, "teardown", "error")
                  EXCEPT !.error = IF @ = "none" THEN "unexpected" ELSE @]
  <2>1. SameRecords(t, x) /\ (t.error = x.error \/ t.error = "unexpected")
    BY DEF FailedBoot, SameRecords, Idle
  <2>2. x' = CloseOpenPhases(Tick(t))
    BY <1>4
  <2> HIDE DEF t
  <2> QED
    BY <1>1, <1>4, <2>1, <2>2 DEF Teardown
<1> QED
  BY <1>2, <1>3, <1>4 DEF Teardown

(* The steps of an execution leave the loop and the records alone.         *)
ExecutionStep ==
  \/ Provision \/ BootHarnessFailure \/ BootModelFailure \/ BootHealthy \/ BootRaises
  \/ TokenLeaks \/ Verify \/ Tasks \/ Serving \/ Teardown

LEMMA ExecutionSteps ==
  ASSUME DOMAIN x = DOMAIN Idle, ExecutionStep
  PROVE  /\ pc \in Executing \ {"settle"} /\ pc' \in Executing
         /\ pc' \in {"teardown", "settle"} \/ pc \notin {"teardown", "settle"}
         /\ DOMAIN x' = DOMAIN Idle
         /\ x'.sol = x.sol /\ x'.exec = x.exec /\ x'.scope = x.scope
         /\ UNCHANGED <<store, manifest, protocol, repeat, repeated, todo, writes, result,
                        executions, cut, lapsed>>
<1>1. /\ pc \in Executing \ {"settle"} /\ pc' \in Executing
      /\ pc' \in {"teardown", "settle"} \/ pc \notin {"teardown", "settle"}
      /\ UNCHANGED <<store, manifest, protocol, repeat, repeated, todo, writes, result,
                     executions, cut, lapsed>>
  BY DEF ExecutionStep, Provision, BootHarnessFailure, BootModelFailure, BootHealthy,
         BootRaises, TokenLeaks, Verify, Tasks, Serving, Teardown, Step, Fails, FailsAgain,
         Goto, Executing, files
<1>2. DOMAIN x' = DOMAIN Idle /\ x'.sol = x.sol /\ x'.exec = x.exec /\ x'.scope = x.scope
  <2>1. CASE Teardown
    BY <2>1, TeardownSteps DEF SameRecords
  <2>2. CASE Erring(FailureKinds \cup {"capacity"})
    BY <2>2 DEF Erring, Like, SameRecords, Idle
  <2>3. Erring(FailureKinds) => Erring(FailureKinds \cup {"capacity"})
    BY DEF Erring
  <2>4. CASE Serving
    BY <2>2, <2>3, <2>4, ServingSteps DEF Like, SameRecords, Idle
  <2>5. CASE Tasks
    BY <2>2, <2>3, <2>5, TaskSteps DEF Like, SameRecords, Idle
  <2>6. CASE \/ Provision \/ BootHarnessFailure \/ BootModelFailure \/ BootHealthy
            \/ BootRaises \/ TokenLeaks \/ Verify
    BY <2>2, <2>3, <2>6, BootSteps DEF Like, SameRecords, Idle
  <2> QED
    BY <2>1, <2>4, <2>5, <2>6 DEF ExecutionStep
<1> QED
  BY <1>1, <1>2

LEMMA UnnamedSolutions == ASSUME TypeInv, AccountInv PROVE Unnamed \subseteq Solution
  BY DEF TypeInv, AccountInv, Unnamed, RescoreSteps

LEMMA TypeNext == ASSUME TypeInv, PhaseInv, AccountInv, [Next]_vars PROVE TypeInv'
<1> USE DEF TypeInv, vars, files, process, history
<1> DEFINE
      Elsewhere == /\ (manifest \cup lapsed)' \subseteq Solution \X (1..protocol')
                   /\ protocol' \in 1..MaxProtocol /\ executions' \in Nat
                   /\ todo' \in Seq(Solution)
                   /\ repeat' => repeated'
                   /\ pc' \notin {"store", "rescoreStore"} => writes' = <<>>
                   /\ pc' \in {"down"} \cup RunSteps \cup RescoreSteps
                   /\ DOMAIN result' = DOMAIN NoResult
      Hand == DOMAIN x' = DOMAIN Idle /\ x'.sol \in Solution
<1> USE DEF RunSteps, RescoreSteps, InHand, Executing
<1>1. \A r \in Known' : RecordTyped(r)'
  BY RecordsTyped
<1>2. Idle.sol \in Solution
  BY SolutionNotEmpty
<1>3. CASE ExecutionStep
  BY <1>1, <1>3, ExecutionSteps
<1>4. CASE SettleRaises \/ Settle
  <2>1. Hand
    BY <1>4 DEF SettleRaises, Settle, Fails, Handled, Idle
  <2>2. Elsewhere
    BY <1>4 DEF SettleRaises, Settle, Fails, Goto
  <2> QED
    BY <1>1, <2>1, <2>2
<1>5. CASE Launch \/ ChangeProtocol \/ LaunchRescore
  <2>1. Elsewhere
    <3>1. Plans \in Seq(Solution)
      BY SolutionNotEmpty
    <3>2. CASE Launch
      <4>1. repeat' => repeated'
        BY <3>2, Zenon DEF Launch
      <4> QED
        BY <3>1, <3>2, <4>1 DEF Launch, NoResult
    <3>4. CASE LaunchRescore
      BY <3>1, <3>4 DEF LaunchRescore
    <3>3. CASE ChangeProtocol
      BY <3>3, RunAssumption DEF ChangeProtocol
    <3> QED
      BY <1>5, <3>2, <3>3, <3>4
  <2>2. Hand
    BY <1>5 DEF Launch, ChangeProtocol, LaunchRescore
  <2> QED
    BY <1>1, <2>1, <2>2
<1>6. CASE Crash \/ Exit
  <2>1. <<>> \in Seq(Solution)
    OBVIOUS
  <2>4. (manifest \cup lapsed)' \subseteq Solution \X (1..protocol')
    <3>1. CASE Crash
      <4>1. protocol \in 1..protocol
        BY RunAssumption
      <4>2. {<<s, protocol>> : s \in Unnamed} \subseteq Solution \X (1..protocol)
        BY <4>1, UnnamedSolutions
      <4> QED
        BY <3>1, <4>2 DEF Crash
    <3> QED
      BY <1>6, <3>1 DEF Exit
  <2>3. Elsewhere
    BY <1>6, <2>1, <2>4 DEF Crash, Exit
  <2>2. Hand
    BY <1>2, <1>6 DEF Crash, Exit
  <2> QED
    BY <1>1, <2>2, <2>3
<1>7. CASE ClosePool \/ IndexFails \/ LoopEnd \/ RescoreNamed \/ RescoreDone \/ RescoreStored
            \/ UNCHANGED vars
  <2>1. Elsewhere
    <3>1. CASE RescoreNamed
      <4>1. result.executed \subseteq Solution
        BY <3>1 DEF AccountInv, RescoreNamed
      <4> QED
        BY <3>1, <4>1 DEF RescoreNamed
    <3> QED
      BY <1>7, <3>1 DEF ClosePool, IndexFails, LoopEnd, RescoreStored, RescoreDone
  <2>2. Hand
    BY <1>2, <1>7 DEF ClosePool, IndexFails, LoopEnd, RescoreNamed, RescoreDone, RescoreStored
  <2> QED
    BY <1>1, <2>1, <2>2
<1>8. CASE RecordIdentity \/ RescoreSolution
  <2>1. todo # <<>> /\ Head(todo) \in Solution /\ Tail(todo) \in Seq(Solution)
    BY <1>8, PlansSuffix DEF RecordIdentity, RescoreSolution
  <2>4. (manifest \cup lapsed)' \subseteq Solution \X (1..protocol')
    <3>1. protocol \in 1..protocol
      BY RunAssumption
    <3> QED
      BY <1>8, <2>1, <3>1 DEF RecordIdentity, RescoreSolution
  <2>2. Elsewhere
    <3>1. CASE RecordIdentity
      BY <2>1, <2>4, <3>1 DEF RecordIdentity
    <3>2. CASE RescoreSolution
      <4>1. pc' = "rescoreStore" \/ (pc' = pc /\ writes' = writes)
        BY <3>2 DEF RescoreSolution
      <4> QED
        BY <2>1, <2>4, <3>2, <4>1 DEF RescoreSolution
    <3> QED
      BY <1>8, <3>1, <3>2
  <2>3. Hand
    BY <1>8, <2>1 DEF RecordIdentity, RescoreSolution, Idle
  <2> QED
    BY <1>1, <2>2, <2>3
<1>9. CASE PredictionError \/ AlreadyMeasured \/ CannotAfford \/ ToExecute \/ NoCapacity \/ Begin
  <2>1. Elsewhere
    BY <1>9 DEF PredictionError, AlreadyMeasured, CannotAfford, ToExecute, NoCapacity, Begin, NoResult
  <2>2. Hand
    BY <1>9 DEF PredictionError, AlreadyMeasured, CannotAfford, ToExecute, NoCapacity, Begin, Idle
  <2> QED
    BY <1>1, <2>1, <2>2
<1>10. CASE StoreNext \/ InvalidRecord \/ StoreDone
  <2>1. Elsewhere
    BY <1>10 DEF StoreNext, InvalidRecord, StoreDone
  <2>2. Hand
    BY <1>10 DEF StoreNext, InvalidRecord, StoreDone, Idle
  <2> QED
    BY <1>1, <2>1, <2>2
<1>11. CASE Executed \/ StopsRun \/ Interrupted \/ HarnessFailure \/ UnexpectedFailure
             \/ CapacityRefused \/ IterationEnd
  <2>1. Elsewhere
    <3>1. DOMAIN Skipped = DOMAIN result /\ DOMAIN Stopped = DOMAIN result
      BY DEF Skipped, Stopped
    <3>2. DOMAIN result' = DOMAIN result
      BY <1>11, <3>1 DEF Executed, StopsRun, Interrupted, HarnessFailure, UnexpectedFailure,
                 CapacityRefused, IterationEnd, Ends
    <3> QED
      BY <1>11, <3>2 DEF Executed, StopsRun, Interrupted, HarnessFailure, UnexpectedFailure,
                 CapacityRefused, IterationEnd, Ends
  <2>2. Hand
    BY <1>2, <1>11 DEF Executed, StopsRun, Interrupted, HarnessFailure, UnexpectedFailure,
                 CapacityRefused, IterationEnd, Ends, Idle
  <2> QED
    BY <1>1, <2>1, <2>2
<1> QED
  BY <1>3, <1>4, <1>5, <1>6, <1>7, <1>8, <1>9, <1>10, <1>11 DEF Next, Run, Waits, Goes, ExecutionStep

-----------------------------------------------------------------------------
(* One execution, step by step.                                            *)

(* The kinds of exception are not the marks the invariant distinguishes.   *)
LEMMA KindsOfError == \A e \in FailureKinds : e # "capacity" /\ e # "none"
  BY RunAssumption

LEMMA FreshNext ==
  ASSUME TypeInv, PhaseInv, [Next]_vars, pc' \in Executing
  PROVE  /\ x'.exec \in 1..executions'
         /\ \A r \in store' : OfExecution(r) => r.exec # x'.exec
<1> USE DEF TypeInv, vars, files, process, history
<1>1. CASE ExecutionStep
  BY <1>1, ExecutionSteps DEF PhaseInv, Executing
<1>2. CASE Begin
  <2>1. x'.exec = executions + 1 /\ executions' = executions + 1 /\ store' = store
    BY <1>2 DEF Begin, Executing, Idle
  <2>2. \A r \in store : OfExecution(r) => r.exec \in 1..executions
    BY DEF RecordTyped, Known
  <2> QED
    BY <2>1, <2>2
<1>3. CASE UNCHANGED vars
  BY <1>3 DEF PhaseInv
<1> QED
  BY <1>1, <1>2, <1>3 DEF Next, Run, Waits, Goes, ExecutionStep, Executing, Launch, LaunchRescore,
     ChangeProtocol, Crash, IndexFails, RecordIdentity, PredictionError, AlreadyMeasured,
     CannotAfford, ToExecute, NoCapacity, SettleRaises, Fails, Goto, Settle, StoreNext, InvalidRecord,
     StoreDone, Executed, StopsRun, Interrupted, HarnessFailure, UnexpectedFailure, Ends,
     CapacityRefused, IterationEnd, LoopEnd, ClosePool, Exit, RescoreSolution,
     RescoreStored, RescoreNamed, RescoreDone

LEMMA LeakyNext ==
  ASSUME TypeInv, PhaseInv, [Next]_vars
  PROVE  /\ leakyTokens' \subseteq 1..executions'
         /\ pc' \in Executing \ {"teardown", "settle"} => x'.exec \notin leakyTokens'
<1> USE DEF TypeInv, PhaseInv, vars, files, process, history
<1>1. /\ executions \in 0..executions' /\ executions' \in Nat
      /\ \/ leakyTokens' = leakyTokens
         \/ pc = "verify" /\ leakyTokens' = leakyTokens \cup {x.exec}
  BY RecordSteps DEF Grows
<1>2. leakyTokens' \subseteq 1..executions'
  <2>1. pc = "verify" => x.exec \in 1..executions
    BY DEF Executing
  <2> HIDE DEF TypeInv, PhaseInv
  <2>2. 1..executions \subseteq 1..executions'
    BY <1>1
  <2>3. leakyTokens \subseteq 1..executions
    BY DEF PhaseInv
  <2>4. CASE leakyTokens' = leakyTokens
    BY <2>2, <2>3, <2>4
  <2>5. CASE pc = "verify" /\ leakyTokens' = leakyTokens \cup {x.exec}
    <3>1. x.exec \in 1..executions'
      BY <2>1, <2>2, <2>5
    <3> QED
      BY <2>2, <2>3, <2>5, <3>1
  <2> QED
    BY <1>1, <2>4, <2>5
<1>3. ASSUME pc' \in Executing \ {"teardown", "settle"} PROVE x'.exec \notin leakyTokens'
  <2>1. CASE ExecutionStep
    <3>1. pc \in Executing \ {"teardown", "settle"} /\ x'.exec = x.exec
      BY <1>3, <2>1, ExecutionSteps DEF Executing
    <3>2. leakyTokens' = leakyTokens
      BY <1>3, <2>1 DEF ExecutionStep, Provision, BootHarnessFailure, BootModelFailure,
         BootHealthy, BootRaises, TokenLeaks, Verify, Tasks, Serving, Teardown, Step, Fails,
         FailsAgain, Goto, Executing
    <3> QED
      BY <3>1, <3>2
  <2>2. CASE Begin
    <3>1. x'.exec = executions + 1 /\ leakyTokens' = leakyTokens
      BY <1>3, <2>2 DEF Begin, Executing, Idle
    <3> QED
      BY <3>1
  <2>3. CASE UNCHANGED vars
    BY <1>3, <2>3
  <2> QED
    BY <1>3, <2>1, <2>2, <2>3
       DEF Next, Run, Waits, Goes, ExecutionStep, Executing, Launch, LaunchRescore,
     ChangeProtocol, Crash, IndexFails, RecordIdentity, PredictionError, AlreadyMeasured,
     CannotAfford, ToExecute, NoCapacity, SettleRaises, Fails, Goto, Settle, StoreNext, InvalidRecord,
     StoreDone, Executed, StopsRun, Interrupted, HarnessFailure, UnexpectedFailure, Ends,
     CapacityRefused, IterationEnd, LoopEnd, ClosePool, Exit, RescoreSolution,
     RescoreStored, RescoreNamed, RescoreDone
<1> QED
  BY <1>2, <1>3

(* What the steps before the boot is healthy leave of an execution.        *)
Blank(t) == Unmeasured(t) /\ Unfailed(t) /\ ~t.healthy /\ ~t.report

LEMMA IdleBlank ==
  ASSUME NEW s, NEW scope
  PROVE  /\ Blank(Idle) /\ Blank([Idle EXCEPT !.sol = s])
         /\ Blank([Idle EXCEPT !.sol = s, !.scope = scope, !.tries = x.tries + 1])
  BY DEF Blank, Idle, Unmeasured, Unfailed

(* An execution that ended with an error before anything was measured.     *)
LEMMA ErringPhase ==
  ASSUME TypeInv, PhaseInv, Erring(FailureKinds \cup {"capacity"}), leakyTokens' = leakyTokens,
         pc \in {"provision", "boot", "verify", "tasks"}
         \/ (pc = "serving" /\ Erring(FailureKinds))
  PROVE  /\ SuiteShape(x)'
         /\ ~Unmeasured(x') => x'.healthy /\ x'.report
         /\ x'.bench # "none" => x'.scope.serving
         /\ x'.exec \in leakyTokens' => Unmeasured(x') /\ x'.logTail = "none" /\ ~x'.healthy
         /\ x'.error = "capacity" => Unmeasured(x')
<1>1. SameRecords(x', x)
  BY DEF Erring, Like, SameRecords, TypeInv, Idle
<1>2. x'.error = "capacity" => pc # "serving"
  BY KindsOfError DEF Erring, Like, SameRecords, TypeInv, Idle
<1>3. Unmeasured(x) \/ (pc = "serving" /\ SuiteShape(x) /\ x.bench = "none" /\ x.healthy /\ x.report)
  BY DEF PhaseInv
<1>4. x.exec \notin leakyTokens
  BY DEF PhaseInv, Executing
<1>5. SuiteShape(x)'
  <2>1. CASE Unmeasured(x)
    <3>1. x'.scored = {}
      BY <1>1, <2>1 DEF SameRecords, Unmeasured
    <3> QED
      BY <3>1 DEF SuiteShape, Covers
  <2>2. CASE SuiteShape(x)
    BY <1>1, <2>2 DEF SameRecords, SuiteShape
  <2> QED
    BY <1>3, <2>1, <2>2
<1> QED
  BY <1>1, <1>2, <1>3, <1>4, <1>5 DEF SameRecords, Unmeasured

LEMMA PhaseNext == ASSUME TypeInv, PhaseInv, [Next]_vars PROVE PhaseInv'
<1> USE DEF TypeInv, vars, files, process, history
<1> DEFINE
      Early == pc' \in {"claim", "capacity", "provision", "boot"} =>
                 Unmeasured(x') /\ Unfailed(x') /\ ~x'.healthy /\ ~x'.report
      Booted == pc' \in {"verify", "tasks"} => Unmeasured(x') /\ Unfailed(x') /\ x'.healthy
      Served == pc' = "serving" => x'.bench = "none" /\ Unfailed(x') /\ x'.healthy
      Reported == pc' \in {"tasks", "serving"} => x'.report
      Shaped == pc' \in {"serving", "teardown", "settle"} => SuiteShape(x)'
      Ended ==
        pc' \in {"teardown", "settle"} =>
          /\ ~Unmeasured(x') => x'.healthy /\ x'.report
          /\ x'.bench # "none" => x'.scope.serving
          /\ x'.exec \in leakyTokens' => Unmeasured(x') /\ x'.logTail = "none" /\ ~x'.healthy
          /\ x'.error = "capacity" => Unmeasured(x')
      Phased == Early /\ Booted /\ Served /\ Reported /\ Shaped /\ Ended
<1>1. Phased => PhaseInv'
  BY FreshNext, LeakyNext DEF PhaseInv
<1> HIDE DEF Phased
<1>2. ASSUME pc' = pc, x' = x, leakyTokens' = leakyTokens PROVE Phased
  BY <1>2 DEF PhaseInv, SuiteShape, Phased
<1>3. ASSUME pc' \notin {"claim", "capacity"} \cup Executing PROVE Phased
  BY <1>3 DEF Phased, Executing
<1>4. ASSUME pc' \in {"claim", "capacity", "provision", "boot"}, Blank(x') PROVE Phased
  BY <1>4 DEF Phased, Blank
<1>5. ASSUME ExecutionStep PROVE Phased
  <2>1. ASSUME pc \in {"provision", "boot", "verify", "tasks"}
               \/ (pc = "serving" /\ Erring(FailureKinds)),
               Erring(FailureKinds \cup {"capacity"}), leakyTokens' = leakyTokens
        PROVE  Phased
    BY <2>1, ErringPhase DEF Erring, Phased
  <2>2. Erring(FailureKinds) => Erring(FailureKinds \cup {"capacity"})
    BY DEF Erring
  <2>3. CASE Provision \/ BootHarnessFailure \/ BootModelFailure \/ BootHealthy \/ BootRaises
    <3>1. Blank(x) /\ pc \in {"provision", "boot"} /\ leakyTokens' = leakyTokens
      BY <2>3 DEF PhaseInv, Blank, Provision, BootHarnessFailure, BootModelFailure,
                  BootHealthy, BootRaises, Step, Fails, FailsAgain, Goto
    <3>2. CASE pc' = "boot" /\ Like(x', x)
      BY <1>4, <3>1, <3>2 DEF Blank, Unmeasured, Unfailed, Like, SameRecords
    <3>3. CASE pc' = "teardown" /\ Like(x', x)
      BY <3>1, <3>3 DEF Phased, Blank, Unmeasured, Unfailed, Like, SameRecords, SuiteShape, Covers
    <3>4. CASE pc' = "teardown" /\ \E log : Like(x', [x EXCEPT !.logTail = log])
      <4>1. /\ Unmeasured(x') /\ x'.error = "none" /\ x'.exec = x.exec
        BY <3>1, <3>4 DEF Blank, Unmeasured, Unfailed, Like, SameRecords, Idle
      <4>2. x.exec \notin leakyTokens
        BY <3>1 DEF PhaseInv, Executing
      <4> QED
        BY <3>1, <3>4, <4>1, <4>2 DEF Phased, Unmeasured, SuiteShape, Covers
    <3>5. CASE pc' = "verify" /\ Like(x', [x EXCEPT !.healthy = TRUE])
      BY <3>1, <3>5 DEF Phased, Blank, Unmeasured, Unfailed, Like, SameRecords, Idle
    <3> QED
      BY <2>1, <2>2, <2>3, <3>1, <3>2, <3>3, <3>4, <3>5, BootSteps
  <2>4. CASE TokenLeaks
    <3>1. /\ pc' = "teardown" /\ pc = "verify" /\ Unmeasured(x') /\ ~x'.healthy
          /\ x'.logTail = "none" /\ x'.error = "stop"
      BY <2>4, BootSteps DEF TokenLeaks, PhaseInv, Unmeasured, Unfailed, Like, SameRecords, Idle
    <3> QED
      BY <3>1 DEF Phased, Unmeasured, SuiteShape, Covers
  <2>5. CASE Verify
    <3>1. pc = "verify" /\ Unmeasured(x) /\ Unfailed(x) /\ x.healthy /\ leakyTokens' = leakyTokens
      BY <2>5 DEF Verify, Step, Fails, Goto, PhaseInv
    <3>2. CASE pc' = "tasks" /\ Like(x', [x EXCEPT !.report = TRUE])
      BY <3>1, <3>2 DEF Phased, Unmeasured, Unfailed, Like, SameRecords, Idle
    <3> QED
      BY <2>1, <2>2, <2>5, <3>1, <3>2, BootSteps
  <2>6. CASE Tasks
    <3>1. /\ pc = "tasks" /\ Unmeasured(x) /\ Unfailed(x) /\ x.healthy /\ x.report
          /\ leakyTokens' = leakyTokens /\ x.exec \notin leakyTokens
      BY <2>6 DEF Tasks, Step, Fails, Goto, PhaseInv, Executing
    <3>2. CASE pc' = "serving" /\ Like(x', x)
      BY <3>1, <3>2 DEF Phased, Unmeasured, Unfailed, Like, SameRecords, SuiteShape, Covers
    <3>3. ASSUME NEW scored, x.scope.task, Covers(scored, x.sol),
                 pc' = "serving", Like(x', [x EXCEPT !.scored = scored])
          PROVE  Phased
      BY <3>1, <3>3 DEF Phased, Unmeasured, Unfailed, Like, SameRecords, SuiteShape, Idle
    <3>4. ASSUME NEW scored, x.scope.task, Covers(scored, x.sol), pc' = "teardown",
                 NEW e \in FailureKinds, Like(x', [x EXCEPT !.scored = scored, !.error = e])
          PROVE  Phased
      BY <3>1, <3>4, KindsOfError
         DEF Phased, Unmeasured, Unfailed, Like, SameRecords, SuiteShape, Idle
    <3> QED
      BY <2>1, <2>2, <2>6, <3>1, <3>2, <3>3, <3>4, TaskSteps
  <2>7. CASE Serving
    <3>1. /\ pc = "serving" /\ SuiteShape(x) /\ x.bench = "none" /\ Unfailed(x)
          /\ x.healthy /\ x.report
          /\ leakyTokens' = leakyTokens /\ x.exec \notin leakyTokens
      BY <2>7 DEF Serving, Step, Fails, Goto, PhaseInv, Executing
    <3>2. CASE pc' = "teardown" /\ Like(x', x)
      BY <3>1, <3>2 DEF Phased, Unmeasured, Unfailed, Like, SameRecords, SuiteShape
    <3>3. ASSUME NEW verdict, x.scope.serving, pc' = "teardown",
                 Like(x', [x EXCEPT !.bench = verdict])
          PROVE  Phased
      BY <3>1, <3>3 DEF Phased, Unmeasured, Unfailed, Like, SameRecords, SuiteShape, Idle
    <3> QED
      BY <2>1, <2>2, <2>7, <3>1, <3>2, <3>3, ServingSteps
  <2>8. CASE Teardown
    <3>1. pc = "teardown" /\ leakyTokens' = leakyTokens
      BY <2>8 DEF Teardown
    <3>2. SameRecords(x', x) /\ (x'.error = x.error \/ x'.error = "unexpected") /\ pc' = "settle"
      BY <2>8, TeardownSteps
    <3> QED
      BY <3>1, <3>2 DEF Phased, PhaseInv, SameRecords, SuiteShape, Unmeasured
  <2> QED
    BY <1>5, <2>3, <2>4, <2>5, <2>6, <2>7, <2>8 DEF ExecutionStep
<1>6. ASSUME RecordIdentity \/ ToExecute \/ CapacityRefused PROVE Phased
  <2>1. CASE RecordIdentity
    BY <1>3, <1>4, <2>1, IdleBlank DEF RecordIdentity
  <2>2. CASE ToExecute
    <3>1. Blank(x) /\ x' = [x EXCEPT !.scope = IF repeat THEN FullScope ELSE Missing(x.sol)]
            /\ pc' = "capacity"
      BY <2>2 DEF ToExecute, PhaseInv, Blank
    <3>2. Blank(x')
      BY <3>1 DEF Blank, Unmeasured, Unfailed, Idle
    <3> QED
      BY <1>4, <3>1, <3>2
  <2>3. CASE CapacityRefused
    BY <1>3, <1>4, <2>3, IdleBlank DEF CapacityRefused, Executing
  <2> QED
    BY <1>6, <2>1, <2>2, <2>3
<1>7. ASSUME Begin PROVE Phased
  <2>1. CASE pc' = "dispatch"
    BY <1>3, <2>1 DEF Executing
  <2>2. CASE pc' = "provision"
    <3>1. Blank(x) /\ x' = [x EXCEPT !.exec = executions + 1]
      BY <1>7, <2>2 DEF Begin, PhaseInv, Blank
    <3>2. Blank(x')
      BY <3>1 DEF Blank, Unmeasured, Unfailed, Idle
    <3> QED
      BY <1>4, <2>2, <3>2
  <2> QED
    BY <1>7, <2>1, <2>2 DEF Begin
<1> QED
  BY <1>1, <1>2, <1>3, <1>5, <1>6, <1>7
     DEF Next, Run, Waits, Goes, ExecutionStep, Executing, Launch, LaunchRescore,
     ChangeProtocol, Crash, IndexFails, PredictionError, AlreadyMeasured,
     CannotAfford, NoCapacity, SettleRaises, Fails, Goto, Settle, StoreNext, InvalidRecord,
     StoreDone, Executed, StopsRun, Interrupted, HarnessFailure, UnexpectedFailure, Ends,
     IterationEnd, LoopEnd, ClosePool, Exit, RescoreSolution,
     RescoreStored, RescoreNamed, RescoreDone

LEMMA LeakNext == ASSUME TypeInv, LeakInv, [Next]_vars PROVE LeakInv'
<1> SUFFICES ASSUME leakSeen' PROVE LeakInv'
  BY DEF LeakInv
<1> USE DEF TypeInv, LeakInv, vars, files, process, history
<1>1. ASSUME ExecutionStep, ~Teardown PROVE FALSE
  <2>1. leakSeen' = leakSeen
    BY <1>1 DEF ExecutionStep, Provision, BootHarnessFailure, BootModelFailure,
       BootHealthy, BootRaises, TokenLeaks, Verify, Tasks, Serving, Step, Fails,
       FailsAgain, Goto
  <2>2. pc \in Executing \ {"settle"}
    BY <1>1, ExecutionSteps
  <2> QED
    BY <2>1, <2>2 DEF Executing
<1>2. CASE Teardown
  BY <1>2, TeardownSteps DEF Teardown
<1>3. CASE Settle \/ SettleRaises \/ StoreNext \/ InvalidRecord \/ StoreDone
  <2>1. CASE Settle \/ SettleRaises
    <3>1. Handled(x).leaked = x.leaked
      BY DEF Handled, Idle
    <3>2. DOMAIN Handled(x) = DOMAIN Idle
      BY DEF Handled
    <3>3. CASE Settle
      BY <3>1, <3>3 DEF Settle
    <3>4. CASE SettleRaises
      <4>1. x' = [Handled(x) EXCEPT !.error = "stop"] /\ pc' = "dispatch"
        BY <3>4 DEF SettleRaises, Fails, Goto
      <4>2. x'.error = "stop"
        BY <3>2, <4>1 DEF Idle
      <4> QED
        BY <4>1, <4>2
    <3> QED
      BY <2>1, <3>3, <3>4
  <2>2. CASE StoreNext \/ InvalidRecord
    BY <1>3, <2>2 DEF StoreNext, InvalidRecord
  <2>3. CASE StoreDone
    BY <1>3, <2>3 DEF StoreDone, Idle
  <2> QED
    BY <1>3, <2>1, <2>2, <2>3
<1>4. CASE \/ Executed \/ StopsRun \/ Interrupted \/ HarnessFailure \/ UnexpectedFailure
          \/ CapacityRefused \/ IterationEnd \/ ClosePool
  BY <1>4 DEF Executed, StopsRun, Interrupted, HarnessFailure, UnexpectedFailure,
              CapacityRefused, IterationEnd, ClosePool, Ends, Stopped, NoResult
<1>5. CASE UNCHANGED vars
  BY <1>5
<1> QED
  BY <1>1, <1>2, <1>3, <1>4, <1>5
     DEF Next, Run, Waits, Goes, ExecutionStep, Launch, LaunchRescore, ChangeProtocol, Crash, IndexFails,
     RecordIdentity, PredictionError, AlreadyMeasured, CannotAfford, ToExecute, NoCapacity,
     Begin, LoopEnd, Exit, RescoreSolution, RescoreStored, RescoreNamed, RescoreDone

-----------------------------------------------------------------------------
(* The solutions of a run.                                                 *)

LEMMA AccountNext == ASSUME TypeInv, AccountInv, [Next]_vars PROVE AccountInv'
<1> USE DEF TypeInv, vars, files, process, history
<1> DEFINE
      Outside == /\ pc' = "down" => result' = NoResult
                 /\ pc' \in RescoreSteps => result'.complete = {} /\ result'.executed \subseteq Solution
      Apart == /\ result'.executed \cap (result'.skipped \cup result'.complete \cup result'.errors) = {}
               /\ result'.skipped \cap (result'.complete \cup result'.errors) = {}
               /\ result'.complete \cap result'.errors = {}
      Listed == /\ Done' \subseteq Solution
                /\ \A i, j \in DOMAIN todo' : todo'[i] = todo'[j] => i = j
                /\ Done' \cap Range(todo') = {}
      Handed == /\ pc' \in InHand \cup {"claim"} =>
                     x'.sol \notin result'.executed \cup result'.complete \cup result'.errors
                                      \cup Range(todo')
                /\ pc' = "claim" => x'.sol \notin result'.skipped
      Reached == /\ ~result'.stopped =>
                      Solution \subseteq Done' \cup Range(todo')
                                           \cup (IF pc' \in InHand \cup {"claim"} THEN {x'.sol} ELSE {})
                 /\ pc' \in {"closing", "exit"} /\ ~result'.stopped => todo' = <<>>
      Running == pc' \in RunSteps => Apart /\ Listed /\ Handed /\ Reached
<1>1. Outside /\ Running => AccountInv'
  BY DEF AccountInv
<1> HIDE DEF Running
<1>2. ASSUME pc' \notin RunSteps PROVE Running
  BY <1>2 DEF Running
<1>3. CASE Launch
  <2>1. /\ todo' = Plans /\ result' = NoResult /\ pc' = "loop"
    BY <1>3 DEF Launch
  <2>2. \A i, j \in DOMAIN Plans : Plans[i] = Plans[j] => i = j
    BY RunAssumption
  <2>3. Done' = {}
    BY <2>1 DEF Done, NoResult
  <2>4. Range(todo') = Solution
    BY <2>1 DEF Solution
  <2>5. Apart /\ Listed /\ Handed /\ Reached
    BY <2>1, <2>2, <2>3, <2>4 DEF NoResult, InHand, Executing
  <2> QED
    BY <1>1, <2>1, <2>5 DEF Running, RescoreSteps
<1>4. CASE LaunchRescore \/ RescoreSolution \/ RescoreStored \/ RescoreNamed \/ RescoreDone
  <2>1. pc' \in RescoreSteps
    BY <1>4 DEF LaunchRescore, RescoreSolution, RescoreStored, RescoreNamed, RescoreDone, RescoreSteps
  <2>2. Outside
    BY <1>4, <2>1 DEF LaunchRescore, RescoreSolution, RescoreStored, RescoreNamed, RescoreDone, RescoreSteps,
                      AccountInv, NoResult
  <2> QED
    BY <1>1, <1>2, <2>1, <2>2 DEF RescoreSteps, RunSteps, InHand, Executing
<1>5. CASE ChangeProtocol \/ Crash \/ Exit
  <2>1. pc' = "down" /\ result' = NoResult
    BY <1>5 DEF ChangeProtocol, Crash, Exit, AccountInv
  <2> QED
    BY <1>1, <1>2, <2>1 DEF RescoreSteps, RunSteps, InHand, Executing
<1>6. ASSUME UNCHANGED <<result, todo>>, x'.sol = x.sol,
             pc \in RunSteps, pc' \in RunSteps,
             pc \in InHand \cup {"claim"} <=> pc' \in InHand \cup {"claim"},
             pc' # "claim",
             pc' \notin {"closing", "exit"} \/ todo = <<>> \/ result.stopped
      PROVE  AccountInv'
  <2>1. Apart /\ Listed /\ Handed /\ Reached
    BY <1>6 DEF AccountInv, Done
  <2>2. Outside
    BY <1>6 DEF RescoreSteps, RunSteps, InHand, Executing
  <2> QED
    BY <1>1, <2>1, <2>2 DEF Running
<1>7. CASE ExecutionStep
  BY <1>6, <1>7, ExecutionSteps DEF InHand, RunSteps, Executing
<1>8. CASE ToExecute \/ Begin \/ SettleRaises \/ Settle \/ InvalidRecord \/ StoreDone
  <2>1. x'.sol = x.sol
    BY <1>8 DEF ToExecute, Begin, SettleRaises, Settle, InvalidRecord, StoreDone, Fails, Handled, Idle
  <2> QED
    BY <1>6, <1>8, <2>1 DEF ToExecute, Begin, SettleRaises, Settle, InvalidRecord, StoreDone, Fails, Goto,
       InHand, RunSteps, Executing
<1>9. CASE StoreNext \/ UNCHANGED vars
  BY <1>9 DEF StoreNext, AccountInv, Done
<1>10. CASE LoopEnd
  BY <1>6, <1>10 DEF LoopEnd, InHand, RunSteps, Executing
<1>11. CASE IndexFails \/ ClosePool \/ IterationEnd \/ StopsRun \/ Interrupted
  <2>1. /\ todo' = todo /\ pc \in RunSteps /\ pc' \in {"loop", "iterationEnd", "closing", "exit"}
        /\ pc' = "loop" => pc = "iterationEnd" /\ result' = result
        /\ pc' = "exit" => pc = "closing"
        /\ pc' \in {"iterationEnd", "closing"} => result'.stopped
        /\ result' = result \/ result' = [result EXCEPT !.stopped = TRUE]
    BY <1>11 DEF IndexFails, ClosePool, IterationEnd, StopsRun, Interrupted, Ends, Stopped,
                 RunSteps, InHand, Executing, NoResult
  <2>2. /\ result'.executed = result.executed /\ result'.skipped = result.skipped
        /\ result'.complete = result.complete /\ result'.errors = result.errors
        /\ result' = result \/ result'.stopped
    BY <2>1 DEF NoResult
  <2>3. Apart /\ Listed
    BY <2>1, <2>2 DEF AccountInv, Done
  <2>4. Handed /\ Reached
    BY <2>1, <2>2 DEF AccountInv, Done, InHand, Executing
  <2>5. Outside
    BY <2>1 DEF RescoreSteps
  <2> QED
    BY <1>1, <2>3, <2>4, <2>5 DEF Running
<1>12. CASE RecordIdentity
  <2>1. /\ pc = "loop" /\ pc' = "claim" /\ todo # <<>> /\ todo' = Tail(todo) /\ result' = result
        /\ x'.sol = Head(todo)
    BY <1>12 DEF RecordIdentity, Idle
  <2>2. /\ \A i, j \in DOMAIN todo : todo[i] = todo[j] => i = j
        /\ Done \cap Range(todo) = {} /\ Done \subseteq Solution
        /\ ~result.stopped => Solution \subseteq Done \cup Range(todo)
    BY <2>1 DEF AccountInv, RunSteps, InHand, Executing
  <2>3. /\ Range(todo) = {Head(todo)} \cup Range(Tail(todo)) /\ Head(todo) \notin Range(Tail(todo))
        /\ \A i, j \in DOMAIN Tail(todo) : Tail(todo)[i] = Tail(todo)[j] => i = j
    BY <2>1, <2>2, PlansSuffix
  <2>4. Done' = Done
    BY <2>1 DEF Done
  <2>5. Listed /\ Reached
    BY <2>1, <2>2, <2>3, <2>4
  <2>6. Handed
    BY <2>1, <2>2, <2>3 DEF Done
  <2>7. Apart
    BY <2>1 DEF AccountInv, RunSteps
  <2> QED
    BY <1>1, <2>1, <2>5, <2>6, <2>7 DEF Running, RescoreSteps
<1>13. CASE PredictionError \/ AlreadyMeasured \/ CannotAfford
  <2>1. /\ pc = "claim" /\ pc' = "loop" /\ todo' = todo
        /\ result' \in {[result EXCEPT !.errors = @ \cup {x.sol}],
                        [result EXCEPT !.complete = @ \cup {x.sol}],
                        [result EXCEPT !.skipped = @ \cup {x.sol}]}
    BY <1>13 DEF PredictionError, AlreadyMeasured, CannotAfford
  <2>2. /\ result'.executed = result.executed /\ result'.stopped = result.stopped
        /\ Done' = Done \cup {x.sol}
        /\ \/ /\ result'.errors = result.errors \cup {x.sol}
              /\ result'.complete = result.complete /\ result'.skipped = result.skipped
           \/ /\ result'.complete = result.complete \cup {x.sol}
              /\ result'.errors = result.errors /\ result'.skipped = result.skipped
           \/ /\ result'.skipped = result.skipped \cup {x.sol}
              /\ result'.errors = result.errors /\ result'.complete = result.complete
    BY <2>1 DEF NoResult, Done
  <2>3. x.sol \notin Done \cup Range(todo)
    BY <2>1 DEF AccountInv, RunSteps, Done
  <2>4. Apart
    BY <2>1, <2>2, <2>3 DEF AccountInv, RunSteps, Done
  <2>5. Listed /\ Handed /\ Reached
    BY <2>1, <2>2, <2>3 DEF AccountInv, RunSteps, InHand, Executing
  <2> QED
    BY <1>1, <2>1, <2>4, <2>5 DEF Running, RescoreSteps
<1>14. CASE NoCapacity \/ HarnessFailure \/ UnexpectedFailure \/ CapacityRefused
  <2>1. /\ pc \in InHand /\ pc' \in {"iterationEnd", "capacity"} /\ todo' = todo
        /\ pc' = "capacity" => x'.sol = x.sol
    BY <1>14 DEF NoCapacity, HarnessFailure, UnexpectedFailure, CapacityRefused, Ends, InHand, Idle
  <2>2. /\ result'.executed = result.executed /\ result'.complete = result.complete
        /\ result'.errors = result.errors /\ result'.skipped = result.skipped \cup {x.sol}
        /\ result.stopped => result'.stopped
    BY <1>14 DEF NoCapacity, HarnessFailure, UnexpectedFailure, CapacityRefused, Ends, Skipped, NoResult
  <2>3. Done' = Done \cup {x.sol}
    BY <2>2 DEF Done
  <2>4. x.sol \notin result.executed \cup result.complete \cup result.errors \cup Range(todo)
    BY <2>1 DEF AccountInv, RunSteps
  <2>5. Apart
    BY <2>1, <2>2, <2>4 DEF AccountInv, RunSteps
  <2>6. Listed /\ Handed /\ Reached
    BY <2>1, <2>2, <2>3, <2>4 DEF AccountInv, RunSteps, InHand, Executing
  <2> QED
    BY <1>1, <2>1, <2>5, <2>6 DEF Running, RescoreSteps
<1>15. CASE Executed
  <2>1. /\ pc \in InHand /\ pc' = "iterationEnd" /\ todo' = todo
    BY <1>15 DEF Executed, Ends, InHand
  <2>2. /\ result'.executed = result.executed \cup {x.sol} /\ result'.complete = result.complete
        /\ result'.errors = result.errors /\ result'.skipped = result.skipped \ {x.sol}
        /\ result'.stopped = result.stopped
    BY <1>15 DEF Executed, Ends, NoResult
  <2>3. Done' = Done \cup {x.sol}
    BY <2>2 DEF Done
  <2>4. x.sol \notin result.executed \cup result.complete \cup result.errors \cup Range(todo)
    BY <2>1 DEF AccountInv, RunSteps
  <2>5. Apart
    BY <2>1, <2>2, <2>4 DEF AccountInv, RunSteps
  <2>6. Listed /\ Handed /\ Reached
    BY <2>1, <2>2, <2>3, <2>4 DEF AccountInv, RunSteps, InHand, Executing
  <2> QED
    BY <1>1, <2>1, <2>5, <2>6 DEF Running, RescoreSteps
<1> QED
  BY <1>3, <1>4, <1>5, <1>7, <1>8, <1>9, <1>10, <1>11, <1>12, <1>13, <1>14, <1>15
     DEF Next, Run, Waits, Goes, ExecutionStep

LEMMA StoreOnlyGrows == ASSUME TypeInv, [Next]_vars PROVE store \subseteq store' /\ store \subseteq Known
  BY RecordSteps DEF Known, Keeps, Drops, Claims, Settles, Rescores, Makes

LEMMA CompleteNext == ASSUME TypeInv, AccountInv, CompleteInv, [Next]_vars PROVE CompleteInv'
<1> USE DEF TypeInv, vars, files, process, history
<1>1. ASSUME result'.complete \subseteq result.complete, protocol' = protocol PROVE CompleteInv'
  BY <1>1, StoreOnlyGrows DEF CompleteInv, AttemptsUnder, RecordsOf
<1>2. ASSUME result' = NoResult PROVE CompleteInv'
  BY <1>2 DEF CompleteInv, NoResult
<1>3. CASE Launch \/ Crash \/ Exit
  BY <1>2, <1>3 DEF Launch, Crash, Exit
<1>4. CASE ChangeProtocol \/ LaunchRescore
  BY <1>2, <1>4 DEF ChangeProtocol, LaunchRescore, AccountInv
<1>5. CASE AlreadyMeasured
  <2>1. /\ result'.complete = result.complete \cup {x.sol} /\ protocol' = protocol
        /\ ~Missing(x.sol).boot
    BY <1>5 DEF AlreadyMeasured, NoResult
  <2>2. /\ RecordsOf(x.sol, "memory") # {} /\ AttemptsUnder(x.sol, protocol) # {}
        /\ RecordsOf(x.sol, "serving_performance") # {}
    BY <2>1 DEF Missing, FullScope
  <2>3. /\ \E r \in store : r.sol = x.sol /\ Memory(r)
        /\ \E r \in store : r.sol = x.sol /\ ServingReport(r)
    BY <2>2 DEF RecordsOf, Memory, ServingReport
  <2> QED
    BY <2>1, <2>2, <2>3, StoreOnlyGrows DEF CompleteInv, AttemptsUnder, RecordsOf
<1>6. CASE ExecutionStep
  BY <1>1, <1>6, ExecutionSteps
<1>7. CASE \/ IndexFails \/ RecordIdentity \/ PredictionError \/ CannotAfford \/ ToExecute \/ NoCapacity
          \/ Begin \/ SettleRaises \/ Settle \/ StoreNext \/ InvalidRecord \/ StoreDone
  <2>1. protocol' = protocol
    BY <1>7 DEF IndexFails, RecordIdentity, PredictionError, CannotAfford, ToExecute, NoCapacity,
          Begin, SettleRaises, Fails, Goto, Settle, StoreNext, InvalidRecord, StoreDone
  <2>2. result'.complete = result.complete
    BY <1>7 DEF IndexFails, RecordIdentity, PredictionError, CannotAfford, ToExecute, NoCapacity,
          Begin, SettleRaises, Fails, Goto, Settle, StoreNext, InvalidRecord, StoreDone, NoResult
  <2> QED
    BY <1>1, <2>1, <2>2
<1>8. CASE \/ Executed \/ StopsRun \/ Interrupted \/ HarnessFailure \/ UnexpectedFailure
          \/ CapacityRefused \/ IterationEnd \/ LoopEnd \/ ClosePool \/ RescoreSolution
          \/ RescoreStored \/ RescoreNamed \/ RescoreDone \/ UNCHANGED vars
  <2>1. protocol' = protocol
    BY <1>8 DEF Executed, StopsRun, Interrupted, HarnessFailure, UnexpectedFailure, Ends,
          CapacityRefused, IterationEnd, LoopEnd, ClosePool, RescoreSolution, RescoreStored,
          RescoreNamed, RescoreDone
  <2>2. result'.complete = result.complete
    BY <1>8 DEF Executed, StopsRun, Interrupted, HarnessFailure, UnexpectedFailure, Ends, Skipped, Stopped,
          CapacityRefused, IterationEnd, LoopEnd, ClosePool, RescoreSolution, RescoreStored,
          RescoreNamed, RescoreDone, NoResult
  <2> QED
    BY <1>1, <2>1, <2>2
<1> QED
  BY <1>3, <1>4, <1>5, <1>6, <1>7, <1>8 DEF Next, Run, Waits, Goes, ExecutionStep

-----------------------------------------------------------------------------
(* The records.                                                            *)

(* A record of one batch is stored: which batch, and what is left.         *)
LEMMA StoredOne ==
  ASSUME StoreNext
  PROVE  \E i \in DOMAIN writes : \E r \in writes[i] :
           /\ \A j \in 1..(i - 1) : writes[j] = {}
           /\ store' = store \cup {r} /\ DOMAIN writes' = DOMAIN writes
           /\ \A j \in DOMAIN writes : writes'[j] = IF j = i THEN writes[i] \ {r} ELSE writes[j]
<1>1. PICK i \in DOMAIN writes : \E r \in writes[i] :
        /\ \A j \in 1..(i - 1) : writes[j] = {}
        /\ store' = store \cup {r}
        /\ writes' = [writes EXCEPT ![i] = @ \ {r}]
  BY DEF StoreNext
<1>2. PICK r \in writes[i] : /\ \A j \in 1..(i - 1) : writes[j] = {}
                             /\ store' = store \cup {r}
                             /\ writes' = [writes EXCEPT ![i] = writes[i] \ {r}]
  BY <1>1
<1>3. DOMAIN writes' = DOMAIN writes
  BY <1>2
<1>4. \A j \in DOMAIN writes : writes'[j] = IF j = i THEN writes[i] \ {r} ELSE writes[j]
  BY <1>2
<1> QED
  BY <1>2, <1>3, <1>4

LEMMA StoreSteps ==
  ASSUME TypeInv, [Next]_vars PROVE store' = store \/ Claims \/ StoreNext
<1>1. CASE PredictionError \/ AlreadyMeasured \/ CannotAfford \/ ToExecute
  <2>1. writes = <<>> /\ writes' = <<>> /\ pc = "claim"
    BY <1>1 DEF PredictionError, AlreadyMeasured, CannotAfford, ToExecute, TypeInv
  <2>2. Known = store /\ Known' = store'
    BY <2>1 DEF Known, Pending
  <2> QED
    BY <1>1, <2>1, <2>2 DEF PredictionError, AlreadyMeasured, CannotAfford, ToExecute, Claims,
                            history
<1>2. CASE ExecutionStep
  BY <1>2, ExecutionSteps DEF TypeInv
<1> QED
  BY <1>1, <1>2 DEF Next, Run, Waits, Goes, ExecutionStep, Launch, LaunchRescore,
     ChangeProtocol, Crash, IndexFails, RecordIdentity,
     NoCapacity, Begin, SettleRaises, Fails, Goto, Settle, StoreNext, InvalidRecord,
     StoreDone, Executed, StopsRun, Interrupted, HarnessFailure, UnexpectedFailure, Ends,
     CapacityRefused, IterationEnd, LoopEnd, ClosePool, Exit, RescoreSolution,
     RescoreStored, RescoreNamed, RescoreDone, vars, files

LEMMA StorePhases ==
  ASSUME TypeInv, [Next]_vars, pc' \in {"store", "rescoreStore"}
  PROVE  \/ Settles
         \/ Rescores
         \/ StoreNext /\ pc' = pc /\ x' = x
         \/ UNCHANGED vars
<1> USE DEF TypeInv
<1>1. CASE ExecutionStep
  BY <1>1, ExecutionSteps DEF Executing
<1>2. CASE Settle
  BY <1>2, MakesBatches DEF Settle, Settles, files, history
<1>3. CASE RescoreSolution
  <2>1. pc = "rescoring" /\ Rescorable(Head(todo))
    BY <1>3 DEF RescoreSolution
  <2>2. PICK turned \in SUBSET RecordsOf(Head(todo), "task_outcome") :
            writes' = <<{Rescored(a, turned) : a \in RecordsOf(Head(todo), "task_outcome")}>>
    BY <1>3, <2>1 DEF RescoreSolution
  <2>3. Makes(<<{Rescored(a, turned) : a \in RecordsOf(Head(todo), "task_outcome")}>>)
    BY <1>3, <2>2, <2>1, MakesBatches DEF RescoreSolution, files, history
  <2> QED
    BY <1>3, <2>1, <2>3 DEF RescoreSolution, Rescores
<1> QED
  BY <1>1, <1>2, <1>3 DEF Next, Run, Waits, Goes, ExecutionStep, Launch, LaunchRescore,
     ChangeProtocol, Crash, IndexFails, RecordIdentity, PredictionError, AlreadyMeasured,
     CannotAfford, ToExecute, NoCapacity, Begin, SettleRaises, Fails, Goto, StoreNext, InvalidRecord,
     StoreDone, Executed, StopsRun, Interrupted, HarnessFailure, UnexpectedFailure, Ends,
     CapacityRefused, IterationEnd, LoopEnd, ClosePool, Exit,
     RescoreStored, RescoreNamed, RescoreDone

(* What was measured has its memory report among the records made.         *)
LEMMA MeasuredHasMemory ==
  ASSUME NEW t, ~Unmeasured(t) => t.healthy /\ t.report,
         NEW r \in Attempts(t, 0) \cup Attempts(t, 1) \cup ServingReports(t)
  PROVE  HasMemory(r, LastBoot(t)) /\ ~Unmeasured(t)
<1>1. r.sol = t.sol /\ r.exec = t.exec
  BY RecordsMade, BatchesMade
<1>2. ~Unmeasured(t)
  <2>1. CASE r \in ServingReports(t)
    BY <2>1, ServingMade DEF Unmeasured
  <2>2. CASE r \in Attempts(t, 0) \cup Attempts(t, 1)
    BY <2>2, AttemptsMade DEF Unmeasured
  <2> QED
    BY <2>1, <2>2
<1>3. LastBoot(t) = {MemoryRecord(t.sol, t.exec, BootShare(t))}
  BY <1>2 DEF LastBoot
<1> DEFINE m == MemoryRecord(t.sol, t.exec, BootShare(t))
<1>4. Memory(m) /\ m.sol = t.sol /\ m.exec = t.exec
  BY DEF MemoryRecord, Memory
<1> HIDE DEF m
<1> QED
  BY <1>1, <1>2, <1>3, <1>4 DEF HasMemory, m

LEMMA HandledKeeps ==
  ASSUME NEW t, x' = Handled(t)
  PROVE  /\ x'.sol = t.sol /\ x'.scope = t.scope /\ x'.error = t.error
  BY DEF Handled, Idle

LEMMA BatchNext == ASSUME TypeInv, PhaseInv, BatchInv, StoreInv, [Next]_vars PROVE BatchInv'
<1>1. CASE Settles
  <2> DEFINE t == x
  <2>1. /\ pc' = "store" /\ writes' = StoreOrder(x) /\ store' = store /\ x'.sol = x.sol
        /\ x'.error = x.error
    BY <1>1, HandledKeeps DEF Settles, Makes
  <2>2. /\ DOMAIN writes' = 1..5
        /\ writes'[1] = FailedBoots(x) /\ writes'[2] = LastBoot(x)
        /\ writes'[3] = Attempts(x, 0) /\ writes'[4] = Attempts(x, 1)
        /\ writes'[5] = ServingReports(x)
    BY <2>1, BatchesMade
  <2>3. /\ ~Unmeasured(x) => x.healthy /\ x.report
        /\ x.error = "capacity" => Unmeasured(x)
    BY <1>1 DEF PhaseInv, Settles
  <2>4. \A i \in 1..5 : \A r \in writes'[i] : r.sol = x.sol /\ OfExecution(r)
    <3>1. \A i \in 1..5 : \A r \in writes'[i] : r \in MadeBy(x)
      BY <2>1, <2>2 DEF MadeBy
    <3> QED
      BY <3>1, RecordsMade DEF OfExecution
  <2>5. \A r \in writes'[1] \cup writes'[2] : r.scope \in {"boot", "memory"}
    BY <2>2, BootsMade
  <2>6. \A r \in writes'[3] \cup writes'[4] : Attempt(r) /\ r.origin = 0
    BY <2>2, AttemptsMade, AttemptFields
  <2>7. \A r \in writes'[5] : ServingReport(r)
    BY <2>2, ServingMade
  <2>8. ASSUME NEW r \in writes'[3] \cup writes'[4] \cup writes'[5]
        PROVE  HasMemory(r, store' \cup writes'[2]) /\ ~Unmeasured(x)
    BY <2>2, <2>3, MeasuredHasMemory DEF HasMemory
  <2>9. x'.error = "capacity" => writes'[3] \cup writes'[4] \cup writes'[5] = {}
    BY <2>1, <2>3, <2>8
  <2> QED
    BY <2>1, <2>2, <2>4, <2>5, <2>6, <2>7, <2>8, <2>9
       DEF BatchInv, HasMemory
<1>2. CASE Rescores
  <2> DEFINE s == Head(todo)
  <2>1. PICK turned : Makes(<<{Rescored(a, turned) : a \in RecordsOf(s, "task_outcome")}>>)
    BY <1>2 DEF Rescores
  <2>2. /\ pc' = "rescoreStore" /\ x'.sol = s /\ store' = store
    BY <1>2, <2>1 DEF Rescores, Makes, Idle
  <2>3. /\ DOMAIN writes' = {1}
        /\ writes'[1] = {Rescored(a, turned) : a \in RecordsOf(s, "task_outcome")}
    BY <2>1, RescoredMade
  <2>4. ASSUME NEW r \in writes'[1]
        PROVE  /\ r.sol = s /\ Attempt(r) /\ r.origin # 0
               /\ HasMemory(r, store) /\ HasOriginal(r, store)
    <3>1. PICK a \in RecordsOf(s, "task_outcome") : r = Rescored(a, turned)
      BY <2>3
    <3>2. a \in store /\ Attempt(a) /\ a.sol = s
      BY DEF RecordsOf, Attempt
    <3>3. Attempt(r) /\ SameOutput(r, a) /\ r.origin = a.protocol
      BY <3>1, RescoredFields
    <3>4. a.protocol # 0
      BY <3>2 DEF TypeInv, RecordTyped, Known
    <3>5. HasMemory(a, store)
      BY <3>2 DEF StoreInv
    <3> QED
      BY <3>2, <3>3, <3>4, <3>5 DEF HasMemory, HasOriginal, SameOutput
  <2> QED
    BY <2>2, <2>3, <2>4 DEF BatchInv, HasMemory, HasOriginal
<1>3. CASE StoreNext /\ pc' = pc /\ x' = x
  <2>0. PICK i \in DOMAIN writes : \E r \in writes[i] :
           /\ store' = store \cup {r} /\ DOMAIN writes' = DOMAIN writes
           /\ \A j \in DOMAIN writes : writes'[j] = IF j = i THEN writes[i] \ {r} ELSE writes[j]
    BY <1>3, StoredOne
  <2>1. PICK r \in writes[i] :
           /\ store' = store \cup {r} /\ DOMAIN writes' = DOMAIN writes
           /\ \A j \in DOMAIN writes : writes'[j] = IF j = i THEN writes[i] \ {r} ELSE writes[j]
    BY <2>0
  <2>2. \A j \in DOMAIN writes : writes'[j] \subseteq writes[j] /\ writes[j] \subseteq writes'[j] \cup {r}
    BY <2>1
  <2>3. CASE pc = "store"
    <3>1. DOMAIN writes = 1..5 /\ writes[2] \subseteq writes'[2] \cup {r}
      BY <2>2, <2>3 DEF BatchInv
    <3>2. store \cup writes[2] \subseteq store' \cup writes'[2]
      BY <2>1, <3>1
    <3>3. /\ writes'[1] \subseteq writes[1] /\ writes'[2] \subseteq writes[2]
          /\ writes'[3] \subseteq writes[3] /\ writes'[4] \subseteq writes[4]
          /\ writes'[5] \subseteq writes[5]
      BY <2>2, <3>1
    <3>4. \A q \in writes'[3] \cup writes'[4] \cup writes'[5] : HasMemory(q, store' \cup writes'[2])
      BY <2>3, <3>2, <3>3 DEF BatchInv, HasMemory
    <3> QED
      BY <1>3, <2>1, <2>2, <2>3, <3>1, <3>3, <3>4 DEF BatchInv
  <2>4. CASE pc = "rescoreStore"
    BY <1>3, <2>1, <2>2, <2>4 DEF BatchInv, HasMemory, HasOriginal
  <2> QED
    BY <1>3, <2>3, <2>4 DEF StoreNext
<1>4. CASE UNCHANGED vars
  BY <1>4 DEF BatchInv, vars, files, process, HasMemory, HasOriginal
<1>5. CASE pc' \notin {"store", "rescoreStore"}
  BY <1>5 DEF BatchInv
<1> QED
  BY <1>1, <1>2, <1>3, <1>4, <1>5, StorePhases

LEMMA StoreInvNext == ASSUME TypeInv, BatchInv, StoreInv, [Next]_vars PROVE StoreInv'
<1>1. ASSUME NEW r \in store,
             Attempt(r) \/ ServingReport(r) => HasMemory(r, store),
             Attempt(r) /\ r.origin # 0 => HasOriginal(r, store)
      PROVE  /\ Attempt(r) \/ ServingReport(r) => HasMemory(r, store')
             /\ Attempt(r) /\ r.origin # 0 => HasOriginal(r, store')
  BY <1>1, StoreOnlyGrows DEF HasMemory, HasOriginal
<1>2. CASE store' = store
  BY <1>2 DEF StoreInv
<1>3. CASE Claims
  <2>1. ClaimRecord(x.sol).scope = "claim"
    BY DEF ClaimRecord
  <2> QED
    BY <1>1, <1>3, <2>1 DEF StoreInv, Claims, Attempt, ServingReport
<1>4. CASE StoreNext
  <2>0. PICK i \in DOMAIN writes : \E r \in writes[i] :
           (\A j \in 1..(i - 1) : writes[j] = {}) /\ store' = store \cup {r}
    BY <1>4, StoredOne
  <2>1. PICK r \in writes[i] :
           (\A j \in 1..(i - 1) : writes[j] = {}) /\ store' = store \cup {r}
    BY <2>0
  <2>2. /\ Attempt(r) \/ ServingReport(r) => HasMemory(r, store)
        /\ Attempt(r) /\ r.origin # 0 => HasOriginal(r, store)
    <3>1. CASE pc = "store"
      <4>1. i \in 1..5
        BY <3>1 DEF BatchInv
      <4>2. CASE i \in {1, 2}
        BY <3>1, <4>2 DEF BatchInv, Attempt, ServingReport
      <4>3. CASE i \in {3, 4, 5}
        <5>1. writes[2] = {}
          BY <2>1, <4>3
        <5>2. r \in writes[3] \cup writes[4] \cup writes[5]
          BY <4>3
        <5>3. HasMemory(r, store \cup writes[2])
          BY <3>1, <5>2 DEF BatchInv
        <5>4. ~Attempt(r) \/ r.origin = 0
          BY <3>1, <5>2 DEF BatchInv, Attempt, ServingReport
        <5> QED
          BY <5>1, <5>3, <5>4
      <4> QED
        BY <4>1, <4>2, <4>3
    <3>2. CASE pc = "rescoreStore"
      BY <3>2 DEF BatchInv
    <3> QED
      BY <1>4, <3>1, <3>2 DEF StoreNext
  <2> QED
    BY <1>1, <2>1, <2>2, StoreOnlyGrows DEF StoreInv, HasMemory, HasOriginal
<1> QED
  BY <1>2, <1>3, <1>4, StoreSteps

(* A solution comes into hand by its identity and stays until its end.     *)
LEMMA HandSteps ==
  ASSUME TypeInv, [Next]_vars, pc' \in InHand \cup {"claim"}
  PROVE  /\ protocol' = protocol /\ repeat' = repeat
         /\ \/ RecordIdentity
            \/ ToExecute
            \/ /\ x'.sol = x.sol /\ x'.scope = x.scope
               /\ pc \in InHand \cup {"claim"}
               /\ pc' = "claim" <=> pc = "claim"
<1> USE DEF TypeInv
<1>1. CASE ExecutionStep
  BY <1>1, ExecutionSteps DEF InHand, Executing
<1>2. CASE RecordIdentity
  BY <1>2 DEF RecordIdentity, files, history
<1>3. CASE ToExecute
  BY <1>3 DEF ToExecute, files, history
<1>4. CASE Settle \/ SettleRaises
  <2>1. /\ Handled(x).sol = x.sol /\ Handled(x).scope = x.scope /\ DOMAIN Handled(x) = DOMAIN Idle
    BY DEF Handled, Idle
  <2>2. x'.sol = x.sol /\ x'.scope = x.scope
    BY <1>4, <2>1 DEF Settle, SettleRaises, Fails, Idle
  <2> QED
    BY <1>4, <2>2 DEF Settle, SettleRaises, Fails, Goto, InHand, Executing, files, history
<1>5. CASE InvalidRecord \/ StoreDone \/ Begin
  <2>1. x'.sol = x.sol /\ x'.scope = x.scope
    BY <1>5 DEF InvalidRecord, StoreDone, Begin, Idle
  <2> QED
    BY <1>5, <2>1 DEF InvalidRecord, StoreDone, Begin, InHand, Executing, files, history
<1>6. CASE CapacityRefused
  <2>1. x'.sol = x.sol /\ x'.scope = x.scope
    BY <1>6 DEF CapacityRefused, Idle
  <2> QED
    BY <1>6, <2>1 DEF CapacityRefused, InHand, Executing, files, history
<1>7. CASE StoreNext \/ UNCHANGED vars
  BY <1>7 DEF StoreNext, InHand, Executing, vars, files, process, history
<1> QED
  BY <1>1, <1>2, <1>3, <1>4, <1>5, <1>6, <1>7
     DEF Next, Run, Waits, Goes, ExecutionStep, Launch, LaunchRescore,
     ChangeProtocol, Crash, IndexFails, PredictionError, AlreadyMeasured, CannotAfford,
     NoCapacity, Executed, StopsRun, Interrupted, HarnessFailure, UnexpectedFailure, Ends,
     IterationEnd, LoopEnd, ClosePool, Exit, RescoreSolution,
     RescoreStored, RescoreNamed, RescoreDone, InHand, Executing

(* A re-scored solution without a manifest entry gets one, waits on or is   *)
(* noted as lapsed.                                                        *)
LEMMA EntrySteps ==
  ASSUME TypeInv, [Next]_vars
  PROVE  /\ lapsed \subseteq lapsed'
         /\ \A s \in Unnamed : \/ s \in Unnamed' /\ protocol' = protocol
                              \/ <<s, protocol>> \in manifest' \cup lapsed'
<1> USE DEF TypeInv, vars, files, process, history
<1>1. CASE Crash
  BY <1>1 DEF Crash
<1>2. CASE RescoreStored
  BY <1>2 DEF RescoreStored, Unnamed, NoResult
<1>3. CASE RescoreSolution
  BY <1>3 DEF RescoreSolution, Unnamed
<1>4. CASE RescoreNamed
  BY <1>4 DEF RescoreNamed, Unnamed, NoResult
<1>5. CASE RescoreDone
  BY <1>5 DEF RescoreDone, Unnamed
<1>6. CASE StoreNext
  BY <1>6 DEF StoreNext, Unnamed
<1>7. CASE UNCHANGED vars
  BY <1>7 DEF Unnamed
<1>8. CASE Launch \/ LaunchRescore \/ ChangeProtocol \/ Exit \/ ClosePool \/ IndexFails
             \/ RecordIdentity \/ PredictionError \/ AlreadyMeasured \/ CannotAfford \/ ToExecute
             \/ NoCapacity \/ Begin
  BY <1>8 DEF Launch, LaunchRescore, ChangeProtocol, Exit, ClosePool, IndexFails, RecordIdentity,
              PredictionError, AlreadyMeasured, CannotAfford, ToExecute, NoCapacity, Begin, Unnamed
<1>9. CASE ExecutionStep \/ SettleRaises \/ Settle
  BY <1>9 DEF ExecutionStep, Provision, BootHarnessFailure, BootModelFailure, BootHealthy,
              BootRaises, TokenLeaks, Verify, Tasks, Serving, Teardown, SettleRaises, Settle,
              Step, Fails, FailsAgain, Goto, Unnamed
<1>10. CASE InvalidRecord \/ StoreDone \/ Executed \/ StopsRun \/ Interrupted \/ HarnessFailure
              \/ UnexpectedFailure \/ CapacityRefused \/ IterationEnd \/ LoopEnd
  BY <1>10 DEF InvalidRecord, StoreDone, Executed, StopsRun, Interrupted, HarnessFailure,
               UnexpectedFailure, CapacityRefused, IterationEnd, LoopEnd, Ends, Unnamed
<1> QED
  BY <1>1, <1>2, <1>3, <1>4, <1>5, <1>6, <1>7, <1>8, <1>9, <1>10
     DEF Next, Run, Waits, Goes, ExecutionStep

LEMMA IdentityNext == ASSUME TypeInv, PhaseInv, IdentityInv, [Next]_vars PROVE IdentityInv'
<1> DEFINE Named(r) == \E p \in 1..protocol' : <<r.sol, p>> \in manifest'
           Claimed(r) == OfExecution(r) => ClaimRecord(r.sol) \in store'
<1>1. Grows /\ (Keeps \/ Drops \/ Claims \/ Settles \/ Rescores)
  BY RecordSteps
<1>2. store \subseteq store' /\ store \subseteq Known
  BY StoreOnlyGrows
<1>3. protocol \in 1..protocol /\ 1..protocol \subseteq 1..protocol' /\ manifest \subseteq manifest'
  BY <1>1 DEF TypeInv, Grows
<1>4. ASSUME NEW r, \E p \in 1..protocol : <<r.sol, p>> \in manifest PROVE Named(r)
  BY <1>3, <1>4
<1>5. \A r \in Known : Named(r) /\ Claimed(r)
  BY <1>2, <1>4 DEF IdentityInv
<1>6. ASSUME NEW r \in Known' PROVE Named(r) /\ Claimed(r)
  <2>1. CASE r \in Known
    BY <1>5, <2>1
  <2>2. CASE Claims /\ r = ClaimRecord(x.sol)
    <3>1. r.sol = x.sol /\ ~OfExecution(r) /\ <<x.sol, protocol>> \in manifest
      BY <2>2 DEF ClaimRecord, OfExecution, IdentityInv, Claims
    <3> QED
      BY <1>3, <1>4, <3>1
  <2>3. CASE Settles /\ r \in MadeBy(x)
    <3>1. /\ r.sol = x.sol /\ <<x.sol, protocol>> \in manifest /\ ClaimRecord(x.sol) \in store
      BY <2>3, RecordsMade DEF IdentityInv, Settles, InHand, Executing
    <3> QED
      BY <1>2, <1>3, <1>4, <3>1
  <2>4. CASE Rescores /\ r \notin Known
    <3>1. PICK turned : Makes(<<{Rescored(a, turned) : a \in RecordsOf(Head(todo), "task_outcome")}>>)
      BY <2>4 DEF Rescores
    <3>2. PICK a \in RecordsOf(Head(todo), "task_outcome") : r = Rescored(a, turned)
      BY <2>4, <3>1, RescoredMade
    <3>3. a \in Known /\ OfExecution(a) /\ r.sol = a.sol
      BY <1>2, <3>2, RescoredFields DEF RecordsOf, OfExecution, SameOutput
    <3> QED
      BY <1>2, <1>4, <3>3 DEF IdentityInv
  <2> QED
    BY <1>1, <1>2, <2>1, <2>2, <2>3, <2>4 DEF Keeps, Drops, Claims, Settles, Makes, MadeBy
<1>9. ASSUME NEW r \in Known, Attempt(r) PROVE <<r.sol, r.protocol>> \in manifest' \/ AwaitsEntry(r)'
  <2>1. <<r.sol, r.protocol>> \in manifest \/ AwaitsEntry(r)
    BY <1>9 DEF IdentityInv
  <2>2. AwaitsEntry(r) => <<r.sol, r.protocol>> \in manifest' \/ AwaitsEntry(r)'
    BY EntrySteps DEF AwaitsEntry
  <2> QED
    BY <1>3, <2>1, <2>2
<1>10. ASSUME NEW r \in Known', Attempt(r)
       PROVE  <<r.sol, r.protocol>> \in manifest' \/ AwaitsEntry(r)'
  <2>1. CASE r \in Known
    BY <1>9, <1>10, <2>1
  <2>2. CASE Settles /\ r \in MadeBy(x)
    <3>1. r.sol = x.sol /\ r.protocol = protocol
      BY <1>10, <2>2, RecordsMade, AttemptFields
    <3> QED
      BY <1>3, <2>2, <3>1 DEF IdentityInv, Settles, InHand, Executing
  <2>3. CASE Rescores /\ r \notin Known
    <3>1. PICK turned : Makes(<<{Rescored(a, turned) : a \in RecordsOf(Head(todo), "task_outcome")}>>)
      BY <2>3 DEF Rescores
    <3>2. PICK a \in RecordsOf(Head(todo), "task_outcome") : r = Rescored(a, turned)
      BY <2>3, <3>1, RescoredMade
    <3>3. a \in Known /\ Attempt(a) /\ a.sol = Head(todo)
      BY <1>2, <3>2 DEF RecordsOf, Attempt
    <3>4. a.protocol \in 1..protocol
      BY <3>3 DEF TypeInv, RecordTyped
    <3>5. r.sol = Head(todo) /\ r.protocol = protocol /\ r.origin # 0
      BY <3>2, <3>3, <3>4, RescoredFields DEF SameOutput, TypeInv
    <3>6. pc' = "rescoreStore" /\ protocol' = protocol /\ x'.sol = Head(todo)
      BY <2>3, <3>1 DEF Rescores, Makes, Idle
    <3>7. AwaitsEntry(r)'
      BY <3>5, <3>6 DEF AwaitsEntry, Unnamed
    <3> QED
      BY <3>7
  <2>4. CASE Claims /\ r = ClaimRecord(x.sol)
    BY <1>10, <2>4 DEF ClaimRecord, Attempt
  <2> QED
    BY <1>1, <1>2, <2>1, <2>2, <2>3, <2>4 DEF Keeps, Drops, Claims, Settles, Makes, MadeBy
<1>7. pc' \in InHand \cup {"claim"} => <<x'.sol, protocol'>> \in manifest'
  <2>1. ASSUME RecordIdentity PROVE <<x'.sol, protocol'>> \in manifest'
    BY <2>1 DEF RecordIdentity, Idle
  <2>2. ASSUME ToExecute PROVE <<x'.sol, protocol'>> \in manifest'
    <3>1. x'.sol = x.sol /\ protocol' = protocol /\ pc = "claim"
      BY <2>2 DEF ToExecute, TypeInv, Idle
    <3> QED
      BY <1>3, <3>1 DEF IdentityInv
  <2> QED
    BY <1>3, <2>1, <2>2, HandSteps DEF IdentityInv
<1>8. pc' \in InHand => ClaimRecord(x.sol)' \in store'
  <2>1. ASSUME ToExecute PROVE ClaimRecord(x.sol)' \in store'
    <3>1. x'.sol = x.sol /\ store' = store \cup {ClaimRecord(x.sol)}
      BY <2>1 DEF ToExecute, TypeInv, Idle
    <3> QED
      BY <3>1 DEF ClaimRecord
  <2>2. ASSUME RecordIdentity PROVE pc' \notin InHand
    BY <2>2 DEF RecordIdentity, InHand, Executing
  <2>3. ASSUME x'.sol = x.sol, ClaimRecord(x.sol) \in store PROVE ClaimRecord(x.sol)' \in store'
    BY <1>2, <2>3 DEF ClaimRecord
  <2>4. "claim" \notin InHand
    BY DEF InHand, Executing
  <2> QED
    BY <2>1, <2>2, <2>3, <2>4, HandSteps DEF IdentityInv
<1> QED
  BY <1>6, <1>7, <1>8, <1>10 DEF IdentityInv, OfExecution, Attempt, ClaimRecord

LEMMA LeakyRecordsNext ==
  ASSUME TypeInv, PhaseInv, LeakyInv, [Next]_vars PROVE LeakyInv'
<1>1. Grows /\ (Keeps \/ Drops \/ Claims \/ Settles \/ Rescores)
  BY RecordSteps
<1>2. store \subseteq Known
  BY StoreOnlyGrows
<1>3. ASSUME NEW r \in Known, OfExecution(r), r.exec \in leakyTokens' PROVE r.scope = "boot"
  <2>1. CASE r.exec \in leakyTokens
    BY <1>3, <2>1 DEF LeakyInv
  <2>2. CASE pc = "verify" /\ writes = <<>> /\ r.exec = x.exec
    <3>1. r \in store
      BY <2>2, NothingPending
    <3> QED
      BY <1>3, <2>2, <3>1 DEF PhaseInv, Executing
  <2> QED
    BY <1>1, <1>3, <2>1, <2>2 DEF Grows
<1>4. CASE Settles
  <2>1. ASSUME NEW r \in MadeBy(x), x.exec \in leakyTokens PROVE r.scope = "boot"
    <3>1. Unmeasured(x) /\ ~x.healthy
      BY <1>4, <2>1 DEF PhaseInv, Settles
    <3>2. ~Attempt(r) /\ ~ServingReport(r)
      BY <3>1, RecordsMade DEF Unmeasured
    <3>3. r \in FailedBoots(x) \cup LastBoot(x)
      BY <3>1, BatchesMade, AttemptsMade, ServingMade DEF Unmeasured
    <3> QED
      BY <3>1, <3>3, BootsMade DEF Memory
  <2>2. \A r \in MadeBy(x) : r.exec = x.exec
    BY RecordsMade
  <2> QED
    BY <1>2, <1>3, <1>4, <2>1, <2>2 DEF LeakyInv, Settles, Makes, MadeBy, OfExecution
<1>5. CASE Rescores
  <2>1. PICK turned : Makes(<<{Rescored(a, turned) : a \in RecordsOf(Head(todo), "task_outcome")}>>)
    BY <1>5 DEF Rescores
  <2>2. ASSUME NEW a \in RecordsOf(Head(todo), "task_outcome"), Rescored(a, turned).exec \in leakyTokens'
        PROVE  FALSE
    <3>1. a \in Known /\ OfExecution(a) /\ a.scope # "boot" /\ a.exec \in leakyTokens'
      BY <1>2, <2>2, RescoredFields DEF RecordsOf, OfExecution, SameOutput
    <3> QED
      BY <1>3, <3>1
  <2> QED
    BY <1>3, <2>1, <2>2, RescoredMade DEF LeakyInv, OfExecution
<1>6. CASE Claims
  <2>1. ~OfExecution(ClaimRecord(x.sol))
    BY DEF OfExecution, ClaimRecord
  <2> QED
    BY <1>3, <1>6, <2>1 DEF LeakyInv, Claims, OfExecution
<1>7. CASE Keeps \/ Drops
  BY <1>2, <1>3, <1>7 DEF LeakyInv, Keeps, Drops, OfExecution
<1> QED
  BY <1>1, <1>4, <1>5, <1>6, <1>7

(* The three ways in which records can become known, in one place.         *)
LEMMA KnownSteps ==
  ASSUME TypeInv, PhaseInv, [Next]_vars
  PROVE  \/ \A r \in Known' : r \in Known \/ ~OfExecution(r)
         \/ /\ Settles /\ Known = store /\ Known' = store \cup MadeBy(x)
            /\ SuiteShape(x) /\ \A r \in store : OfExecution(r) => r.exec # x.exec
         \/ /\ Rescores /\ Known = store
            /\ \E s, turned :
                 /\ AttemptsUnder(s, protocol) = {}
                 /\ Known' = store \cup {Rescored(a, turned) : a \in RecordsOf(s, "task_outcome")}
<1>1. Grows /\ (Keeps \/ Drops \/ Claims \/ Settles \/ Rescores)
  BY RecordSteps
<1>2. store \subseteq Known
  BY StoreOnlyGrows
<1>3. CASE Keeps \/ Drops
  BY <1>2, <1>3 DEF Keeps, Drops
<1>4. CASE Claims
  <2>1. ~OfExecution(ClaimRecord(x.sol))
    BY DEF OfExecution, ClaimRecord
  <2> QED
    BY <1>4, <2>1 DEF Claims
<1>5. CASE Settles
  <2>1. Known = store /\ Known' = store \cup MadeBy(x)
    BY <1>5 DEF Settles, Makes, MadeBy
  <2>2. SuiteShape(x) /\ \A r \in store : OfExecution(r) => r.exec # x.exec
    BY <1>5 DEF Settles, PhaseInv, Executing
  <2> QED
    BY <1>5, <2>1, <2>2
<1>6. CASE Rescores
  <2>1. PICK turned : Makes(<<{Rescored(a, turned) : a \in RecordsOf(Head(todo), "task_outcome")}>>)
    BY <1>6 DEF Rescores
  <2>2. AttemptsUnder(Head(todo), protocol) = {}
    BY <1>6 DEF Rescores, Rescorable
  <2>3. Known = store
    BY <2>1 DEF Makes
  <2>4. PICK s : s = Head(todo)
    OBVIOUS
  <2>5. Known' = store \cup {Rescored(a, turned) : a \in RecordsOf(s, "task_outcome")}
    BY <2>1, <2>3, <2>4, RescoredMade
  <2>6. AttemptsUnder(s, protocol) = {}
    BY <2>2, <2>4
  <2> QED
    BY <1>6, <2>3, <2>5, <2>6
<1> QED
  BY <1>1, <1>3, <1>4, <1>5, <1>6

(* A re-scored attempt is of a stored one under another protocol.          *)
LEMMA RescoredOf ==
  ASSUME TypeInv, NEW s, NEW turned, AttemptsUnder(s, protocol) = {},
         NEW r \in {Rescored(a, turned) : a \in RecordsOf(s, "task_outcome")}
  PROVE  \E a \in store :
           /\ Attempt(a) /\ a.sol = s /\ r = Rescored(a, turned)
           /\ Attempt(r) /\ SameOutput(r, a)
           /\ r.protocol = protocol /\ r.origin = a.protocol /\ r.origin # 0
           /\ r.accepted = "failed" <=> a.accepted = "failed"
<1>1. PICK a \in RecordsOf(s, "task_outcome") : r = Rescored(a, turned)
  OBVIOUS
<1>2. a \in store /\ Attempt(a) /\ a.sol = s
  BY DEF RecordsOf, Attempt
<1>3. RecordTyped(a)
  BY <1>2 DEF TypeInv, Known
<1>4. a.protocol # 0
  BY <1>2, <1>3 DEF RecordTyped, TypeInv
<1> QED
  BY <1>1, <1>2, <1>4, RescoredFields

LEMMA AttemptsMadeAgree ==
  ASSUME NEW t, SuiteShape(t), NEW a \in MadeBy(t), NEW b \in MadeBy(t),
         Attempt(a), Attempt(b)
  PROVE  /\ a.protocol = protocol /\ b.protocol = protocol /\ a.origin = 0 /\ b.origin = 0
         /\ a.case = b.case /\ a.retry = b.retry => a = b
         /\ a.case = b.case /\ a.retry = 1 /\ b.retry = 0 => b.accepted = "failed"
<1>1. PICK c \in t.scored : c.retry \in {0, 1} /\ a = AttemptOf(t, c)
  BY RecordsMade
<1>2. PICK d \in t.scored : d.retry \in {0, 1} /\ b = AttemptOf(t, d)
  BY RecordsMade
<1>3. /\ a.case = c.case /\ a.retry = c.retry /\ a.protocol = protocol /\ a.origin = 0
      /\ b.case = d.case /\ b.retry = d.retry /\ b.protocol = protocol /\ b.origin = 0
      /\ b.accepted = d.outcome
  BY <1>1, <1>2, AttemptFields
<1>4. /\ c.case = d.case /\ c.retry = d.retry => c = d
      /\ c.case = d.case /\ c.retry = 1 /\ d.retry = 0 => d.outcome = "failed"
  BY DEF SuiteShape, Covers
<1> QED
  BY <1>1, <1>2, <1>3, <1>4

LEMMA ExecutionNext ==
  ASSUME TypeInv, PhaseInv, ExecutionInv, [Next]_vars PROVE ExecutionInv'
<1> USE DEF OfExecution, Attempt
<1>1. CASE \A r \in Known' : r \in Known \/ ~OfExecution(r)
  BY <1>1 DEF ExecutionInv
<1>2. CASE /\ Settles /\ Known = store /\ Known' = store \cup MadeBy(x)
           /\ SuiteShape(x) /\ \A r \in store : OfExecution(r) => r.exec # x.exec
  <2>1. \A r \in MadeBy(x) : r.sol = x.sol /\ r.exec = x.exec
    BY RecordsMade
  <2> QED
    BY <1>2, <2>1, AttemptsMadeAgree DEF ExecutionInv
<1>3. CASE /\ Rescores /\ Known = store
           /\ \E s, turned :
                 /\ AttemptsUnder(s, protocol) = {}
                 /\ Known' = store \cup {Rescored(a, turned) : a \in RecordsOf(s, "task_outcome")}
  <2>1. PICK s, turned :
                 /\ AttemptsUnder(s, protocol) = {}
                 /\ Known' = store \cup {Rescored(a, turned) : a \in RecordsOf(s, "task_outcome")}
    BY <1>3
  <2>2. ASSUME NEW r \in Known'
        PROVE  \E a \in store :
                 /\ OfExecution(r) => OfExecution(a) /\ r.exec = a.exec /\ r.sol = a.sol
                 /\ r = a \/ (Attempt(r) /\ r.origin # 0)
    BY <2>1, RescoredOf DEF SameOutput
  <2>3. ASSUME NEW a \in Known', NEW b \in Known', OfExecution(a), OfExecution(b), a.exec = b.exec
        PROVE  a.sol = b.sol
    <3>1. PICK c \in store : OfExecution(c) /\ a.exec = c.exec /\ a.sol = c.sol
      BY <2>2, <2>3
    <3>2. PICK d \in store : OfExecution(d) /\ b.exec = d.exec /\ b.sol = d.sol
      BY <2>2, <2>3
    <3>3. c \in Known /\ d \in Known /\ c.exec = d.exec
      BY <1>3, <2>3, <3>1, <3>2
    <3> QED
      BY <3>1, <3>2, <3>3 DEF ExecutionInv
  <2>4. \A a \in Known' : Attempt(a) /\ a.origin = 0 => a \in Known
    BY <1>3, <2>2
  <2> QED
    BY <2>3, <2>4 DEF ExecutionInv
<1> QED
  BY <1>1, <1>2, <1>3, KnownSteps

LEMMA RescoredNext ==
  ASSUME TypeInv, PhaseInv, ExecutionInv, RescoredInv, [Next]_vars PROVE RescoredInv'
<1> USE DEF Attempt, SameOutput
<1>1. CASE \A r \in Known' : r \in Known \/ ~OfExecution(r)
  BY <1>1 DEF RescoredInv, OfExecution
<1>2. CASE /\ Settles /\ Known = store /\ Known' = store \cup MadeBy(x)
           /\ SuiteShape(x) /\ \A r \in store : OfExecution(r) => r.exec # x.exec
  <2>1. \A r \in MadeBy(x) : r.exec = x.exec /\ (Attempt(r) => r.origin = 0)
    BY <1>2, RecordsMade, AttemptsMadeAgree
  <2>2. \A r \in store : Attempt(r) => r.exec # x.exec
    BY <1>2 DEF OfExecution
  <2>3. ASSUME NEW a \in Known', NEW b \in Known', Attempt(a), Attempt(b), a.exec = b.exec, a.origin # 0
        PROVE  a \in Known /\ b \in Known
    BY <1>2, <2>1, <2>2, <2>3
  <2>4. \A a, b \in Known : Attempt(a) => (a.protocol = b.origin => b.origin # 0)
    BY DEF TypeInv, RecordTyped
  <2>5. ASSUME NEW o \in Known', NEW a \in Known', Attempt(a), Attempt(o), a.origin = o.protocol
        PROVE  a.origin # 0
    <3>1. RecordTyped(o)'
      BY <2>5, RecordsTyped
    <3> QED
      BY <2>5, <3>1, RecordSteps DEF RecordTyped, Grows, TypeInv
  <2> QED
    BY <2>3, <2>5 DEF RescoredInv
<1>3. CASE /\ Rescores /\ Known = store
           /\ \E s, turned :
                 /\ AttemptsUnder(s, protocol) = {}
                 /\ Known' = store \cup {Rescored(a, turned) : a \in RecordsOf(s, "task_outcome")}
  <2>1. PICK s, turned :
                 /\ AttemptsUnder(s, protocol) = {}
                 /\ Known' = store \cup {Rescored(a, turned) : a \in RecordsOf(s, "task_outcome")}
    BY <1>3
  <2> DEFINE new == {Rescored(a, turned) : a \in RecordsOf(s, "task_outcome")}
  <2>2. \A r \in new : \E a \in store :
           /\ Attempt(a) /\ a.sol = s /\ r = Rescored(a, turned)
           /\ Attempt(r) /\ SameOutput(r, a)
           /\ r.protocol = protocol /\ r.origin = a.protocol /\ r.origin # 0
    BY <2>1, RescoredOf
  <2>3. \A a \in store : Attempt(a) /\ a.sol = s => a.protocol < protocol
    <3>1. \A a \in store : Attempt(a) /\ a.sol = s => a.protocol # protocol
      BY <2>1 DEF AttemptsUnder, RecordsOf
    <3> QED
      BY <1>3, <3>1 DEF TypeInv, RecordTyped
  <2> HIDE DEF new
  <2>4. ASSUME NEW a \in Known', NEW o \in Known', Attempt(a), Attempt(o), a.origin # 0, o.origin = 0,
               a.exec = o.exec
        PROVE  o.protocol < a.protocol
    <3>1. o \in store
      BY <2>1, <2>2, <2>4 DEF new
    <3>2. CASE a \in store
      BY <1>3, <2>4, <3>1, <3>2 DEF RescoredInv
    <3>3. CASE a \in new
      <4>1. a.sol = s /\ a.protocol = protocol /\ \E c \in store : Attempt(c) /\ c.exec = a.exec /\ c.sol = s
        BY <2>2, <3>3
      <4>2. o.sol = s
        BY <1>3, <2>4, <3>1, <4>1 DEF ExecutionInv, OfExecution
      <4> QED
        BY <2>3, <2>4, <3>1, <4>1, <4>2
    <3> QED
      BY <2>1, <3>2, <3>3 DEF new
  <2>5. ASSUME NEW a \in Known', NEW b \in Known', NEW o \in Known',
               Attempt(a), Attempt(b), Attempt(o), SameOutput(a, b), SameOutput(a, o),
               a.protocol = b.protocol, a.origin = b.origin, a.origin = o.protocol, o.origin = 0
        PROVE  a = b
    <3>1. o \in store
      BY <2>1, <2>2, <2>5 DEF new
    <3>2. CASE a \in store /\ b \in store
      BY <1>3, <2>5, <3>1, <3>2 DEF RescoredInv
    <3>3. CASE a \in new /\ b \in new
      <4>1. PICK c \in store :
              Attempt(c) /\ SameOutput(a, c) /\ a.origin = c.protocol /\ a = Rescored(c, turned)
        BY <2>2, <3>3
      <4>2. PICK d \in store :
              Attempt(d) /\ SameOutput(b, d) /\ b.origin = d.protocol /\ b = Rescored(d, turned)
        BY <2>2, <3>3
      <4>3. c.origin = 0 /\ d.origin = 0
        <5>1. c.exec = o.exec /\ d.exec = o.exec
          BY <2>5, <4>1, <4>2
        <5>2. c.protocol = o.protocol /\ d.protocol = o.protocol
          BY <2>5, <4>1, <4>2
        <5>3. o.protocol \in Nat
          BY <1>3, <2>5, <3>1 DEF TypeInv, RecordTyped
        <5>4. c \in Known /\ d \in Known /\ o \in Known
          BY <1>3, <3>1
        <5>5. ~(o.protocol < c.protocol) /\ ~(o.protocol < d.protocol)
          BY <5>2, <5>3
        <5> QED
          BY <2>5, <4>1, <4>2, <5>1, <5>4, <5>5 DEF RescoredInv
      <4>4. c = d
        <5>1. c.exec = d.exec /\ c.case = d.case /\ c.retry = d.retry
          BY <2>5, <4>1, <4>2
        <5> QED
          BY <1>3, <4>1, <4>2, <4>3, <5>1 DEF ExecutionInv
      <4> QED
        BY <4>1, <4>2, <4>4
    <3>4. ASSUME NEW p \in new, NEW q \in store, Attempt(q), p.sol = q.sol, p.protocol = q.protocol
          PROVE  FALSE
      <4>1. q.sol = s /\ q.protocol = protocol
        BY <2>2, <3>4
      <4> QED
        BY <2>3, <3>4, <4>1 DEF TypeInv
    <3> QED
      BY <2>1, <2>5, <3>2, <3>3, <3>4 DEF new
  <2> QED
    BY <2>4, <2>5 DEF RescoredInv
<1> QED
  BY <1>1, <1>2, <1>3, KnownSteps

(* Every attempt and serving report stored comes after a memory report.    *)
LEMMA NothingMissingKept ==
  ASSUME StoreInv, NEW s
  PROVE  /\ Missing(s).task => AttemptsUnder(s, protocol) = {}
         /\ Missing(s).serving => RecordsOf(s, "serving_performance") = {}
<1>1. ASSUME RecordsOf(s, "memory") = {}
      PROVE  RecordsOf(s, "task_outcome") = {} /\ RecordsOf(s, "serving_performance") = {}
  BY <1>1 DEF StoreInv, HasMemory, Memory, RecordsOf, Attempt, ServingReport
<1> QED
  BY <1>1 DEF Missing, FullScope, AttemptsUnder

LEMMA SameMissing ==
  ASSUME NEW s,
         \A r \in store' : r \in store \/ ~(Attempt(r) \/ ServingReport(r)),
         protocol' = protocol
  PROVE  /\ AttemptsUnder(s, protocol)' \subseteq AttemptsUnder(s, protocol)
         /\ RecordsOf(s, "serving_performance")' \subseteq RecordsOf(s, "serving_performance")
  BY DEF AttemptsUnder, RecordsOf, Attempt, ServingReport

(* The steps after the settle.                                             *)
LEMMA AfterExecution ==
  ASSUME TypeInv, [Next]_vars
  PROVE  /\ pc = "store" => Crash \/ StoreNext \/ InvalidRecord \/ StoreDone \/ UNCHANGED vars
         /\ pc = "dispatch" =>
              Crash \/ CapacityRefused \/ pc' \in {"iterationEnd", "closing"} \/ UNCHANGED vars
<1>1. CASE ExecutionStep
  BY <1>1, ExecutionSteps DEF Executing, TypeInv
<1>2. CASE Crash \/ UNCHANGED vars
  BY <1>2
<1> QED
  BY <1>1, <1>2 DEF Next, Run, Waits, Goes, ExecutionStep, Launch, LaunchRescore,
     ChangeProtocol, IndexFails, InvalidRecord, StoreDone, CapacityRefused, RecordIdentity, PredictionError, AlreadyMeasured,
     CannotAfford, ToExecute, NoCapacity, Begin, SettleRaises, Fails, Goto, Settle, StoreNext,
     Executed, StopsRun, Interrupted, HarnessFailure, UnexpectedFailure, Ends,
     IterationEnd, LoopEnd, ClosePool, Exit, RescoreSolution,
     RescoreStored, RescoreNamed, RescoreDone

(* What is measured without repeat was missing, and is missing until then. *)
LEMMA MissingKept ==
  ASSUME TypeInv, BatchInv, StoreInv, MissingInv, [Next]_vars, ToMeasure', ~repeat'
  PROVE  (/\ x.scope.task => AttemptsUnder(x.sol, protocol) = {}
          /\ x.scope.serving => RecordsOf(x.sol, "serving_performance") = {})'
<1> DEFINE Kept(s) == /\ AttemptsUnder(s, protocol)' \subseteq AttemptsUnder(s, protocol)
                      /\ RecordsOf(s, "serving_performance")'
                           \subseteq RecordsOf(s, "serving_performance")
           None(s, scope) == /\ scope.task => AttemptsUnder(s, protocol) = {}
                             /\ scope.serving => RecordsOf(s, "serving_performance") = {}
<1>1. /\ protocol' = protocol /\ repeat' = repeat
      /\ \/ RecordIdentity
         \/ ToExecute
         \/ /\ x'.sol = x.sol /\ x'.scope = x.scope
            /\ pc \in InHand \cup {"claim"}
            /\ pc' = "claim" <=> pc = "claim"
  BY HandSteps DEF ToMeasure, InHand, Executing
<1>2. ~RecordIdentity
  BY DEF RecordIdentity, ToMeasure, Executing
<1>3. \A r \in store' : r \in store \/ ~(Attempt(r) \/ ServingReport(r))
  <2>1. CASE Claims
    BY <2>1 DEF Claims, ClaimRecord, Attempt, ServingReport
  <2>2. CASE StoreNext
    <3>1. pc = "store" /\ x' = x /\ pc' = "store" /\ x.error = "capacity"
      BY <2>2 DEF StoreNext, ToMeasure, Executing
    <3>2. /\ DOMAIN writes = 1..5 /\ writes[3] \cup writes[4] \cup writes[5] = {}
          /\ \A r \in writes[1] \cup writes[2] : r.scope \in {"boot", "memory"}
      BY <3>1 DEF BatchInv
    <3>3. PICK i \in DOMAIN writes : \E r \in writes[i] : store' = store \cup {r}
      BY <2>2, StoredOne
    <3>4. i \in {1, 2}
      BY <3>2, <3>3
    <3> QED
      BY <3>2, <3>3, <3>4 DEF Attempt, ServingReport
  <2> QED
    BY <2>1, <2>2, StoreSteps
<1>4. \A s : Kept(s)
  BY <1>1, <1>3, SameMissing
<1>5. ASSUME NEW s, NEW scope, x'.sol = s, x'.scope = scope, None(s, scope)
      PROVE  (/\ x.scope.task => AttemptsUnder(x.sol, protocol) = {}
              /\ x.scope.serving => RecordsOf(x.sol, "serving_performance") = {})'
  BY <1>4, <1>5 DEF AttemptsUnder, RecordsOf
<1>6. CASE ToExecute
  <2>1. x'.sol = x.sol /\ x'.scope = Missing(x.sol)
    BY <1>1, <1>6 DEF ToExecute, TypeInv, Idle
  <2>2. None(x.sol, Missing(x.sol))
    BY NothingMissingKept
  <2> QED
    BY <1>5, <2>1, <2>2
<1>7. CASE x'.sol = x.sol /\ x'.scope = x.scope /\ pc \in InHand
  <2>1. ToMeasure
    <3>1. CASE pc \in Executing \cup {"capacity"}
      BY <3>1 DEF ToMeasure
    <3>2. CASE pc = "store"
      <4>1. Crash \/ StoreNext \/ InvalidRecord \/ StoreDone \/ UNCHANGED vars
        BY <3>2, AfterExecution
      <4>2. ~Crash /\ ~InvalidRecord
        BY DEF Crash, InvalidRecord, ToMeasure, Executing, TypeInv, Idle
      <4>3. x.error = "capacity"
        BY <3>2, <4>1, <4>2 DEF StoreNext, StoreDone, ToMeasure, Executing, TypeInv, Idle, vars, process
      <4> QED
        BY <3>2, <4>3 DEF ToMeasure
    <3>3. CASE pc = "dispatch"
      <4>1. Crash \/ CapacityRefused \/ pc' \in {"iterationEnd", "closing"} \/ UNCHANGED vars
        BY <3>3, AfterExecution
      <4>2. x.error = "capacity"
        BY <3>3, <4>1 DEF Crash, CapacityRefused, ToMeasure, Executing, vars, process
      <4> QED
        BY <3>3, <4>2 DEF ToMeasure
    <3> QED
      BY <1>7, <3>1, <3>2, <3>3 DEF InHand
  <2>2. None(x.sol, x.scope)
    BY <1>1, <2>1 DEF MissingInv
  <2> QED
    BY <1>5, <1>7, <2>2
<1> QED
  BY <1>1, <1>2, <1>6, <1>7 DEF ToMeasure, InHand, Executing

LEMMA MissingNext ==
  ASSUME TypeInv, PhaseInv, BatchInv, StoreInv, ExecutionInv, MissingInv, [Next]_vars
  PROVE  MissingInv'
<1> USE DEF Attempt, ServingReport
<1> DEFINE
      Once == /\ \A a, b \in Known' :
                    /\ Attempt(a) /\ Attempt(b) /\ a.sol = b.sol /\ a.protocol = b.protocol
                    /\ a.origin = 0
                    => b.origin = 0 /\ a.exec = b.exec
              /\ \A a, b \in Known' : ServingReport(a) /\ ServingReport(b) /\ a.sol = b.sol => a = b
<1>1. ASSUME ~repeated' PROVE Once
  <2>1. ~repeated
    BY <1>1, RecordSteps DEF Grows
  <2>2. CASE \A r \in Known' : r \in Known \/ ~OfExecution(r)
    BY <2>1, <2>2 DEF MissingInv, OfExecution
  <2>3. CASE /\ Settles /\ Known = store /\ Known' = store \cup MadeBy(x)
             /\ SuiteShape(x) /\ \A r \in store : OfExecution(r) => r.exec # x.exec
    <3>1. ~repeat /\ ToMeasure
      BY <2>1, <2>3 DEF TypeInv, Settles, ToMeasure, Executing
    <3>2. /\ x.scope.task => AttemptsUnder(x.sol, protocol) = {}
          /\ x.scope.serving => RecordsOf(x.sol, "serving_performance") = {}
      BY <3>1 DEF MissingInv
    <3>3. \A r \in MadeBy(x) : Attempt(r) => x.scope.task /\ r.protocol = protocol /\ r.origin = 0
      BY <2>3, RecordsMade, AttemptsMadeAgree DEF SuiteShape
    <3>4. \A r \in MadeBy(x) : ServingReport(r) => x.scope.serving /\ ServingReports(x) = {r}
      <4>1. x.bench # "none" => x.scope.serving
        BY <2>3 DEF PhaseInv, Settles
      <4> QED
        BY <4>1, RecordsMade
    <3>5. \A r \in MadeBy(x) : r.sol = x.sol /\ r.exec = x.exec
      BY RecordsMade
    <3>6. ASSUME NEW a \in store, NEW b \in MadeBy(x), a.sol = b.sol
          PROVE  /\ ~(Attempt(a) /\ Attempt(b) /\ a.protocol = b.protocol)
                 /\ ~(ServingReport(a) /\ ServingReport(b))
      BY <3>2, <3>3, <3>4, <3>5, <3>6 DEF AttemptsUnder, RecordsOf
    <3> QED
      BY <2>1, <2>3, <3>3, <3>4, <3>5, <3>6 DEF MissingInv
  <2>4. CASE /\ Rescores /\ Known = store
             /\ \E s, turned :
                   /\ AttemptsUnder(s, protocol) = {}
                   /\ Known' = store \cup {Rescored(a, turned) : a \in RecordsOf(s, "task_outcome")}
    <3>1. PICK s, turned :
                   /\ AttemptsUnder(s, protocol) = {}
                   /\ Known' = store \cup {Rescored(a, turned) : a \in RecordsOf(s, "task_outcome")}
      BY <2>4
    <3> DEFINE new == {Rescored(a, turned) : a \in RecordsOf(s, "task_outcome")}
    <3>2. \A r \in new : Attempt(r) /\ r.sol = s /\ r.protocol = protocol /\ r.origin # 0
      BY <3>1, RescoredOf DEF SameOutput
    <3>3. Known' = store \cup new
      BY <3>1
    <3> HIDE DEF new
    <3>4. ASSUME NEW a \in store, NEW b \in new, Attempt(a), a.sol = b.sol, a.protocol = b.protocol
          PROVE  FALSE
      BY <3>1, <3>2, <3>4 DEF AttemptsUnder, RecordsOf
    <3> QED
      BY <2>1, <2>4, <3>2, <3>3, <3>4 DEF MissingInv
  <2> QED
    BY <2>2, <2>3, <2>4, KnownSteps
<1>2. ASSUME ToMeasure', ~repeat'
      PROVE  (/\ x.scope.task => AttemptsUnder(x.sol, protocol) = {}
              /\ x.scope.serving => RecordsOf(x.sol, "serving_performance") = {})'
  BY <1>2, MissingKept
<1> QED
  BY <1>1, <1>2 DEF MissingInv

LEMMA PendingOfOne ==
  ASSUME BatchInv, pc \in {"store", "rescoreStore"}
  PROVE  \A r \in Known : r \in store \/ r.sol = x.sol
<1>1. ASSUME NEW i \in DOMAIN writes, NEW r \in writes[i] PROVE r.sol = x.sol
  BY DEF BatchInv
<1> QED
  BY <1>1 DEF Known, Pending

(* A suite's attempts cover it.                                            *)
LEMMA SuiteRecordsCover ==
  ASSUME NEW t, SuiteShape(t), NEW a \in MadeBy(t), Attempt(a)
  PROVE  Covered(a, MadeBy(t))
<1>1. PICK d \in t.scored : d.retry \in {0, 1} /\ a = AttemptOf(t, d)
  BY RecordsMade
<1>2. /\ a.sol = t.sol /\ a.exec = t.exec /\ a.protocol = protocol
      /\ a.case = d.case /\ a.retry = d.retry /\ a.accepted = d.outcome
  BY <1>1, AttemptFields
<1>3. ASSUME NEW e \in t.scored, e.retry \in {0, 1}
      PROVE  \E b \in MadeBy(t) : /\ Attempt(b) /\ SameMeasurement(a, b)
                                  /\ b.case = e.case /\ b.retry = e.retry
  <2>1. AttemptOf(t, e) \in MadeBy(t)
    BY <1>3, EveryAttemptMade
  <2>2. /\ Attempt(AttemptOf(t, e)) /\ SameMeasurement(a, AttemptOf(t, e))
        /\ AttemptOf(t, e).case = e.case /\ AttemptOf(t, e).retry = e.retry
    BY <1>2, AttemptFields DEF SameMeasurement
  <2> QED
    BY <2>1, <2>2
<1>4. \A c \in SuiteOf[a.sol] : \E e \in t.scored : e.case = c /\ e.retry = 0
  BY <1>1, <1>2 DEF SuiteShape, Covers
<1>5. a.sol \in Chat /\ a.retry = 0 /\ a.accepted = "failed" =>
        \E e \in t.scored : e.case = a.case /\ e.retry = 1
  <2>1. t.sol \in Chat => \A e \in t.scored : e.retry = 0 /\ e.outcome = "failed" =>
          \E f \in t.scored : f.case = e.case /\ f.retry = 1
    BY Zenon DEF SuiteShape, Covers
  <2> QED
    BY <1>1, <1>2, <2>1
<1>6. ASSUME NEW c \in SuiteOf[a.sol]
      PROVE  \E b \in MadeBy(t) : Attempt(b) /\ SameMeasurement(a, b) /\ b.case = c /\ b.retry = 0
  BY <1>3, <1>4
<1>7. a.sol \in Chat /\ a.retry = 0 /\ a.accepted = "failed" =>
        \E b \in MadeBy(t) :
          Attempt(b) /\ SameMeasurement(a, b) /\ b.case = a.case /\ b.retry = 1
  BY <1>3, <1>5
<1> QED
  BY <1>6, <1>7 DEF Covered

LEMMA VerdictNext == ASSUME TypeInv, PhaseInv, BatchInv, VerdictInv, [Next]_vars PROVE VerdictInv'
<1> DEFINE FailedFirst(records) ==
             \A a, b \in records :
               /\ Attempt(a) /\ Attempt(b) /\ a.exec = b.exec /\ a.case = b.case
               /\ a.retry = 1 /\ b.retry = 0
               => b.accepted = "failed"
<1>1. FailedFirst(Known')
  <2>1. CASE \A r \in Known' : r \in Known \/ ~OfExecution(r)
    BY <2>1 DEF VerdictInv, OfExecution, Attempt
  <2>2. CASE /\ Settles /\ Known = store /\ Known' = store \cup MadeBy(x)
             /\ SuiteShape(x) /\ \A r \in store : OfExecution(r) => r.exec # x.exec
    <3>1. \A r \in MadeBy(x) : r.exec = x.exec
      BY RecordsMade
    <3>2. \A r \in store : Attempt(r) => r.exec # x.exec
      BY <2>2 DEF OfExecution, Attempt
    <3> QED
      BY <2>2, <3>1, <3>2, AttemptsMadeAgree DEF VerdictInv
  <2>3. CASE /\ Rescores /\ Known = store
             /\ \E s, turned :
                   /\ AttemptsUnder(s, protocol) = {}
                   /\ Known' = store \cup {Rescored(a, turned) : a \in RecordsOf(s, "task_outcome")}
    <3>1. PICK s, turned :
                   /\ AttemptsUnder(s, protocol) = {}
                   /\ Known' = store \cup {Rescored(a, turned) : a \in RecordsOf(s, "task_outcome")}
      BY <2>3
    <3>2. ASSUME NEW r \in Known', Attempt(r)
          PROVE  \E a \in store : /\ Attempt(a) /\ r.exec = a.exec /\ r.case = a.case /\ r.retry = a.retry
                                  /\ r.accepted = "failed" <=> a.accepted = "failed"
      <4>1. CASE r \in store
        BY <3>2, <4>1
      <4>2. CASE r \notin store
        <5>1. r \in {Rescored(a, turned) : a \in RecordsOf(s, "task_outcome")}
          BY <3>1, <4>2
        <5> QED
          BY <3>1, <5>1, RescoredOf DEF SameOutput
      <4> QED
        BY <4>1, <4>2
    <3>3. FailedFirst(store)
      BY <2>3 DEF VerdictInv
    <3> QED
      BY <3>2, <3>3
  <2> QED
    BY <2>1, <2>2, <2>3, KnownSteps
<1>2. ASSUME NEW a \in Known', Attempt(a), a.sol \notin cut' PROVE Covered(a, Known')
  <2>1. \A r \in Known : Attempt(r) /\ r.sol \notin cut => Covered(r, Known)
    BY DEF VerdictInv
  <2>2. store \subseteq Known
    BY StoreOnlyGrows
  <2>3. CASE Keeps \/ (Claims /\ a \in Known)
    <3>1. a \in Known /\ cut' = cut /\ Known \subseteq Known'
      BY <1>2, <2>3 DEF Keeps, Claims
    <3> QED
      BY <1>2, <2>1, <3>1 DEF Covered
  <2>4. CASE Drops
    <3>1. a \in store /\ Known' = store /\ a.sol \notin cut /\ a.sol # x.sol
      BY <1>2, <2>4 DEF Drops
    <3>2. Covered(a, Known)
      BY <1>2, <2>1, <2>2, <3>1
    <3>3. \A b \in Known : SameMeasurement(a, b) => b \in store
      BY <2>4, <3>1, PendingOfOne DEF Drops, SameMeasurement
    <3> QED
      BY <3>1, <3>2, <3>3 DEF Covered
  <2>5. CASE Claims /\ a \notin Known
    <3>1. a = ClaimRecord(x.sol)
      BY <1>2, <2>5 DEF Claims
    <3> QED
      BY <1>2, <3>1 DEF ClaimRecord, Attempt
  <2>6. CASE Settles
    <3>1. Known = store /\ Known' = store \cup MadeBy(x) /\ cut' = cut /\ SuiteShape(x)
      BY <2>6 DEF Settles, Makes, MadeBy, PhaseInv
    <3>2. CASE a \in Known
      <4>1. Covered(a, Known)
        BY <1>2, <2>1, <3>1, <3>2
      <4> QED
        BY <3>1, <4>1 DEF Covered
    <3>3. CASE a \in MadeBy(x)
      <4>1. Covered(a, MadeBy(x))
        BY <1>2, <3>1, <3>3, SuiteRecordsCover
      <4> QED
        BY <3>1, <4>1 DEF Covered
    <3> QED
      BY <1>2, <3>1, <3>2, <3>3
  <2>7. CASE Rescores
    <3> DEFINE s == Head(todo)
    <3>1. PICK turned : Makes(<<{Rescored(b, turned) : b \in RecordsOf(s, "task_outcome")}>>)
      BY <2>7 DEF Rescores
    <3>2. AttemptsUnder(s, protocol) = {}
      BY <2>7 DEF Rescores, Rescorable
    <3> HIDE DEF s
    <3> DEFINE new == {Rescored(b, turned) : b \in RecordsOf(s, "task_outcome")}
    <3>3. Known = store /\ Known' = store \cup new /\ cut' = cut
      BY <3>1, RescoredMade DEF Makes
    <3>4. CASE a \in Known
      <4>1. Covered(a, Known)
        BY <1>2, <2>1, <3>3, <3>4
      <4> QED
        BY <3>3, <4>1 DEF Covered
    <3>5. CASE a \in new
      <4>1. PICK o \in store : /\ Attempt(o) /\ o.sol = s /\ SameOutput(a, o) /\ a.protocol = protocol
                               /\ a.accepted = "failed" <=> o.accepted = "failed"
        BY <3>2, <3>5, RescoredOf
      <4>2. Covered(o, store)
        BY <1>2, <2>1, <3>3, <4>1 DEF SameOutput
      <4>3. ASSUME NEW b \in store, Attempt(b), SameMeasurement(o, b)
            PROVE  \E r \in new : /\ Attempt(r) /\ SameMeasurement(a, r)
                                  /\ r.case = b.case /\ r.retry = b.retry
        <5>1. Rescored(b, turned) \in new
          BY <4>1, <4>3 DEF RecordsOf, Attempt, SameMeasurement
        <5>2. /\ Attempt(Rescored(b, turned)) /\ SameOutput(Rescored(b, turned), b)
              /\ Rescored(b, turned).protocol = protocol
          BY RescoredFields
        <5>3. SameMeasurement(a, Rescored(b, turned))
          BY <4>1, <4>3, <5>2 DEF SameOutput, SameMeasurement
        <5> QED
          BY <5>1, <5>2, <5>3 DEF SameOutput
      <4>4. a.sol = o.sol /\ a.case = o.case /\ a.retry = o.retry
        BY <4>1 DEF SameOutput
      <4> HIDE DEF new
      <4>5. Covered(a, new)
        BY <4>1, <4>2, <4>3, <4>4 DEF Covered
      <4> QED
        BY <3>3, <4>5 DEF Covered
    <3> QED
      BY <1>2, <3>3, <3>4, <3>5
  <2> QED
    BY <2>3, <2>4, <2>5, <2>6, <2>7, RecordSteps
<1>3. VerdictInv' = (FailedFirst(Known') /\ \A a \in Known' : Attempt(a) /\ a.sol \notin cut' => Covered(a, Known'))
  BY DEF VerdictInv, Covered, SameMeasurement, Attempt
<1> HIDE DEF FailedFirst
<1> QED
  BY <1>1, <1>2, <1>3

LEMMA InvNext == ASSUME IInv, [Next]_vars PROVE IInv'
  BY TypeNext, PhaseNext, LeakNext, AccountNext, CompleteNext, BatchNext, StoreInvNext,
     IdentityNext, LeakyRecordsNext, ExecutionNext, RescoredNext, MissingNext, VerdictNext
     DEF IInv

(* The inductive invariant holds in every state.                           *)
THEOREM Invariant == Spec => []IInv
<1>1. Init => IInv
  BY InitInv
<1>2. IInv /\ [Next]_vars => IInv'
  BY InvNext
<1> QED
  BY <1>1, <1>2, PTL DEF Spec

-----------------------------------------------------------------------------
(* What the invariant says of the properties.                              *)

(* Only a boot report is ever stored of an execution whose pod held a       *)
(* token: voids in _check_pod_token, whatever is re-scored later.          *)
THEOREM LeakyPodLeavesNothing == Spec => []NothingFromLeakyPod
<1>1. IInv => NothingFromLeakyPod
  BY DEF IInv, LeakyInv, OfExecution, Known, NothingFromLeakyPod
<1> QED
  BY <1>1, Invariant, PTL

(* A pod that could not be terminated ends the run: nothing is rented after *)
(* it, and the error that reports it is not lost on the way to the loop.   *)
THEOREM LeakEndsRun == Spec => []LeakStopsRun
<1>1. IInv => LeakStopsRun
  BY DEF IInv, LeakInv, LeakStopsRun
<1> QED
  BY <1>1, Invariant, PTL

(* Every stored attempt leads to its memory report or to the attempt that   *)
(* it re-scores, every record to an identity and its claim, and an attempt  *)
(* to the manifest entry of the protocol that scored it, in every state, so *)
(* after a death between any two writes: but for the re-scored attempts     *)
(* whose entry is still to be appended, or was lost with the re-scoring.    *)
THEOREM EveryTraceResolves == Spec => []TraceResolves
<1>1. ASSUME IInv PROVE TraceResolves
  <2>1. store \subseteq Known
    BY DEF Known
  <2>2. \A r \in store : /\ \E p \in 1..protocol : <<r.sol, p>> \in manifest
                         /\ OfExecution(r) => ClaimRecord(r.sol) \in store
    BY <1>1, <2>1 DEF IInv, IdentityInv
  <2>4. ASSUME NEW r \in store, Attempt(r)
        PROVE  <<r.sol, r.protocol>> \in manifest \/ AwaitsEntry(r)
    BY <1>1, <2>1, <2>4 DEF IInv, IdentityInv
  <2>3. ASSUME NEW r \in store, Attempt(r) PROVE Traced(r)
    <3>1. CASE r.origin = 0
      BY <1>1, <2>3, <3>1 DEF IInv, StoreInv, HasMemory, Memory, Traced
    <3>2. CASE r.origin # 0
      BY <1>1, <2>3, <3>2 DEF IInv, StoreInv, HasOriginal, SameOutput, Traced
    <3> QED
      BY <3>1, <3>2
  <2> QED
    BY <2>2, <2>3, <2>4 DEF TraceResolves, OfExecution
<1> QED
  BY <1>1, Invariant, PTL

(* Without repeat no measurement is taken and no output judged a second     *)
(* time: what Missing and Rescorable find absent is still absent when the   *)
(* batches made from it are stored.                                        *)
THEOREM NothingMeasuredTwice == Spec => []MeasuredOnce
<1>1. ASSUME IInv, ~repeated,
             NEW a \in store, NEW b \in store, Attempt(a), Attempt(b),
             a.sol = b.sol, a.protocol = b.protocol, a.case = b.case, a.retry = b.retry,
             a.origin = 0 \/ a.exec = b.exec, FirstHand(a), FirstHand(b)
      PROVE  a = b
  <2>1. store \subseteq Known
    BY DEF Known
  <2>2. ASSUME NEW c \in store, NEW d \in store, Attempt(c), Attempt(d),
               c.sol = d.sol, c.protocol = d.protocol, c.origin = 0
        PROVE  d.origin = 0 /\ c.exec = d.exec
    BY <1>1, <2>1, <2>2 DEF IInv, MissingInv
  <2>3. ASSUME NEW c \in store, NEW d \in store, Attempt(c), Attempt(d),
               c.origin = 0, d.origin = 0, c.exec = d.exec
        PROVE  c.protocol = d.protocol /\ (c.case = d.case /\ c.retry = d.retry => c = d)
    BY <1>1, <2>1, <2>3 DEF IInv, ExecutionInv
  <2>4. CASE a.origin = 0
    <3>1. b.origin = 0 /\ a.exec = b.exec
      BY <1>1, <2>2, <2>4
    <3> QED
      BY <1>1, <2>3, <2>4, <3>1
  <2>5. CASE a.origin # 0 /\ b.origin = 0
    BY <1>1, <2>2, <2>5
  <2>6. CASE a.origin # 0 /\ b.origin # 0
    <3>1. PICK o \in store : Attempt(o) /\ SameOutput(a, o) /\ o.protocol = a.origin /\ o.origin = 0
      BY <1>1, <2>6 DEF FirstHand, SameOutput
    <3>2. PICK q \in store : Attempt(q) /\ SameOutput(b, q) /\ q.protocol = b.origin /\ q.origin = 0
      BY <1>1, <2>6 DEF FirstHand, SameOutput
    <3>3. a.exec = b.exec
      BY <1>1, <2>6
    <3>4. a.origin = b.origin
      BY <2>3, <3>1, <3>2, <3>3 DEF SameOutput
    <3>5. SameOutput(a, b)
      BY <1>1, <3>3 DEF SameOutput
    <3> QED
      BY <1>1, <2>1, <3>1, <3>4, <3>5 DEF IInv, RescoredInv
  <2> QED
    BY <2>4, <2>5, <2>6
<1>2. IInv => MeasuredOnce
  BY <1>1 DEF MeasuredOnce
<1> QED
  BY <1>2, Invariant, PTL

(* What is skipped as measured was measured in full, unless its storing was *)
(* cut off.                                                                *)
THEOREM SkippedWasMeasured == Spec => []SkippedIsMeasured
<1>1. ASSUME IInv, NEW s \in result.complete, s \notin cut
      PROVE  LET verdicts == AttemptsUnder(s, protocol)
             IN  /\ \E r \in store : r.sol = s /\ r.scope = "memory"
                 /\ \E r \in store : r.sol = s /\ r.scope = "serving_performance"
                 /\ \A c \in SuiteOf[s] :
                      /\ \E a \in verdicts : a.case = c /\ a.retry = 0
                      /\ s \in Chat => \A a \in verdicts :
                           a.case = c /\ a.retry = 0 /\ a.accepted = "failed" =>
                             \E b \in verdicts : b.case = c /\ b.retry = 1 /\ b.exec = a.exec
  <2>1. /\ \E r \in store : r.sol = s /\ Memory(r)
        /\ \E r \in store : r.sol = s /\ ServingReport(r)
        /\ AttemptsUnder(s, protocol) # {}
    BY <1>1 DEF IInv, CompleteInv
  <2>2. \A r \in Known : r.sol = s => r \in store
    <3>1. CASE pc = "store"
      <4>1. s # x.sol
        BY <1>1, <3>1 DEF IInv, AccountInv, RunSteps, InHand
      <4> QED
        BY <1>1, <3>1, <4>1, PendingOfOne DEF IInv
    <3>2. CASE pc = "rescoreStore"
      BY <1>1, <3>2 DEF IInv, AccountInv, RescoreSteps
    <3>3. CASE pc \notin {"store", "rescoreStore"}
      BY <1>1, <3>3, NothingPending DEF IInv, TypeInv
    <3> QED
      BY <3>1, <3>2, <3>3
  <2>3. ASSUME NEW a \in AttemptsUnder(s, protocol) PROVE a.sol = s /\ Covered(a, Known)
    <3>1. a \in Known /\ Attempt(a) /\ a.sol = s
      BY DEF AttemptsUnder, RecordsOf, Attempt, Known
    <3> QED
      BY <1>1, <3>1 DEF IInv, VerdictInv
  <2>4. ASSUME NEW a \in AttemptsUnder(s, protocol), NEW b \in Known, Attempt(b), SameMeasurement(a, b)
        PROVE  b \in AttemptsUnder(s, protocol) /\ b.exec = a.exec
    BY <2>2, <2>4 DEF AttemptsUnder, RecordsOf, Attempt, SameMeasurement
  <2>5. ASSUME NEW c \in SuiteOf[s] PROVE \E a \in AttemptsUnder(s, protocol) : a.case = c /\ a.retry = 0
    BY <2>1, <2>3, <2>4 DEF Covered
  <2>6. ASSUME NEW a \in AttemptsUnder(s, protocol), s \in Chat, a.retry = 0, a.accepted = "failed"
        PROVE  \E b \in AttemptsUnder(s, protocol) :
                 b.case = a.case /\ b.retry = 1 /\ b.exec = a.exec
    <3>1. a.sol = s
      BY DEF AttemptsUnder, RecordsOf
    <3> QED
      BY <2>3, <2>4, <2>6, <3>1 DEF Covered
  <2> QED
    BY <2>1, <2>5, <2>6 DEF Memory, ServingReport
<1>2. IInv => SkippedIsMeasured
  BY <1>1 DEF SkippedIsMeasured
<1> QED
  BY <1>2, Invariant, PTL

(* A run that ends unstopped has put every solution of the cohort in        *)
(* exactly one of its four lists.                                          *)
LEMMA SolutionFinite == IsFiniteSet(Solution)
<1>1. DOMAIN Plans = 1..Len(Plans) /\ Len(Plans) \in Nat
  BY RunAssumption
<1>2. IsFiniteSet(DOMAIN Plans)
  BY <1>1, FS_Interval
<1>3. Plans \in Surjection(DOMAIN Plans, Solution)
  BY RunAssumption DEF Surjection, Solution, Range
<1> QED
  BY <1>2, <1>3, FS_Surjection

THEOREM RunAccountsForEverySolution == Spec => []EverySolutionAccounted
<1>1. ASSUME IInv, pc = "exit", ~result.stopped
      PROVE  /\ Done = Solution
             /\ Cardinality(result.executed) + Cardinality(result.skipped)
                  + Cardinality(result.complete) + Cardinality(result.errors)
                  = Cardinality(Solution)
  <2>1. /\ Done \subseteq Solution /\ Solution \subseteq Done \cup Range(todo) /\ todo = <<>>
        /\ result.executed \cap (result.skipped \cup result.complete \cup result.errors) = {}
        /\ result.skipped \cap (result.complete \cup result.errors) = {}
        /\ result.complete \cap result.errors = {}
    BY <1>1 DEF IInv, AccountInv, RunSteps, InHand, Executing
  <2>2. Range(todo) = {}
    BY <2>1 DEF Range
  <2>3. Done = Solution
    BY <2>1, <2>2
  <2>4. ASSUME NEW S, NEW T, IsFiniteSet(S), IsFiniteSet(T), S \cap T = {}
        PROVE  /\ IsFiniteSet(S \cup T)
               /\ Cardinality(S) \in Nat /\ Cardinality(T) \in Nat
               /\ Cardinality(S \cup T) = Cardinality(S) + Cardinality(T)
    BY <2>4, FS_Union, FS_EmptySet, FS_CardinalityType
  <2>5. /\ IsFiniteSet(result.executed) /\ IsFiniteSet(result.skipped)
        /\ IsFiniteSet(result.complete) /\ IsFiniteSet(result.errors)
    <3>1. /\ result.executed \subseteq Solution /\ result.skipped \subseteq Solution
          /\ result.complete \subseteq Solution /\ result.errors \subseteq Solution
      BY <2>1 DEF Done
    <3> QED
      BY <3>1, SolutionFinite, FS_Subset
  <2> DEFINE unmeasured == result.complete \cup result.errors
             left == result.skipped \cup unmeasured
  <2>6. /\ IsFiniteSet(unmeasured) /\ Cardinality(result.complete) \in Nat /\ Cardinality(result.errors) \in Nat
        /\ Cardinality(unmeasured) = Cardinality(result.complete) + Cardinality(result.errors)
    BY <2>1, <2>4, <2>5
  <2>7. /\ IsFiniteSet(left) /\ Cardinality(result.skipped) \in Nat
        /\ Cardinality(left) = Cardinality(result.skipped) + Cardinality(unmeasured)
    BY <2>1, <2>4, <2>5, <2>6
  <2>8. /\ Cardinality(result.executed) \in Nat
        /\ Cardinality(result.executed \cup left) = Cardinality(result.executed) + Cardinality(left)
    BY <2>1, <2>4, <2>5, <2>7
  <2>9. result.executed \cup left = Solution
    BY <2>3 DEF Done
  <2> HIDE DEF unmeasured, left
  <2>10. Cardinality(Solution)
           = Cardinality(result.executed) + (Cardinality(result.skipped)
               + (Cardinality(result.complete) + Cardinality(result.errors)))
    BY <2>6, <2>7, <2>8, <2>9
  <2> QED
    BY <2>3, <2>6, <2>7, <2>8, <2>10
<1>2. IInv => EverySolutionAccounted
  BY <1>1 DEF EverySolutionAccounted, Done
<1> QED
  BY <1>2, Invariant, PTL

-----------------------------------------------------------------------------
(* The clock of an execution and its failed boots.                         *)

Failure ==
  [tag : {"exception", "unclean", "harness", "leak", "teardown"},
   log : Log \cup FailureKinds \cup {"capacity", "leak", "error"}]

Timed(t) ==
  /\ DOMAIN t = DOMAIN Idle
  /\ t.clock \in Int /\ t.taskStart \in Int /\ t.taskEnd \in Int
  /\ t.servingStart \in Int /\ t.servingEnd \in Int
  /\ t.boot \in Nat /\ t.failed \in Seq(Failure)

(* Every boot that is tried again has a report, and there are at most two;  *)
(* what is raised later and a teardown that fails add one each.            *)
TimeInv ==
  /\ pc \in Executing \cup {"claim", "capacity"} => Timed(x)
  /\ pc \in {"claim", "capacity", "provision"} => x.failed = <<>> /\ x.boot = 0
  /\ pc = "boot" => Len(x.failed) = x.boot /\ x.boot < BootAttempts
  /\ pc \in {"verify", "tasks", "serving"} => Len(x.failed) < BootAttempts
  /\ pc = "teardown" => Len(x.failed) <= BootAttempts
  /\ pc = "settle" => Len(x.failed) <= BootAttempts + 1

(* The two have the same failed boots.                                     *)
SameBoots(t, u) == Timed(t) /\ t.failed = u.failed /\ t.boot = u.boot

LEMMA TimedIdle == Timed(Idle) /\ Idle.failed = <<>> /\ Idle.boot = 0
  BY DEF Timed, Idle

LEMMA TimedSteps ==
  ASSUME NEW t, Timed(t)
  PROVE  SameBoots(t, t) /\ SameBoots(Tick(t), t) /\ SameBoots(CloseOpenPhases(t), t)
<1> USE DEF Timed, Idle, SameBoots
<1>1. SameBoots(t, t)
  OBVIOUS
<1>2. SameBoots(Tick(t), t)
  BY DEF Tick
<1>3. SameBoots(CloseOpenPhases(t), t)
  BY DEF CloseOpenPhases
<1> QED
  BY <1>1, <1>2, <1>3

(* One more failed boot.                                                   *)
OneMore(t, u) ==
  Timed(t) /\ t.boot = u.boot /\ t.failed \in Seq(Failure) /\ Len(t.failed) = Len(u.failed) + 1

LEMMA FailedOneMore ==
  ASSUME NEW t, Timed(t), NEW tag, NEW log, [tag |-> tag, log |-> log] \in Failure
  PROVE  OneMore(FailedBoot(t, tag, log), t)
<1> DEFINE f == [tag |-> tag, log |-> log]
           s == Append(t.failed, f)
<1>1. s \in Seq(Failure) /\ Len(s) = Len(t.failed) + 1
  BY DEF Timed
<1>2. FailedBoot(t, tag, log) = [t EXCEPT !.failed = s]
  BY DEF FailedBoot
<1> HIDE DEF s
<1> QED
  BY <1>1, <1>2 DEF OneMore, Timed, Idle

LEMMA RaisedOneMore ==
  ASSUME NEW t, Timed(t), NEW e \in FailureKinds \cup {"capacity", "leak"}
  PROVE  OneMore(Raised(t, e), t) /\ OneMore(FailedBoot(t, "exception", e), t)
<1> DEFINE u == FailedBoot(t, "exception", e)
<1>1. [tag |-> "exception", log |-> e] \in Failure
  BY DEF Failure
<1>2. OneMore(u, t)
  BY <1>1, FailedOneMore
<1> HIDE DEF u
<1>3. OneMore([u EXCEPT !.error = e], t)
  BY <1>2 DEF OneMore, Timed, Idle
<1> QED
  BY <1>2, <1>3 DEF Raised, u

(* What each step of an execution does to its failed boots.                *)
OneBootMore(next) == pc' = next /\ OneMore(x', x)

LEMMA BootTimes ==
  ASSUME Timed(x)
  PROVE  /\ Provision => (pc' = "boot" /\ SameBoots(x', x)) \/ OneBootMore("teardown")
         /\ BootHarnessFailure =>
              /\ pc = "boot"
              /\ Timed(x') /\ x'.boot = x.boot + 1 /\ Len(x'.failed) = Len(x.failed) + 1
              /\ pc' = IF x.boot + 1 < BootAttempts THEN "boot" ELSE "teardown"
         /\ BootModelFailure => pc' = "teardown" /\ SameBoots(x', x)
         /\ BootHealthy => pc' = "verify" /\ SameBoots(x', x)
         /\ BootRaises => OneBootMore("teardown")
         /\ TokenLeaks => OneBootMore("teardown")
         /\ Verify => (pc' = "tasks" /\ SameBoots(x', x)) \/ OneBootMore("teardown")
<1> USE DEF Step, Fails, FailsAgain, Goto
<1>1. SameBoots(Tick(x), x) /\ SameBoots(x, x) /\ Timed(Tick(x))
  BY TimedSteps DEF SameBoots
<1>2. ASSUME NEW t, SameBoots(t, x), NEW e \in FailureKinds \cup {"capacity", "leak"},
             x' = Raised(t, e), pc' = "teardown"
      PROVE  OneBootMore("teardown")
  BY <1>2, RaisedOneMore DEF SameBoots, OneMore, OneBootMore
<1>3. ASSUME Provision PROVE (pc' = "boot" /\ SameBoots(x', x)) \/ OneBootMore("teardown")
  <2>1. CASE pc' = "boot" /\ x' = Tick(x)
    BY <1>1, <2>1
  <2>2. CASE \E e \in FailureKinds \cup {"capacity"} : pc' = "teardown" /\ x' = Raised(Tick(x), e)
    BY <1>1, <1>2, <2>2
  <2> QED
    BY <1>3, <2>1, <2>2 DEF Provision
<1>4. ASSUME BootHarnessFailure
      PROVE  /\ pc = "boot"
             /\ Timed(x') /\ x'.boot = x.boot + 1 /\ Len(x'.failed) = Len(x.failed) + 1
             /\ pc' = IF x.boot + 1 < BootAttempts THEN "boot" ELSE "teardown"
  <2> DEFINE u == [x EXCEPT !.boot = @ + 1]
             t == Tick(u)
  <2>1. PICK tag \in {"unclean", "harness"}, log \in Log :
          /\ pc = "boot" /\ x' = FailedBoot(t, tag, log)
          /\ pc' = IF FailedBoot(t, tag, log).boot < BootAttempts THEN "boot" ELSE "teardown"
    BY <1>4 DEF BootHarnessFailure
  <2>2. Timed(u) /\ u.boot = x.boot + 1 /\ u.failed = x.failed
    BY DEF Timed, Idle
  <2> HIDE DEF u
  <2>3. SameBoots(t, u)
    BY <2>2, TimedSteps
  <2>4. [tag |-> tag, log |-> log] \in Failure
    BY <2>1 DEF Failure
  <2> HIDE DEF t
  <2>5. OneMore(FailedBoot(t, tag, log), t)
    BY <2>3, <2>4, FailedOneMore DEF SameBoots
  <2> QED
    BY <2>1, <2>2, <2>3, <2>5 DEF OneMore, SameBoots
<1>5. ASSUME BootModelFailure PROVE pc' = "teardown" /\ SameBoots(x', x)
  <2>1. PICK log : x' = [Tick(x) EXCEPT !.logTail = log] /\ pc' = "teardown"
    BY <1>5 DEF BootModelFailure
  <2>2. SameBoots([Tick(x) EXCEPT !.logTail = log], x)
    BY <1>1 DEF SameBoots, Timed, Idle
  <2> QED
    BY <2>1, <2>2
<1>6. ASSUME BootHealthy PROVE pc' = "verify" /\ SameBoots(x', x)
  <2>1. SameBoots([Tick(x) EXCEPT !.healthy = TRUE], x)
    BY <1>1 DEF SameBoots, Timed, Idle
  <2> QED
    BY <1>6, <2>1 DEF BootHealthy
<1>7. BootRaises => OneBootMore("teardown")
  BY <1>1, <1>2 DEF BootRaises
<1>8. ASSUME TokenLeaks PROVE OneBootMore("teardown")
  <2> DEFINE t == FailedBoot(x, "exception", "leak")
  <2>1. OneMore(t, x)
    BY RaisedOneMore
  <2> HIDE DEF t
  <2>2. OneMore([t EXCEPT !.error = "stop", !.healthy = FALSE], x)
    BY <2>1 DEF OneMore, Timed, Idle
  <2> QED
    BY <1>8, <2>2 DEF TokenLeaks, OneBootMore, t
<1>9. ASSUME Verify PROVE (pc' = "tasks" /\ SameBoots(x', x)) \/ OneBootMore("teardown")
  <2>1. CASE pc' = "tasks" /\ x' = [x EXCEPT !.report = TRUE, !.taskStart = x.clock]
    BY <2>1 DEF SameBoots, Timed, Idle
  <2>2. CASE \E e \in FailureKinds : pc' = "teardown" /\ x' = Raised(x, e)
    BY <1>1, <1>2, <2>2
  <2> QED
    BY <1>9, <2>1, <2>2 DEF Verify
<1> QED
  BY <1>3, <1>4, <1>5, <1>6, <1>7, <1>8, <1>9

LEMMA MeasurementTimes ==
  ASSUME Timed(x)
  PROVE  /\ Tasks => (pc' = "serving" /\ SameBoots(x', x)) \/ OneBootMore("teardown")
         /\ Serving => (pc' = "teardown" /\ SameBoots(x', x)) \/ OneBootMore("teardown")
         /\ Teardown => (pc' = "settle" /\ SameBoots(x', x)) \/ OneBootMore("settle")
<1> USE DEF Step, Fails, Goto
<1>1. SameBoots(Tick(x), x) /\ SameBoots(x, x) /\ Timed(Tick(x))
  BY TimedSteps DEF SameBoots
<1>2. ASSUME NEW t, SameBoots(t, x), NEW e \in FailureKinds, x' = Raised(t, e),
             pc' = "teardown"
      PROVE  OneBootMore("teardown")
  BY <1>2, RaisedOneMore DEF SameBoots, OneMore, OneBootMore
<1>3. ASSUME Tasks PROVE (pc' = "serving" /\ SameBoots(x', x)) \/ OneBootMore("teardown")
  <2>1. ASSUME NEW t, SameBoots(t, x), pc' = "serving", x' = [t EXCEPT !.taskEnd = t.clock]
        PROVE  SameBoots(x', x)
    BY <2>1 DEF SameBoots, Timed, Idle
  <2>2. ASSUME NEW t, SameBoots(t, x), NEW scored PROVE SameBoots([t EXCEPT !.scored = scored], x)
    BY <2>2 DEF SameBoots, Timed, Idle
  <2>3. ASSUME NEW t \in {x, Tick(x)}, NEW scored,
               \/ /\ pc' = "serving"
                  /\ x' = [[t EXCEPT !.scored = scored]
                           EXCEPT !.taskEnd = [t EXCEPT !.scored = scored].clock]
               \/ \E e \in FailureKinds :
                    pc' = "teardown" /\ x' = Raised([t EXCEPT !.scored = scored], e)
        PROVE  (pc' = "serving" /\ SameBoots(x', x)) \/ OneBootMore("teardown")
    <3> DEFINE u == [t EXCEPT !.scored = scored]
    <3>1. SameBoots(u, x)
      BY <1>1, <2>2
    <3> HIDE DEF u
    <3>2. \/ pc' = "serving" /\ x' = [u EXCEPT !.taskEnd = u.clock]
          \/ \E e \in FailureKinds : pc' = "teardown" /\ x' = Raised(u, e)
      BY <2>3 DEF u
    <3> QED
      BY <1>2, <2>1, <3>1, <3>2
  <2> DEFINE Handed(t, scored) ==
               \/ /\ pc' = "serving"
                  /\ x' = [[t EXCEPT !.scored = scored]
                           EXCEPT !.taskEnd = [t EXCEPT !.scored = scored].clock]
               \/ \E e \in FailureKinds :
                    pc' = "teardown" /\ x' = Raised([t EXCEPT !.scored = scored], e)
  <2>4. CASE ~x.scope.task /\ Step("tasks", [x EXCEPT !.taskEnd = x.clock], "serving")
    BY <1>1, <2>1, <2>4
  <2>5. CASE Handed(x, {Scored(c, 0, "failed") : c \in SuiteOf[x.sol]})
    BY <2>3, <2>5
  <2>6. CASE \E first, second : Handed(Tick(x), Suite(first, second))
    BY <2>3, <2>6
  <2>7. CASE \E e \in FailureKinds : Fails("tasks", Raised(Tick(x), e), "teardown")
    BY <1>1, <1>2, <2>7
  <2> QED
    BY <1>3, <2>4, <2>5, <2>6, <2>7 DEF Tasks
<1>4. ASSUME Serving PROVE (pc' = "teardown" /\ SameBoots(x', x)) \/ OneBootMore("teardown")
  <2> DEFINE u == [x EXCEPT !.servingStart = x.clock]
             started == Tick(u)
  <2>1. SameBoots(u, x)
    BY DEF SameBoots, Timed, Idle
  <2>2. SameBoots(started, x)
    BY <2>1, TimedSteps DEF SameBoots
  <2>3. CASE \E verdict : x' = [started EXCEPT !.bench = verdict, !.servingEnd = started.clock]
    <3> HIDE DEF started
    <3>1. \A verdict : SameBoots([started EXCEPT !.bench = verdict, !.servingEnd = started.clock], x)
      BY <2>2 DEF SameBoots, Timed, Idle
    <3>2. SameBoots(x', x)
      BY <2>3, <3>1
    <3> QED
      BY <1>4, <3>2 DEF Serving
  <2>4. CASE \E e \in FailureKinds : x' = Raised(started, e)
    <3>1. pc' = "teardown"
      BY <1>4 DEF Serving
    <3> QED
      BY <1>2, <2>2, <2>4, <3>1
  <2>5. CASE x' = x
    BY <1>1, <1>4, <2>5 DEF Serving
  <2> QED
    BY <1>4, <2>3, <2>4, <2>5 DEF Serving
<1>5. ASSUME Teardown PROVE (pc' = "settle" /\ SameBoots(x', x)) \/ OneBootMore("settle")
  <2>1. ASSUME NEW t, Timed(t), x' = CloseOpenPhases(Tick(t)) PROVE SameBoots(x', t)
    <3>1. SameBoots(Tick(t), t)
      BY <2>1, TimedSteps
    <3>2. SameBoots(x', Tick(t))
      BY <2>1, <3>1, TimedSteps DEF SameBoots
    <3> QED
      BY <3>1, <3>2 DEF SameBoots
  <2>2. CASE x' = CloseOpenPhases(x) \/ x' = CloseOpenPhases(Tick(x))
    BY <1>5, <2>1, <2>2, TimedSteps DEF Teardown
  <2>3. ASSUME NEW tag \in {"leak", "teardown"}, NEW log \in {"leak", "error"}
        PROVE  OneMore(FailedBoot(x, tag, log), x)
    BY FailedOneMore DEF Failure
  <2>4. CASE x' = CloseOpenPhases(Tick([FailedBoot(x, "leak", "leak") EXCEPT !.leaked = TRUE]))
    <3> DEFINE t == FailedBoot(x, "leak", "leak")
    <3>1. OneMore(t, x)
      BY <2>3
    <3> HIDE DEF t
    <3>2. OneMore([t EXCEPT !.leaked = TRUE], x)
      BY <3>1 DEF OneMore, Timed, Idle
    <3> QED
      BY <1>5, <2>1, <2>4, <3>2 DEF Teardown, OneMore, SameBoots, OneBootMore, t
  <2>5. CASE x' = CloseOpenPhases(Tick([FailedBoot(x, "teardown", "error")
                    EXCEPT !.error = IF @ = "none" THEN "unexpected" ELSE @]))
    <3> DEFINE t == FailedBoot(x, "teardown", "error")
    <3>1. OneMore(t, x)
      BY <2>3
    <3> HIDE DEF t
    <3>2. \A e : OneMore([t EXCEPT !.error = e], x)
      BY <3>1 DEF OneMore, Timed, Idle
    <3>3. [t EXCEPT !.error = IF @ = "none" THEN "unexpected" ELSE @]
            = [t EXCEPT !.error = IF t.error = "none" THEN "unexpected" ELSE t.error]
      OBVIOUS
    <3> QED
      BY <1>5, <2>1, <2>5, <3>2, <3>3 DEF Teardown, OneMore, SameBoots, OneBootMore, t
  <2> QED
    BY <1>5, <2>2, <2>4, <2>5 DEF Teardown
<1> QED
  BY <1>3, <1>4, <1>5

LEMMA TimeNext == ASSUME TypeInv, TimeInv, [Next]_vars PROVE TimeInv'
<1> USE DEF vars, files, process, history
<1>1. ASSUME pc' = pc, x' = x PROVE TimeInv'
  BY <1>1 DEF TimeInv
<1>2. ASSUME pc' \notin Executing \cup {"claim", "capacity"} PROVE TimeInv'
  BY <1>2 DEF TimeInv, Executing
<1>3. ASSUME pc' \in {"claim", "capacity", "provision"}, Timed(x'), x'.failed = <<>>, x'.boot = 0
      PROVE  TimeInv'
  BY <1>3 DEF TimeInv, Executing
<1>4. ASSUME NEW t, Timed(t), NEW sol, NEW scope, NEW exec, NEW tries, NEW error
      PROVE  /\ SameBoots([t EXCEPT !.sol = sol], t) /\ SameBoots([t EXCEPT !.scope = scope], t)
             /\ SameBoots([t EXCEPT !.exec = exec], t) /\ SameBoots([t EXCEPT !.error = error], t)
             /\ SameBoots([t EXCEPT !.sol = sol, !.scope = scope, !.tries = tries], t)
  BY <1>4 DEF SameBoots, Timed, Idle
<1>5. CASE ExecutionStep
  <2>1. Timed(x)
    BY <1>5, ExecutionSteps DEF TimeInv, TypeInv
  <2>2. Len(x.failed) \in Nat /\ x.boot \in Nat
    BY <2>1 DEF Timed
  <2>3. CASE Provision
    <3>1. pc = "provision" /\ x.failed = <<>> /\ x.boot = 0
      BY <2>3 DEF Provision, Step, Fails, FailsAgain, TimeInv
    <3>2. Len(x.failed) = 0
      BY <3>1
    <3>3. (pc' = "boot" /\ SameBoots(x', x)) \/ OneBootMore("teardown")
      BY <2>1, <2>3, BootTimes
    <3>4. CASE pc' = "boot" /\ SameBoots(x', x)
      <4>1. Timed(x') /\ x'.boot = 0 /\ Len(x'.failed) = 0
        BY <3>1, <3>2, <3>4 DEF SameBoots
      <4> QED
        BY <3>4, <4>1 DEF TimeInv, Executing, BootAttempts
    <3>5. CASE OneBootMore("teardown")
      BY <3>2, <3>5 DEF TimeInv, Executing, OneMore, OneBootMore, BootAttempts
    <3> QED
      BY <3>3, <3>4, <3>5
  <2>4. CASE BootHarnessFailure
    <3>1. /\ pc = "boot"
          /\ Timed(x') /\ x'.boot = x.boot + 1 /\ Len(x'.failed) = Len(x.failed) + 1
          /\ pc' = IF x.boot + 1 < BootAttempts THEN "boot" ELSE "teardown"
      BY <2>1, <2>4, BootTimes
    <3> QED
      BY <2>2, <3>1 DEF TimeInv, Executing, BootAttempts
  <2>5. CASE BootModelFailure \/ BootHealthy \/ BootRaises
    <3>1. pc = "boot"
      BY <2>5 DEF BootModelFailure, BootHealthy, BootRaises, Step, Fails
    <3> QED
      BY <2>1, <2>2, <2>5, <3>1, BootTimes DEF TimeInv, Executing, SameBoots, OneMore, OneBootMore, BootAttempts
  <2>6. CASE TokenLeaks \/ Verify \/ Tasks \/ Serving
    <3>1. pc \in {"verify", "tasks", "serving"}
      BY <2>6 DEF TokenLeaks, Verify, Tasks, Serving, Step, Fails
    <3>2. \/ pc' \in {"tasks", "serving", "teardown"} /\ SameBoots(x', x)
          \/ OneBootMore("teardown")
      BY <2>1, <2>6, BootTimes, MeasurementTimes
    <3> QED
      BY <2>2, <3>1, <3>2 DEF TimeInv, Executing, SameBoots, OneMore, OneBootMore, BootAttempts
  <2>7. CASE Teardown
    <3>1. pc = "teardown"
      BY <2>7 DEF Teardown
    <3> QED
      BY <2>1, <2>2, <2>7, <3>1, MeasurementTimes DEF TimeInv, Executing, SameBoots, OneMore, OneBootMore, BootAttempts
  <2> QED
    BY <1>5, <2>3, <2>4, <2>5, <2>6, <2>7 DEF ExecutionStep
<1>6. CASE RecordIdentity
  BY <1>3, <1>4, <1>6, TimedIdle DEF RecordIdentity, SameBoots
<1>7. CASE ToExecute
  <2>1. Timed(x) /\ x.failed = <<>> /\ x.boot = 0 /\ pc' = "capacity"
    BY <1>7 DEF ToExecute, TimeInv
  <2>2. PICK scope : x' = [x EXCEPT !.scope = scope]
    BY <1>7 DEF ToExecute
  <2>3. SameBoots(x', x)
    BY <1>4, <2>1, <2>2
  <2> QED
    BY <1>3, <2>1, <2>3 DEF SameBoots
<1>8. CASE Begin
  <2>1. Timed(x) /\ x.failed = <<>> /\ x.boot = 0
    BY <1>8 DEF Begin, TimeInv
  <2>2. CASE pc' = "provision" /\ x' = [x EXCEPT !.exec = executions + 1]
    BY <1>3, <1>4, <2>1, <2>2 DEF SameBoots
  <2>3. CASE pc' = "dispatch"
    BY <1>2, <2>3 DEF Executing
  <2> QED
    BY <1>8, <2>2, <2>3 DEF Begin
<1>9. CASE CapacityRefused
  <2>1. CASE pc' = "iterationEnd"
    BY <1>2, <2>1 DEF Executing
  <2>2. CASE pc' = "capacity"
    <3>1. x' = [Idle EXCEPT !.sol = x.sol, !.scope = x.scope, !.tries = x.tries + 1]
      BY <1>9 DEF CapacityRefused
    <3>2. SameBoots(x', Idle)
      BY <1>4, <3>1, TimedIdle
    <3> QED
      BY <1>3, <2>2, <3>2, TimedIdle DEF SameBoots
  <2> QED
    BY <1>9, <2>1, <2>2 DEF CapacityRefused
<1>10. CASE \/ IndexFails \/ PredictionError \/ AlreadyMeasured \/ CannotAfford \/ NoCapacity
            \/ SettleRaises \/ Settle \/ InvalidRecord \/ StoreDone
            \/ Executed \/ StopsRun \/ Interrupted \/ HarnessFailure \/ UnexpectedFailure
            \/ IterationEnd \/ LoopEnd \/ ClosePool \/ Exit
            \/ RescoreStored \/ RescoreNamed \/ RescoreDone \/ Launch \/ LaunchRescore \/ ChangeProtocol \/ Crash
  <2>1. pc' \notin Executing \cup {"claim", "capacity"}
    BY <1>10 DEF IndexFails, PredictionError, AlreadyMeasured, CannotAfford, NoCapacity,
         SettleRaises, Settle, InvalidRecord, StoreDone, Executed, StopsRun, Interrupted,
         HarnessFailure, UnexpectedFailure, IterationEnd, LoopEnd, ClosePool, Exit,
         RescoreStored, RescoreNamed, RescoreDone, Launch, LaunchRescore, ChangeProtocol, Crash,
         Ends, Fails, Goto, Executing
  <2> QED
    BY <1>2, <2>1
<1>11. CASE RescoreSolution
  <2>1. pc' \in {"rescoring", "rescoreStore"}
    BY <1>11 DEF RescoreSolution
  <2> QED
    BY <1>2, <2>1 DEF Executing
<1>12. CASE StoreNext
  BY <1>1, <1>12 DEF StoreNext
<1> QED
  BY <1>1, <1>5, <1>6, <1>7, <1>8, <1>9, <1>10, <1>11, <1>12 DEF Next, Run, Waits, Goes, ExecutionStep

-----------------------------------------------------------------------------
(* What an execution costs.                                                 *)

(* What a set of records costs.                                             *)
Costs(records) == SumFunction([r \in records |-> r.cost])

(* Records of one cost.                                                     *)
LEMMA CostsAlike ==
  ASSUME NEW S, IsFiniteSet(S), NEW c \in Int, \A r \in S : r.cost = c
  PROVE  Costs(S) = c * Cardinality(S) /\ Costs(S) \in Int
<1> DEFINE f == [r \in S |-> r.cost]
<1>1. f \in [S -> Int] /\ \A r \in S : f[r] = c
  OBVIOUS
<1> HIDE DEF f
<1>2. SumFunction(f) = c * Cardinality(S) /\ SumFunction(f) \in Int
  BY <1>1, SumConstant, SumType
<1> QED
  BY <1>2 DEF Costs, f

(* Records of two sets.                                                     *)
LEMMA CostsTogether ==
  ASSUME NEW S, NEW R, IsFiniteSet(S), IsFiniteSet(R), S \cap R = {},
         \A r \in S \cup R : r.cost \in Int
  PROVE  Costs(S \cup R) = Costs(S) + Costs(R)
<1> DEFINE f == [r \in S \cup R |-> r.cost]
           g == [r \in S |-> r.cost]
           h == [r \in R |-> r.cost]
<1>1. Joins(f, g, h, S, R)
  BY DEF Joins
<1> HIDE DEF f, g, h
<1>2. SumFunction(f) = SumFunction(g) + SumFunction(h)
  BY <1>1, SumUnion
<1> QED
  BY <1>2 DEF Costs, f, g, h

(* As many images as there are elements.                                    *)
LEMMA CountedBy ==
  ASSUME NEW S, IsFiniteSet(S), NEW T, NEW f \in [S -> T],
         \A a, b \in S : f[a] = f[b] => a = b, \A e \in T : \E a \in S : f[a] = e
  PROVE  IsFiniteSet(T) /\ Cardinality(T) = Cardinality(S)
<1>1. f \in Injection(S, T) /\ f \in Surjection(S, T)
  BY DEF Injection, IsInjective, Surjection
<1> QED
  BY <1>1, FS_Surjection

(* How many shares there may be.                                            *)
LEMMA MostSharesType ==
  MostShares \in Nat /\ MostShares >= 2 * Cardinality(Case) /\ MostShares >= BootAttempts + 2
<1> DEFINE s == {2 * Cardinality(Case), BootAttempts + 2}
<1>1. Cardinality(Case) \in Nat
  BY RunAssumption, FS_CardinalityType
<1>2. s \subseteq Nat /\ \E m \in s : \A k \in s : m >= k
  BY <1>1 DEF BootAttempts
<1>3. Max(s) \in s /\ \A k \in s : Max(s) >= k
  BY <1>2 DEF Max
<1> QED
  BY <1>2, <1>3 DEF MostShares

(* A share of what divides is exact.                                        *)
LEMMA ExactShare ==
  ASSUME NEW n \in 1..MostShares, NEW k \in Int
  PROVE  (Parts * k) \div n \in Int /\ ((Parts * k) \div n) * n = Parts * k
<1>1. PICK share \in Nat : Parts = share * n
  BY ShareAssumption
<1> DEFINE m == share * k
<1>2. m \in Int /\ n \in Nat /\ n > 0
  BY MostSharesType
<1>3. Parts * k = m * n
  BY <1>1, <1>2
<1> HIDE DEF m
<1>4. (m * n) \div n = m
  BY <1>2
<1> QED
  BY <1>2, <1>3, <1>4

-----------------------------------------------------------------------------
(* The records of one execution and their costs.                           *)

LEMMA TimesOf ==
  ASSUME NEW t, Timed(t)
  PROVE  /\ BootTime(t) \in Int /\ TaskTime(t) \in Int /\ ServingTime(t) \in Int
         /\ t.clock = BootTime(t) + TaskTime(t) + ServingTime(t)
<1>1. TaskTime(t) \in Int /\ ServingTime(t) \in Int
  BY DEF Timed, TaskTime, ServingTime, Span
<1> QED
  BY <1>1 DEF Timed, BootTime

(* A suite scores every case and retries it once at most.                  *)
LEMMA ScoredCount ==
  ASSUME NEW t, t.sol \in Solution, SuiteShape(t)
  PROVE  /\ IsFiniteSet(t.scored) /\ Cardinality(t.scored) \in 0..MostShares
         /\ Cardinality(t.scored) = 0 <=> t.scored = {}
<1> DEFINE f == [a \in t.scored |-> <<a.case, a.retry>>]
           T == Case \X {0, 1}
<1>1. IsFiniteSet(Case) /\ IsFiniteSet({0, 1}) /\ Cardinality({0, 1}) = 2
  <2>1. IsFiniteSet({0}) /\ Cardinality({0}) = 1
    BY ONLY FS_Singleton
  <2>2. IsFiniteSet({0} \cup {1}) /\ Cardinality({0} \cup {1}) = 2
    BY ONLY <2>1, FS_AddElement
  <2>3. {0, 1} = {0} \cup {1}
    OBVIOUS
  <2> QED
    BY <2>2, <2>3, RunAssumption
<1>2. IsFiniteSet(T) /\ Cardinality(T) = Cardinality(Case) * 2 /\ Cardinality(Case) \in Nat
  BY <1>1, FS_Product, FS_CardinalityType
<1>3. \A a \in t.scored : a.case \in Case /\ a.retry \in {0, 1}
  BY RunAssumption DEF SuiteShape, Covers
<1>4. f \in [t.scored -> T]
  BY <1>3
<1>5. \A a, b \in t.scored : f[a] = f[b] => a = b
  BY DEF SuiteShape, Covers
<1> HIDE DEF f, T
<1>6. f \in Injection(t.scored, T)
  BY <1>4, <1>5 DEF Injection, IsInjective
<1>7. IsFiniteSet(t.scored) /\ Cardinality(t.scored) <= Cardinality(T)
  BY <1>2, <1>6, FS_Injection
<1> QED
  BY <1>2, <1>7, MostSharesType, FS_CardinalityType, FS_EmptySet

Suites(t) == Attempts(t, 0) \cup Attempts(t, 1)

(* The attempts share the time of the suite.                               *)
LEMMA SuiteCosts ==
  ASSUME NEW t, t.sol \in Solution, Timed(t), SuiteShape(t)
  PROVE  /\ IsFiniteSet(Suites(t)) /\ \A r \in Suites(t) : r.cost \in Int
         /\ Costs(Suites(t)) = IF Cardinality(t.scored) = 0 THEN 0 ELSE Parts * TaskTime(t)
<1> DEFINE k == Cardinality(t.scored)
           share == PerAttempt(t, k)
           f == [a \in t.scored |-> AttemptOf(t, a)]
<1>1. IsFiniteSet(t.scored) /\ k \in 0..MostShares
  BY ScoredCount
<1>2. Suites(t) = {AttemptOf(t, a) : a \in t.scored}
  BY DEF Suites, Attempts, AttemptOf, SuiteShape, Covers
<1>3. \A a \in t.scored : AttemptOf(t, a).cost = share
  BY DEF AttemptOf, AttemptRecord
<1>4. \A a, b \in t.scored : AttemptOf(t, a) = AttemptOf(t, b) => a = b
  <2> SUFFICES ASSUME NEW a \in t.scored, NEW b \in t.scored, AttemptOf(t, a) = AttemptOf(t, b)
               PROVE  a = b
    OBVIOUS
  <2>1. a.case = b.case /\ a.retry = b.retry
    BY AttemptFields
  <2> QED
    BY <2>1 DEF SuiteShape, Covers
<1>5. f \in [t.scored -> Suites(t)] /\ \A e \in Suites(t) : \E a \in t.scored : f[a] = e
  BY <1>2
<1>6. \A a, b \in t.scored : f[a] = f[b] => a = b
  BY <1>4
<1> HIDE DEF f
<1>7. IsFiniteSet(Suites(t)) /\ Cardinality(Suites(t)) = k
  BY <1>1, <1>5, <1>6, CountedBy
<1>8. share \in Int /\ share * k = IF k = 0 THEN 0 ELSE Parts * TaskTime(t)
  <2>1. TaskTime(t) \in Int
    BY TimesOf
  <2>2. CASE k = 0
    BY <2>2 DEF PerAttempt
  <2>3. CASE k # 0
    <3>1. k \in 1..MostShares
      BY <1>1, <2>3, MostSharesType
    <3> HIDE DEF k
    <3> QED
      BY <2>1, <2>3, <3>1, ExactShare DEF PerAttempt
  <2> QED
    BY <2>2, <2>3
<1>9. \A r \in Suites(t) : r.cost = share
  BY <1>2, <1>3
<1> HIDE DEF share
<1>10. Costs(Suites(t)) = share * k
  BY <1>7, <1>8, <1>9, CostsAlike
<1> QED
  BY <1>7, <1>8, <1>9, <1>10 DEF k

(* A serving report carries the time of its benchmark.                     *)
LEMMA ServingCosts ==
  ASSUME NEW t, Timed(t)
  PROVE  /\ IsFiniteSet(ServingReports(t)) /\ \A r \in ServingReports(t) : r.cost \in Int
         /\ Costs(ServingReports(t)) = IF t.bench = "none" THEN 0 ELSE Parts * ServingTime(t)
<1> DEFINE c == Parts * ServingTime(t)
<1>1. c \in Int
  BY TimesOf, ShareAssumption
<1>2. CASE t.bench = "none"
  <2>1. ServingReports(t) = {}
    BY <1>2 DEF ServingReports
  <2>2. IsFiniteSet({}) /\ Cardinality({}) = 0
    BY FS_EmptySet
  <2>3. Costs({}) = 0 * Cardinality({})
    BY <2>2, CostsAlike
  <2> QED
    BY <1>2, <2>1, <2>2, <2>3
<1>3. CASE t.bench # "none"
  <2> DEFINE r == ServingRecord(t.sol, t.exec, t.bench, c)
  <2>1. ServingReports(t) = {r} /\ r.cost = c
    BY <1>3 DEF ServingReports, ServingRecord, ServingCost
  <2> HIDE DEF c, r
  <2>2. IsFiniteSet({r}) /\ Cardinality({r}) = 1
    BY FS_Singleton
  <2>3. Costs({r}) = c * 1
    BY <1>1, <2>1, <2>2, CostsAlike
  <2> QED
    BY <1>1, <1>3, <2>1, <2>2, <2>3 DEF c
<1> QED
  BY <1>2, <1>3

Boots(t) == FailedBoots(t) \cup LastBoot(t)

(* As many boot records as boot reports, if no two boots failed alike.      *)
LEMMA BootsCount ==
  ASSUME NEW t, Timed(t), ~TwinBoots(t)
  PROVE  IsFiniteSet(Boots(t)) /\ Cardinality(Boots(t)) = BootReports(t)
<1> DEFINE D == DOMAIN t.failed
           f == [i \in D |-> BootRecord(t.sol, t.exec, t.failed[i], BootShare(t))]
<1>1. D = 1..Len(t.failed) /\ Len(t.failed) \in Nat /\ \A i \in D : t.failed[i] \in Failure
  BY DEF Timed
<1>2. IsFiniteSet(D) /\ Cardinality(D) = Len(t.failed)
  <2> HIDE DEF D
  <2> QED
    BY <1>1, FS_Interval
<1>3. f \in [D -> FailedBoots(t)] /\ \A e \in FailedBoots(t) : \E i \in D : f[i] = e
  BY DEF FailedBoots
<1>4. ASSUME NEW i \in D, NEW j \in D, f[i] = f[j] PROVE i = j
  <2>1. t.failed[i].tag = t.failed[j].tag /\ t.failed[i].log = t.failed[j].log
    BY <1>4 DEF BootRecord
  <2>2. t.failed[i] = t.failed[j]
    BY <1>1, <2>1 DEF Failure
  <2> QED
    BY <2>2 DEF TwinBoots
<1> HIDE DEF f, D
<1>5. IsFiniteSet(FailedBoots(t)) /\ Cardinality(FailedBoots(t)) = Len(t.failed)
  BY <1>2, <1>3, <1>4, CountedBy
<1>6. \A r \in FailedBoots(t) : r.scope = "boot" /\ r.tag # "model"
  <2> SUFFICES ASSUME NEW i \in D
               PROVE  LET r == BootRecord(t.sol, t.exec, t.failed[i], BootShare(t))
                      IN  r.scope = "boot" /\ r.tag # "model"
    BY DEF FailedBoots, D
  <2> QED
    BY <1>1 DEF BootRecord, Failure
<1>7. CASE FinalReport(t)
  <2>1. ASSUME t.healthy /\ t.report
        PROVE  \E r : LastBoot(t) = {r} /\ r \notin FailedBoots(t)
    <3> DEFINE r == MemoryRecord(t.sol, t.exec, BootShare(t))
    <3>1. r.scope = "memory"
      BY DEF MemoryRecord
    <3>2. LastBoot(t) = {r}
      BY <2>1 DEF LastBoot
    <3> QED
      BY <1>6, <3>1, <3>2
  <2>2. ASSUME ~(t.healthy /\ t.report)
        PROVE  \E r : LastBoot(t) = {r} /\ r \notin FailedBoots(t)
    <3> DEFINE r == BootRecord(t.sol, t.exec, [tag |-> "model", log |-> t.logTail], BootShare(t))
    <3>1. r.tag = "model"
      BY DEF BootRecord
    <3>2. LastBoot(t) = {r}
      BY <1>7, <2>2 DEF LastBoot, FinalReport
    <3> QED
      BY <1>6, <3>1, <3>2
  <2>3. PICK r : LastBoot(t) = {r} /\ r \notin FailedBoots(t)
    BY <2>1, <2>2
  <2> QED
    BY <1>5, <1>7, <2>3, FS_AddElement DEF Boots, BootReports
<1>8. CASE ~FinalReport(t)
  <2>1. LastBoot(t) = {}
    BY <1>8 DEF FinalReport, LastBoot
  <2>2. Boots(t) = FailedBoots(t)
    BY <2>1 DEF Boots
  <2> QED
    BY <1>1, <1>5, <1>8, <2>2 DEF BootReports
<1> QED
  BY <1>7, <1>8

(* The boot reports share all the time that no other record carries.       *)
LEMMA BootCosts ==
  ASSUME NEW t, Timed(t), ~TwinBoots(t), Len(t.failed) <= BootAttempts + 1, BootReports(t) > 0
  PROVE  /\ IsFiniteSet(Boots(t)) /\ \A r \in Boots(t) : r.cost \in Int
         /\ Costs(Boots(t)) = Parts * BootTime(t)
                + (IF Cardinality(t.scored) = 0 THEN Parts * TaskTime(t) ELSE 0)
                + (IF t.bench = "none" THEN Parts * ServingTime(t) ELSE 0)
<1> DEFINE n == BootReports(t)
           share == BootShare(t)
           k == BootTime(t) + (IF Cardinality(t.scored) = 0 THEN TaskTime(t) ELSE 0)
                  + (IF t.bench = "none" THEN ServingTime(t) ELSE 0)
<1>1. BootTime(t) \in Int /\ TaskTime(t) \in Int /\ ServingTime(t) \in Int /\ Parts \in Int
  BY TimesOf, ShareAssumption
<1>2. k \in Int
  BY <1>1
<1>3. n \in 1..MostShares
  <2>1. Len(t.failed) \in Nat
    BY DEF Timed
  <2>2. n = Len(t.failed) \/ n = Len(t.failed) + 1
    <3>1. CASE FinalReport(t)
      BY <3>1 DEF BootReports
    <3>2. CASE ~FinalReport(t)
      BY <2>1, <3>2 DEF BootReports
    <3> QED
      BY <3>1, <3>2
  <2>3. MostShares \in Nat /\ MostShares >= 4 /\ Len(t.failed) <= 3
    BY MostSharesType DEF BootAttempts
  <2>4. n > 0
    OBVIOUS
  <2> HIDE DEF n
  <2> QED
    BY <2>1, <2>2, <2>3, <2>4
<1>4. /\ BootPool(t) = Parts * k
      /\ Parts * k = Parts * BootTime(t)
                + (IF Cardinality(t.scored) = 0 THEN Parts * TaskTime(t) ELSE 0)
                + (IF t.bench = "none" THEN Parts * ServingTime(t) ELSE 0)
  <2>1. \A a, b, c \in Int : /\ Parts * (a + b) = Parts * a + Parts * b
                             /\ Parts * (a + b + c) = Parts * a + Parts * b + Parts * c
                             /\ Parts * (a + 0) = Parts * a /\ Parts * (a + b + 0) = Parts * a + Parts * b
                             /\ Parts * (a + 0 + b) = Parts * a + Parts * b
                             /\ Parts * (a + 0 + 0) = Parts * a
    BY <1>1
  <2>2. Parts * BootTime(t) \in Int /\ Parts * TaskTime(t) \in Int /\ Parts * ServingTime(t) \in Int
    BY <1>1
  <2> QED
    BY <1>1, <2>1, <2>2 DEF BootPool, BootCost, ServingCost
<1> HIDE DEF k
<1>5. share \in Int /\ share * n = Parts * k
  <2>1. share = (Parts * k) \div n
    BY <1>3, <1>4 DEF BootShare
  <2> HIDE DEF share, n
  <2> QED
    BY <1>2, <1>3, <2>1, ExactShare
<1>6. \A r \in Boots(t) : r.cost = share
  BY DEF Boots, FailedBoots, LastBoot, BootRecord, MemoryRecord
<1>7. IsFiniteSet(Boots(t)) /\ Cardinality(Boots(t)) = n
  BY BootsCount
<1> HIDE DEF share, n
<1>8. Costs(Boots(t)) = share * n
  BY <1>5, <1>6, <1>7, CostsAlike
<1> QED
  BY <1>4, <1>5, <1>6, <1>7, <1>8

(* What an execution stores carries its whole time.                        *)
LEMMA AllCosts ==
  ASSUME NEW t, t.sol \in Solution, Timed(t), SuiteShape(t), ~TwinBoots(t),
         Len(t.failed) <= BootAttempts + 1, BootReports(t) > 0
  PROVE  Costs(MadeBy(t)) = Parts * t.clock
<1>1. MadeBy(t) = (Boots(t) \cup Suites(t)) \cup ServingReports(t)
  BY BatchesMade DEF Boots, Suites
<1>2. /\ \A r \in Boots(t) : r.scope \in {"boot", "memory"}
      /\ \A r \in Suites(t) : r.scope = "task_outcome"
      /\ \A r \in ServingReports(t) : r.scope = "serving_performance"
  BY BootsMade, AttemptsMade, AttemptFields, ServingMade DEF Boots, Suites, Attempt, ServingReport
<1>3. /\ IsFiniteSet(Boots(t)) /\ IsFiniteSet(Suites(t)) /\ IsFiniteSet(ServingReports(t))
      /\ \A r \in Boots(t) \cup Suites(t) \cup ServingReports(t) : r.cost \in Int
  BY BootCosts, SuiteCosts, ServingCosts
<1>4. IsFiniteSet(Boots(t) \cup Suites(t))
  BY <1>3, FS_Union
<1>5. Costs(Boots(t) \cup Suites(t)) = Costs(Boots(t)) + Costs(Suites(t))
  <2>1. Boots(t) \cap Suites(t) = {}
    BY <1>2
  <2> QED
    BY <1>3, <2>1, CostsTogether
<1>6. Costs(MadeBy(t)) = Costs(Boots(t) \cup Suites(t)) + Costs(ServingReports(t))
  <2>1. (Boots(t) \cup Suites(t)) \cap ServingReports(t) = {}
    BY <1>2
  <2> QED
    BY <1>1, <1>3, <1>4, <2>1, CostsTogether
<1> DEFINE p == Parts * BootTime(t)
           q == Parts * TaskTime(t)
           s == Parts * ServingTime(t)
<1>7. p \in Int /\ q \in Int /\ s \in Int /\ Parts * t.clock = p + q + s
  BY TimesOf, ShareAssumption
<1>8. /\ Costs(Boots(t)) = p + (IF Cardinality(t.scored) = 0 THEN q ELSE 0)
                             + (IF t.bench = "none" THEN s ELSE 0)
      /\ Costs(Suites(t)) = IF Cardinality(t.scored) = 0 THEN 0 ELSE q
      /\ Costs(ServingReports(t)) = IF t.bench = "none" THEN 0 ELSE s
  BY BootCosts, SuiteCosts, ServingCosts
<1> HIDE DEF p, q, s
<1> QED
  BY <1>5, <1>6, <1>7, <1>8

(* The records of an execution that settles carry its whole time: boots     *)
(* that failed, phases that an error cut short and the teardown included   *)
(* (attribute_costs, _store_outcome).                                      *)
THEOREM EveryStepIsPaidFor == Spec => []CostsAddUp
<1>1. Init => TimeInv
  BY DEF Init, TimeInv, Executing
<1>2. IInv /\ TimeInv /\ [Next]_vars => TimeInv'
  BY TimeNext DEF IInv
<1>3. IInv /\ TimeInv => CostsAddUp
  <2> SUFFICES ASSUME IInv, TimeInv, pc = "settle", ~TwinBoots(x), BootReports(x) > 0
               PROVE  Costs(MadeBy(x)) = Parts * x.clock
    BY DEF CostsAddUp, Costs, MadeBy
  <2>1. Timed(x) /\ Len(x.failed) <= BootAttempts + 1
    BY DEF TimeInv, Executing
  <2>2. x.sol \in Solution /\ SuiteShape(x)
    BY DEF IInv, TypeInv, PhaseInv
  <2> QED
    BY <2>1, <2>2, AllCosts
<1> QED
  BY <1>1, <1>2, <1>3, Invariant, PTL DEF Spec

-----------------------------------------------------------------------------
(* The table *)

LEMMA EveryRecordIdentified ==
  ASSUME IInv, NEW r \in store
  PROVE  Identified(r.sol) /\ r.sol \in Solution /\ RowOf[r.sol] \in Range(RowOf)
<1>1. PICK p \in 1..protocol : <<r.sol, p>> \in manifest
  BY DEF IInv, IdentityInv, Known
<1>2. p \in 1..MaxProtocol
  BY RunAssumption DEF IInv, TypeInv
<1>3. r.sol \in Solution
  BY DEF IInv, TypeInv, RecordTyped, Known
<1> QED
  BY <1>1, <1>2, <1>3, FindingsAssumption DEF Identified, Range

(* A boot of the solution is stored before its attempts and its serving     *)
(* report, so no report and no attempt is without a row.                   *)
LEMMA EveryRecordHasRow ==
  ASSUME IInv, NEW r \in Reports \cup AllAttempts PROVE RowOf[r.sol] \in Rows
<1> DEFINE k == RowOf[r.sol]
<1>1. r \in store /\ r.scope \in {"boot", "memory", "serving_performance", "task_outcome"}
  BY DEF Reports, AllAttempts
<1>2. PICK m \in store : m.scope \in {"boot", "memory"} /\ m.sol = r.sol
  <2>1. CASE r.scope \in {"boot", "memory"}
    BY <1>1, <2>1
  <2>2. CASE Attempt(r) \/ ServingReport(r)
    BY <1>1, <2>2 DEF IInv, StoreInv, HasMemory, Memory
  <2> QED
    BY <1>1, <2>1, <2>2 DEF Attempt, ServingReport
<1>3. m \in RowReports(k)
  BY <1>2, EveryRecordIdentified DEF RowReports, Reports
<1>4. HasRow(k)
  BY <1>2, <1>3 DEF HasRow, Healthy, Failed
<1> QED
  BY <1>1, <1>4, EveryRecordIdentified DEF Rows

(* No record is dropped from the table, whatever write a run died before.   *)
THEOREM NoRecordDropped == Spec => []EveryRecordShown
<1>1. ASSUME IInv, NEW r \in Reports \cup AllAttempts
      PROVE  r \in RowRecords(RowOf[r.sol]) /\ RowOf[r.sol] \in Rows
  <2> DEFINE k == RowOf[r.sol]
  <2>1. r \in store
    BY DEF Reports, AllAttempts
  <2>2. Identified(r.sol)
    BY <1>1, <2>1, EveryRecordIdentified
  <2>3. k \in Rows
    BY <1>1, EveryRecordHasRow
  <2>4. CASE r \in Reports
    BY <2>2, <2>3, <2>4 DEF RowRecords, RowReports
  <2>5. CASE r \in AllAttempts
    <3>1. PICK m \in store : Memory(m) /\ m.sol = r.sol
      BY <1>1, <2>1, <2>5 DEF IInv, StoreInv, HasMemory, AllAttempts, Attempt
    <3>2. m \in RowReports(k)
      BY <2>2, <3>1 DEF RowReports, Reports, Memory
    <3> QED
      BY <2>2, <2>3, <2>5, <3>1, <3>2 DEF RowRecords
  <2> QED
    BY <2>4, <2>5
<1>2. ASSUME IInv PROVE Reports \cup AllAttempts \subseteq UNION {RowRecords(k) : k \in Rows}
  BY <1>1, <1>2
<1>3. IInv => EveryRecordShown
  BY <1>2 DEF EveryRecordShown
<1> QED
  BY <1>3, Invariant, PTL

-----------------------------------------------------------------------------
(* The verdict *)

(* What the attempts of one execution are like.                            *)
OfSuite(attempts, s) ==
  /\ \A a \in attempts :
       a.case \in SuiteOf[s] /\ a.retry \in {0, 1} /\ Fits(a.accepted, a.case, s)
  /\ \A a, b \in attempts :
       a.case = b.case /\ a.retry = 1 /\ b.retry = 0 => b.accepted = "failed"

(* With only failed requests tried again, the cases accepted, and those     *)
(* skipped, at any attempt are those accepted or skipped at the final one.  *)
LEMMA VerdictAtLast ==
  ASSUME NEW s, NEW attempts, OfSuite(attempts, s)
  PROVE  /\ AcceptedCases(FinalAttempts(attempts)) = AcceptedCases(attempts)
         /\ SkippedCases(FinalAttempts(attempts)) = SkippedCases(attempts)
<1>1. ASSUME NEW a \in attempts, a.accepted # "failed" PROVE a \in FinalAttempts(attempts)
  <2>1. ASSUME NEW b \in attempts, b.case = a.case PROVE b.retry <= a.retry
    <3>1. ~(b.retry = 1 /\ a.retry = 0)
      BY <1>1, <2>1 DEF OfSuite
    <3>2. a.retry \in {0, 1} /\ b.retry \in {0, 1}
      BY DEF OfSuite
    <3> QED
      BY <3>1, <3>2
  <2> QED
    BY <2>1 DEF FinalAttempts
<1>2. AcceptedCases(FinalAttempts(attempts)) = AcceptedCases(attempts)
  BY <1>1 DEF AcceptedCases, FinalAttempts
<1>3. SkippedCases(FinalAttempts(attempts)) = SkippedCases(attempts)
  BY <1>1 DEF SkippedCases, FinalAttempts
<1> QED
  BY <1>2, <1>3

(* The verdict in numbers: accepted cases are among those that apply, and   *)
(* those that apply are the suite less the skipped.                        *)
LEMMA VerdictCounts ==
  ASSUME NEW s \in Solution, NEW attempts, OfSuite(attempts, s)
  PROVE  LET accepted == AcceptedCases(attempts)
             applies == SuiteOf[s] \ SkippedCases(attempts)
         IN  /\ accepted \subseteq applies /\ IsFiniteSet(applies)
             /\ Cardinality(accepted) \in Nat /\ Cardinality(applies) \in Nat
             /\ Cardinality(applies) = Cardinality(SuiteOf[s]) - Cardinality(SkippedCases(attempts))
             /\ TaskPasses(s, attempts) <=> Reaches(Cardinality(accepted), Cardinality(applies))
<1> DEFINE accepted == AcceptedCases(attempts)
           skipped == SkippedCases(attempts)
           applies == SuiteOf[s] \ skipped
<1>1. IsFiniteSet(SuiteOf[s])
  BY RunAssumption, FS_Subset
<1>2. skipped \subseteq SuiteOf[s]
  BY DEF OfSuite, SkippedCases
<1>3. accepted \subseteq SuiteOf[s]
  BY DEF OfSuite, AcceptedCases
<1>4. accepted \cap skipped = {}
  <2>1. accepted \cap Unserved[s] = {}
    BY DEF OfSuite, AcceptedCases, Fits
  <2>2. skipped \subseteq Unserved[s]
    BY DEF OfSuite, SkippedCases, Fits
  <2> QED
    BY <2>1, <2>2
<1>5. TaskPasses(s, attempts) <=> Reaches(Cardinality(accepted \cap applies), Cardinality(applies))
  BY VerdictAtLast DEF TaskPasses
<1> HIDE DEF accepted, skipped
<1>6. accepted \subseteq applies /\ accepted \cap applies = accepted
  BY <1>3, <1>4
<1>7. IsFiniteSet(applies) /\ Cardinality(applies) = Cardinality(SuiteOf[s]) - Cardinality(skipped)
  <2>1. IsFiniteSet(applies)
    BY <1>1, FS_Subset
  <2>2. IsFiniteSet(skipped)
    BY <1>1, <1>2, FS_Subset
  <2>3. SuiteOf[s] \cap skipped = skipped
    BY <1>2
  <2>4. Cardinality(SuiteOf[s] \ skipped) = Cardinality(SuiteOf[s]) - Cardinality(SuiteOf[s] \cap skipped)
    BY <1>1, FS_Difference
  <2> QED
    BY <2>1, <2>3, <2>4
<1>8. Cardinality(accepted) \in Nat /\ Cardinality(applies) \in Nat
  <2>1. IsFiniteSet(accepted)
    BY <1>1, <1>3, FS_Subset
  <2> QED
    BY <1>7, <2>1, FS_CardinalityType
<1>9. TaskPasses(s, attempts) <=> Reaches(Cardinality(accepted), Cardinality(applies))
  BY <1>5, <1>6
<1> HIDE DEF applies
<1>10. /\ accepted \subseteq applies /\ IsFiniteSet(applies)
       /\ Cardinality(accepted) \in Nat /\ Cardinality(applies) \in Nat
       /\ Cardinality(applies) = Cardinality(SuiteOf[s]) - Cardinality(skipped)
       /\ TaskPasses(s, attempts) <=> Reaches(Cardinality(accepted), Cardinality(applies))
  BY <1>6, <1>7, <1>8, <1>9
<1> QED
  BY <1>10 DEF accepted, skipped, applies

LEMMA AttemptsOfOneExecution ==
  ASSUME IInv, NEW s, NEW p, OneExecution(AttemptsUnder(s, p))
  PROVE  OfSuite(AttemptsUnder(s, p), s)
<1> DEFINE A == AttemptsUnder(s, p)
<1>1. \A a \in A : a \in Known /\ Attempt(a) /\ a.sol = s
  BY DEF AttemptsUnder, RecordsOf, Attempt, Known
<1>2. \A a \in A : a.case \in SuiteOf[s] /\ a.retry \in {0, 1} /\ Fits(a.accepted, a.case, s)
  BY <1>1 DEF IInv, TypeInv, RecordTyped
<1>3. \A a, b \in A : a.exec = b.exec
  BY DEF OneExecution
<1> HIDE DEF A
<1>4. \A a, b \in A : a.case = b.case /\ a.retry = 1 /\ b.retry = 0 => b.accepted = "failed"
  BY <1>1, <1>3 DEF IInv, VerdictInv
<1>5. OfSuite(A, s)
  BY <1>2, <1>4 DEF OfSuite
<1> QED
  BY <1>5 DEF A

(* The counts of a row, of cases, of those accepted and of those skipped,   *)
(* and the verdict beside them agree: for any suites, any checks a plan     *)
(* does not serve and any floor.                                           *)
THEOREM CountAgreesWithVerdict == Spec => []RowAgreesWithVerdict
<1>1. ASSUME IInv, NEW s \in Solution, NEW p, OneExecution(AttemptsUnder(s, p))
      PROVE  LET shown == TaskRow(s, p)
             IN  shown.passed <=> Reaches(shown.accepted, shown.cases - shown.skipped)
  BY <1>1, AttemptsOfOneExecution, VerdictCounts DEF TaskRow
<1>2. ASSUME IInv, NEW k, NEW r \in Shown(k) PROVE r.sol \in Solution
  BY <1>2, EveryRecordIdentified DEF Shown, Healthy, Failed, RowReports, Reports
<1>3. IInv => RowAgreesWithVerdict
  BY <1>1, <1>2 DEF RowAgreesWithVerdict
<1> QED
  BY <1>3, Invariant, PTL

-----------------------------------------------------------------------------
(* Qualification *)

(* More attempts, with none judged differently, never lose what was reached. *)
LEMMA PassesStill ==
  ASSUME NEW s \in Solution, NEW A, NEW B, A \subseteq B, OfSuite(B, s), QualityFloor > 0,
         TaskPasses(s, A)
  PROVE  TaskPasses(s, B)
<1>1. OfSuite(A, s)
  BY DEF OfSuite
<1> DEFINE m == Cardinality(AcceptedCases(A))
           n == Cardinality(AcceptedCases(B))
           of == Cardinality(SuiteOf[s] \ SkippedCases(A))
           ofNow == Cardinality(SuiteOf[s] \ SkippedCases(B))
<1>2. AcceptedCases(A) \subseteq AcceptedCases(B)
  BY DEF AcceptedCases
<1>3. SuiteOf[s] \ SkippedCases(B) \subseteq SuiteOf[s] \ SkippedCases(A)
  BY DEF SkippedCases
<1>4. /\ IsFiniteSet(SuiteOf[s] \ SkippedCases(A)) /\ IsFiniteSet(SuiteOf[s] \ SkippedCases(B))
      /\ AcceptedCases(B) \subseteq SuiteOf[s] \ SkippedCases(B)
      /\ m \in Nat /\ n \in Nat /\ of \in Nat /\ ofNow \in Nat
      /\ Reaches(m, of) /\ (Reaches(n, ofNow) => TaskPasses(s, B))
  BY <1>1, VerdictCounts
<1>5. IsFiniteSet(AcceptedCases(B)) /\ n <= ofNow
  BY <1>4, FS_Subset
<1>6. m <= n
  BY <1>2, <1>5, FS_Subset
<1>7. ofNow <= of
  BY <1>3, <1>4, FS_Subset
<1> HIDE DEF m, n, of, ofNow
<1>8. QualityFloor \in 1..100
  BY FindingsAssumption
<1>9. QualityFloor * ofNow <= QualityFloor * of
  BY <1>4, <1>7, <1>8
<1>10. m > 0
  <2>1. QualityFloor * of \in Int /\ QualityFloor * of > 0
    BY <1>4, <1>8 DEF Reaches
  <2> QED
    BY <1>4, <2>1 DEF Reaches
<1>11. Reaches(n, ofNow)
  <2>1. 100 * n >= QualityFloor * ofNow
    <3>1. QualityFloor * of \in Int /\ QualityFloor * ofNow \in Int
      BY <1>4, <1>8
    <3>2. 100 * m >= QualityFloor * of
      BY <1>4 DEF Reaches
    <3> QED
      BY <1>4, <1>6, <1>9, <3>1, <3>2
  <2> QED
    BY <1>4, <1>5, <1>6, <1>10, <2>1 DEF Reaches
<1> QED
  BY <1>4, <1>11

(* A record more never takes back a tier: an accepted case stays accepted,  *)
(* fewer may apply but never none, and without repeat there is no second    *)
(* serving report to disagree.                                             *)
THEOREM EvidenceOnlyAdvances == Spec => QualificationNeverFallsBack
<1>1. ASSUME IInv, IInv', [Next]_vars, NEW s \in Solution, protocol' = protocol, ~repeated',
             QualityFloor > 0, OneExecution(AttemptsUnder(s, protocol))'
      PROVE  Tiers(s) \subseteq Tiers(s)'
  <2> DEFINE A == AttemptsUnder(s, protocol)
             B == AttemptsUnder(s, protocol)'
             S == RecordsOf(s, "serving_performance")
             T == RecordsOf(s, "serving_performance")'
  <2>1. store \subseteq store'
    BY <1>1, StoreOnlyGrows DEF IInv
  <2>2. A \subseteq B /\ S \subseteq T
    BY <1>1, <2>1 DEF AttemptsUnder, RecordsOf
  <2>3. OfSuite(B, s)
    <3>1. \A a \in B : a \in Known' /\ Attempt(a) /\ a.sol = s
      BY DEF AttemptsUnder, RecordsOf, Attempt, Known
    <3>2. \A a \in B : a.case \in SuiteOf[s] /\ a.retry \in {0, 1} /\ Fits(a.accepted, a.case, s)
      BY <1>1, <3>1 DEF IInv, TypeInv, RecordTyped, Attempt, Fits
    <3>3. \A a, b \in B : a.exec = b.exec
      BY <1>1 DEF OneExecution
    <3> HIDE DEF B
    <3>4. \A a, b \in B : a.case = b.case /\ a.retry = 1 /\ b.retry = 0 => b.accepted = "failed"
      BY <1>1, <3>1, <3>3 DEF IInv, VerdictInv, Attempt
    <3> QED
      BY <3>2, <3>4 DEF OfSuite
  <2>5. TaskPasses(s, A) => TaskPasses(s, B)
    <3> HIDE DEF A, B
    <3> QED
      BY <1>1, <2>2, <2>3, PassesStill
  <2>6. S # {} => T = S
    <3>1. \A a, b \in T : a = b
      BY <1>1 DEF IInv, MissingInv, RecordsOf, ServingReport, Known
    <3> QED
      BY <2>2, <3>1
  <2> DEFINE passed == A # {} /\ TaskPasses(s, A)
             passedNow == B # {} /\ TaskPasses(s, B)
             verdicts == {r.verdict : r \in S}
             verdictsNow == {r.verdict : r \in T}
             served == passed /\ verdicts # {} /\ verdicts \subseteq {"pass"}
             servedNow == passedNow /\ verdictsNow # {} /\ verdictsNow \subseteq {"pass"}
  <2>7. passed => passedNow
    BY <2>2, <2>5
  <2>8. served => servedNow
    <3>1. verdicts # {} => verdictsNow = verdicts
      BY <2>6
    <3> QED
      BY <2>7, <3>1
  <2>9. /\ Tiers(s) = {"identity_resolved"} \cup (IF passed THEN {"task_evaluated"} ELSE {})
                        \cup (IF served THEN {"serving_verified"} ELSE {})
        /\ Tiers(s)' = {"identity_resolved"} \cup (IF passedNow THEN {"task_evaluated"} ELSE {})
                        \cup (IF servedNow THEN {"serving_verified"} ELSE {})
    BY DEF Tiers, ServingVerdicts, TaskPasses, FinalAttempts, AcceptedCases, SkippedCases, Reaches
  <2> HIDE DEF passed, passedNow, served, servedNow
  <2> QED
    BY <2>7, <2>8, <2>9
<1>2. ASSUME IInv' PROVE \A s \in {r.sol : r \in store' \ store} : s \in Solution
  BY <1>2 DEF IInv, TypeInv, RecordTyped, Known
<1>3. IInv /\ IInv' /\ [Next]_vars =>
        [\A s \in {r.sol : r \in store' \ store} :
           /\ protocol' = protocol /\ ~repeated' /\ QualityFloor > 0
           /\ OneExecution(AttemptsUnder(s, protocol))'
           => Tiers(s) \subseteq Tiers(s)']_vars
  BY <1>1, <1>2
<1> QED
  BY <1>3, Invariant, PTL DEF Spec, QualificationNeverFallsBack
=============================================================================
