------------------------ MODULE CohortExecutionProofs ------------------------
(***************************************************************************)
(* Proofs about CohortExecution, for any candidates, executions, pods,     *)
(* estimates, number of starts and bounds.  The inductive invariant is     *)
(* IInv: the types, where the run's pods are at each step (CustodyInv),    *)
(* which holds pay for them (HoldInv), which labels are open at all        *)
(* (OpenInv), and which abandoned starts are still to be charged           *)
(* (ChargeInv).                                                            *)
(***************************************************************************)
EXTENDS CohortExecution, TLAPS

(* The steps at which execute_solution works on a pod.                     *)
AtPod == {"starting", "annotate", "measure", "keep", "keepAnnotate"}

(* The steps between the opening of a candidate's hold and its settle.     *)
InCandidate == AtPod \cup {"acquire", "switchSettle", "provision", "teardown", "charge"}

(* The steps at which a slot may hold a parked pod.                        *)
MayPark == {"loop", "acquire", "charge", "record", "recordAnnotate", "refused", "iterationEnd",
            "closing", "poolClose"}

(* The loop has ended; nothing is rented any more.                         *)
InClosing ==
  \/ pc \in {"closing", "poolClose", "poolSettle", "exit"}
  \/ pc \in {"record", "recordAnnotate"} /\ after \in {"closing", "poolClose", "exit"}

(* Where the pods are.                                                     *)
CustodyInv ==
  /\ unlisted \subseteq guard /\ \A p \in guard : pods[p] # "fresh"
  /\ target # NoPod => target \in guard \ unlisted /\ pc \in AtPod \cup {"teardown"}
  /\ pc \in AtPod => target # NoPod /\ target \in Billing
  /\ slot # NoPod => slot \in guard \ unlisted /\ slot \in Billing /\ pc \in MayPark
  /\ pc \in {"down", "replay"} => guard = {}
  /\ ~stopped \/ ~InClosing => guard = ({target, slot} \ {NoPod}) \cup unlisted
  /\ stopped =>
       InClosing \/ pc = "iterationEnd"
         \/ (pc \in {"record", "recordAnnotate"} /\ after = "iterationEnd")
  /\ pc \in {"record", "recordAnnotate"} =>
       after # "loop" /\ (after = "exit" => slot = NoPod)
  /\ OneLivePod
  /\ pc \in {"switchSettle", "poolSettle"} => closing \in Pod /\ closing \notin guard \ unlisted
  /\ PodAccounted

(* Which holds are open.                                                   *)
HoldInv ==
  /\ pc \in InCandidate => sp \in Solution /\ IsOpen(RunLabel(sp))
  /\ slot # NoPod => IsOpen(IdleLabel(slot)) /\ holds[IdleLabel(slot)].pod = slot
  /\ pc = "keepAnnotate" => IsOpen(IdleLabel(target))
  /\ HeldWhileRented

(* The labels that are open while the run goes on.                         *)
Due(l) ==
  \/ pc \in InCandidate /\ l = RunLabel(sp)
  \/ slot # NoPod /\ l = IdleLabel(slot)
  \/ pc = "keepAnnotate" /\ l = IdleLabel(target)
  \/ pc = "switchSettle" /\ l = IdleLabel(closing)

OpenInv ==
  /\ ~stopped /\ ~InClosing /\ pc \notin {"down", "replay"} =>
       \A l \in Label : IsOpen(l) <=> Due(l)
  /\ ~stopped /\ ~InClosing /\ pc \in {"record", "recordAnnotate"} => leaks = {}
  /\ leaked # NoPod => error = "stop" /\ pc = "charge"

(* Which abandoned starts are charged.                                     *)
ChargeInv ==
  /\ \A p \in Pod : pods[p] = "fresh" =>
       paid[p] = 0 /\ \A start \in starts \cup unspent : start.pod # p
  /\ \A a, b \in starts : a.pod = b.pod => a = b
  /\ \A a, b \in unspent : a.pod = b.pod => a = b
  /\ \A start \in unspent : paid[start.pod] = 0
  /\ unspent # {} => pc = "charge"
  /\ pc \in {"acquire", "switchSettle", "provision", "starting"} => ~reused
  /\ pc \in AtPod \cup {"provision", "teardown"} /\ ~reused =>
       \A start \in starts : paid[start.pod] = 0
  /\ pc = "starting" => paid[target] = 0 /\ \A start \in starts : start.pod # target
  /\ AbandonedChargedOnce

IInv == TypeOK /\ CustodyInv /\ HoldInv /\ OpenInv /\ ChargeInv

-----------------------------------------------------------------------------
(* The account stays well typed under each of its operations.              *)
LEMMA HoldKeepsTypes ==
  ASSUME BudgetTypeOK, NEW l, NEW n \in Nat, NEW p \in Pod \cup {NoPod},
         OpenHold(l, n) \/ OpenEndedHold(l, n) \/ AnnotateHold(l, p)
  PROVE  BudgetTypeOK'
<1>1. PICK h \in HoldRecord : h.open /\ (l \in Label => holds' = [holds EXCEPT ![l] = h])
  <2>1. CASE AnnotateHold(l, p)
    <3>1. CASE l \in Label
      <4>1. holds[l].estimate \in Nat
        BY <3>1 DEF BudgetTypeOK, HoldRecord
      <4> DEFINE h == [open |-> TRUE, estimate |-> holds[l].estimate, pod |-> p]
      <4>2. h \in HoldRecord /\ h.open
        BY <4>1 DEF HoldRecord
      <4>3. holds' = [holds EXCEPT ![l] = h]
        BY <2>1 DEF AnnotateHold
      <4> HIDE DEF h
      <4> QED
        BY <4>2, <4>3
    <3>2. CASE l \notin Label
      <4>1. [open |-> TRUE, estimate |-> 0, pod |-> NoPod] \in HoldRecord
        BY DEF HoldRecord
      <4> QED
        BY <3>2, <4>1
    <3> QED
      BY <3>1, <3>2
  <2>2. CASE OpenHold(l, n) \/ OpenEndedHold(l, n)
    <3> DEFINE h == [open |-> TRUE, estimate |-> n, pod |-> NoPod]
    <3>1. h \in HoldRecord /\ h.open
      BY DEF HoldRecord
    <3> QED
      BY <2>2, <3>1 DEF OpenHold, OpenEndedHold
  <2> QED
    BY <2>1, <2>2
<1>2. spent' = spent /\ overran' = overran
  BY DEF OpenHold, OpenEndedHold, AnnotateHold
<1>3. CASE l \in Label
  BY <1>1, <1>2, <1>3 DEF BudgetTypeOK, IsOpen
<1>4. CASE l \notin Label
  <2>1. holds' = holds
    BY <1>4 DEF BudgetTypeOK, OpenHold, OpenEndedHold, AnnotateHold
  <2> QED
    BY <1>2, <2>1 DEF BudgetTypeOK, IsOpen
<1> QED
  BY <1>3, <1>4

LEMMA SettleKeepsTypes ==
  ASSUME BudgetTypeOK, NEW l, NEW n \in Nat, Settle(l, n) \/ ReplaySettle(l, n)
  PROVE  BudgetTypeOK'
<1>1. spent' \in Nat
  BY DEF BudgetTypeOK, Settle, ReplaySettle
<1>2. overran' \in BOOLEAN
  BY Zenon DEF BudgetTypeOK, Settle, ReplaySettle
<1>3. NoHold \in HoldRecord /\ ~NoHold.open
  BY DEF NoHold, HoldRecord
<1>4. CASE l \in Label
  BY <1>1, <1>2, <1>3, <1>4 DEF BudgetTypeOK, Settle, ReplaySettle, IsOpen
<1>5. CASE l \notin Label
  <2>1. holds' = holds
    BY <1>5 DEF BudgetTypeOK, Settle, ReplaySettle
  <2> QED
    BY <1>1, <1>2, <2>1 DEF BudgetTypeOK, IsOpen
<1> QED
  BY <1>4, <1>5

LEMMA UnchangedKeepsTypes ==
  ASSUME BudgetTypeOK, UNCHANGED budgetVars
  PROVE  BudgetTypeOK'
  BY DEF BudgetTypeOK, budgetVars, IsOpen

-----------------------------------------------------------------------------
LEMMA InitInv == Init => IInv
<1> SUFFICES ASSUME Init PROVE IInv
  OBVIOUS
<1>1. BudgetTypeOK
  BY DEF Init, BudgetInit, BudgetTypeOK, HoldRecord, NoHold, IsOpen
<1>2. TypeOK
  BY <1>1 DEF Init, TypeOK, ProcessTypeOK, Steps
<1>3. CustodyInv
  BY DEF Init, CustodyInv, Billing, PodAccounted, OneLivePod, AtPod, MayPark, InClosing
<1>4. HoldInv /\ OpenInv
  BY DEF Init, BudgetInit, HoldInv, OpenInv, InCandidate, AtPod, HeldWhileRented
<1>5. ChargeInv
  BY DEF Init, ChargeInv, AtPod, AbandonedChargedOnce
<1> QED
  BY <1>2, <1>3, <1>4, <1>5 DEF IInv

(* Types are kept by every action.                                         *)
LEMMA TypeNext == ASSUME IInv, [Next]_vars PROVE TypeOK'
<1> USE NoPodAssumption, SentinelAssumption, PlanAssumption
<1> USE DEF IInv, TypeOK, ProcessTypeOK, Steps, providerVars, loopVars, solutionVars, poolVars, historyVars, boundVars
<1>1. CASE Launch
  <2>1. BudgetTypeOK'
    BY <1>1, UnchangedKeepsTypes DEF Launch
  <2>2. ProcessTypeOK'
    BY <1>1 DEF Launch, Billing
  <2> QED
    BY <2>1, <2>2
<1>2. CASE ReplayDone
  BY <1>2, UnchangedKeepsTypes DEF ReplayDone
<1>3. CASE Exit
  <2>1. BudgetTypeOK'
    BY <1>3 DEF Exit, ForgetProcess, BudgetTypeOK, IsOpen
  <2>2. ProcessTypeOK'
    BY <1>3 DEF Exit, ForgetProcess
  <2> QED
    BY <2>1, <2>2
<1>4. ASSUME NEW l \in Label, ReplayOpenHold(l) PROVE TypeOK'
  <2>1. BudgetTypeOK'
    BY <1>4, SettleKeepsTypes DEF ReplayOpenHold, BudgetTypeOK, HoldRecord
  <2>2. reused' \in BOOLEAN /\ stopped' \in BOOLEAN /\ estimated' \in BOOLEAN
    BY <1>4 DEF ReplayOpenHold
  <2>3. unspent' \in SUBSET StartReport
    BY <1>4 DEF ReplayOpenHold
  <2>4. ProcessTypeOK'
    BY <1>4, <2>2, <2>3 DEF ReplayOpenHold
  <2> QED
    BY <2>1, <2>4
<1>5. ASSUME NEW s \in Solution, StartSolution(s) PROVE TypeOK'
  <2>1. BudgetTypeOK'
    BY <1>5, HoldKeepsTypes DEF StartSolution
  <2>2. reused' \in BOOLEAN /\ stopped' \in BOOLEAN /\ estimated' \in BOOLEAN
    BY <1>5 DEF StartSolution
  <2>3. unspent' \in SUBSET StartReport
    BY <1>5 DEF StartSolution
  <2>4. ProcessTypeOK'
    BY <1>5, <2>2, <2>3 DEF StartSolution
  <2> QED
    BY <2>1, <2>4
<1>6. CASE AcquireParked
  <2>1. BudgetTypeOK'
    BY <1>6, SettleKeepsTypes DEF AcquireParked
  <2>2. reused' \in BOOLEAN /\ stopped' \in BOOLEAN /\ estimated' \in BOOLEAN
    BY <1>6 DEF AcquireParked, StopOverspent
  <2>3. unspent' \in SUBSET StartReport
    BY <1>6 DEF AcquireParked, StopOverspent
  <2>4. ProcessTypeOK'
    BY <1>6, <2>2, <2>3 DEF AcquireParked, StopOverspent
  <2> QED
    BY <2>1, <2>4
<1>7. CASE AcquireClosesOther
  BY <1>7, UnchangedKeepsTypes DEF AcquireClosesOther, CloseSlot, Terminated, NotTerminated, NotRecorded
<1>8. CASE AcquireAfterClose
  <2>1. BudgetTypeOK'
    BY <1>8, SettleKeepsTypes DEF AcquireAfterClose
  <2>2. reused' \in BOOLEAN /\ stopped' \in BOOLEAN /\ estimated' \in BOOLEAN
    BY <1>8 DEF AcquireAfterClose, StopOverspent
  <2>3. unspent' \in SUBSET StartReport
    BY <1>8 DEF AcquireAfterClose, StopOverspent
  <2>4. ProcessTypeOK'
    BY <1>8, <2>2, <2>3 DEF AcquireAfterClose, StopOverspent
  <2> QED
    BY <2>1, <2>4
<1>9. CASE AcquireNew
  BY <1>9, UnchangedKeepsTypes DEF AcquireNew
<1>10. ASSUME NEW p \in Pod, CreatePod(p) PROVE TypeOK'
  BY <1>10, UnchangedKeepsTypes DEF CreatePod
<1>11. ASSUME NEW p \in Pod, CreateAnswerLost(p) PROVE TypeOK'
  BY <1>11, UnchangedKeepsTypes DEF CreateAnswerLost
<1>12. CASE CreateFails
  BY <1>12, UnchangedKeepsTypes DEF CreateFails
<1>13. CASE AbandonStart
  BY <1>13, UnchangedKeepsTypes DEF AbandonStart, Terminated, NotTerminated, NotRecorded, CustodyInv, AtPod, StartReport
<1>14. CASE StartEnds
  BY <1>14, UnchangedKeepsTypes DEF StartEnds
<1>15. CASE AnnotateRun
  <2>1. BudgetTypeOK'
    BY <1>15, HoldKeepsTypes DEF AnnotateRun
  <2>2. ProcessTypeOK'
    BY <1>15 DEF AnnotateRun
  <2> QED
    BY <2>1, <2>2
<1>16. CASE Measured
  BY <1>16, UnchangedKeepsTypes DEF Measured
<1>17. CASE KeepHolds
  BY <1>17, HoldKeepsTypes DEF KeepHolds
<1>18. CASE KeepParks
  <2>1. BudgetTypeOK'
    BY <1>18, HoldKeepsTypes DEF KeepParks
  <2>2. reused' \in BOOLEAN /\ stopped' \in BOOLEAN /\ estimated' \in BOOLEAN
    BY <1>18 DEF KeepParks, StartsToCharge
  <2>3. unspent' \in SUBSET StartReport
    BY <1>18 DEF KeepParks, StartsToCharge
  <2>4. ProcessTypeOK'
    BY <1>18, <2>2, <2>3 DEF KeepParks, StartsToCharge, HoldInv, InCandidate, AtPod
  <2> QED
    BY <2>1, <2>4
<1>19. CASE KeepRefused
  BY <1>19, UnchangedKeepsTypes DEF KeepRefused
<1>20. CASE TeardownTarget
  <2>1. BudgetTypeOK'
    BY <1>20, UnchangedKeepsTypes DEF TeardownTarget
  <2>2. reused' \in BOOLEAN /\ stopped' \in BOOLEAN /\ estimated' \in BOOLEAN
    BY <1>20 DEF TeardownTarget, Terminated, NotTerminated, NotRecorded, StartsToCharge
  <2>3. unspent' \in SUBSET StartReport
    BY <1>20 DEF TeardownTarget, Terminated, NotTerminated, NotRecorded, StartsToCharge
  <2>4. ProcessTypeOK'
    BY <1>20, <2>2, <2>3 DEF TeardownTarget, Terminated, NotTerminated, NotRecorded, StartsToCharge
  <2> QED
    BY <2>1, <2>4
<1>21. ASSUME NEW start \in unspent, ChargeAbandoned(start) PROVE TypeOK'
  <2>1. BudgetTypeOK'
    BY <1>21 DEF ChargeAbandoned, RecordPodSpend, StartReport, BudgetTypeOK, IsOpen
  <2>2. ProcessTypeOK'
    BY <1>21 DEF ChargeAbandoned, RecordPodSpend, StartReport
  <2> QED
    BY <2>1, <2>2
<1>22. CASE SettleRun
  <2>1. BudgetTypeOK'
    BY <1>22, SettleKeepsTypes DEF SettleRun, RunCharge
  <2>2. ProcessTypeOK'
    BY <1>22 DEF SettleRun, RunCharge, StopOverspent
  <2> QED
    BY <2>1, <2>2
<1>23. ASSUME NEW p \in Pod, RecordLeak(p) PROVE TypeOK'
  BY <1>23, HoldKeepsTypes DEF RecordLeak
<1>24. ASSUME NEW p \in Pod, AnnotateLeak(p) PROVE TypeOK'
  <2>1. BudgetTypeOK'
    BY <1>24, HoldKeepsTypes DEF AnnotateLeak
  <2>2. ProcessTypeOK'
    BY <1>24 DEF AnnotateLeak
  <2> QED
    BY <2>1, <2>2
<1>25. CASE LeaksRecorded
  BY <1>25, UnchangedKeepsTypes DEF LeaksRecorded
<1>26. CASE IterationEnd
  <2>1. BudgetTypeOK'
    BY <1>26, UnchangedKeepsTypes DEF IterationEnd
  <2>2. stopped' \in BOOLEAN
    BY <1>26, Zenon DEF IterationEnd, BudgetTypeOK
  <2>3. ProcessTypeOK'
    BY <1>26, <2>2 DEF IterationEnd
  <2> QED
    BY <2>1, <2>3
<1>27. CASE PlansDone
  BY <1>27, UnchangedKeepsTypes DEF PlansDone
<1>28. CASE ClosePoolSwitches
  BY <1>28, UnchangedKeepsTypes DEF ClosePoolSwitches
<1>29. CASE ClosePoolTearsDown
  BY <1>29, UnchangedKeepsTypes DEF ClosePoolTearsDown, CloseSlot, Terminated, NotTerminated, NotRecorded
<1>30. CASE ClosePoolSettles
  BY <1>30, SettleKeepsTypes DEF ClosePoolSettles
<1>31. CASE ClosePoolEmpty
  BY <1>31, UnchangedKeepsTypes DEF ClosePoolEmpty
<1>32. CASE Crash
  <2>1. BudgetTypeOK'
    BY <1>32 DEF Crash, ForgetProcess, BudgetTypeOK, IsOpen
  <2>2. ProcessTypeOK'
    BY <1>32 DEF Crash, ForgetProcess
  <2> QED
    BY <2>1, <2>2
<1>33. CASE Tick
  BY <1>33, UnchangedKeepsTypes DEF Tick
<1>34. CASE UNCHANGED vars
  BY <1>34, UnchangedKeepsTypes DEF vars
<1> HIDE DEF IInv, TypeOK
<1> QED
  BY <1>1, <1>2, <1>3, <1>4, <1>5, <1>6, <1>7, <1>8, <1>9, <1>10, <1>11, <1>12, <1>13, <1>14,
     <1>15, <1>16, <1>17, <1>18, <1>19, <1>20, <1>21, <1>22, <1>23, <1>24, <1>25, <1>26, <1>27,
     <1>28, <1>29, <1>30, <1>31, <1>32, <1>33, <1>34
  DEF Next, Process

(* Where the pods are stays known.                                        *)
LEMMA CustodyNext == ASSUME IInv, [Next]_vars PROVE CustodyInv'
<1> USE NoPodAssumption
<1> USE DEF IInv, TypeOK, ProcessTypeOK, CustodyInv, Billing, OneLivePod, PodAccounted, AtPod, MayPark,
            InClosing, budgetVars, providerVars, loopVars,
            solutionVars, poolVars, historyVars, boundVars
<1>1. CASE Launch
  BY <1>1 DEF Launch
<1>2. CASE ReplayDone
  BY <1>2 DEF ReplayDone
<1>3. CASE Exit
  BY <1>3 DEF Exit, ForgetProcess
<1>4. ASSUME NEW l \in Label, ReplayOpenHold(l) PROVE CustodyInv'
  BY <1>4 DEF ReplayOpenHold
<1>5. ASSUME NEW s \in Solution, StartSolution(s) PROVE CustodyInv'
  BY <1>5 DEF StartSolution
<1>6. CASE AcquireParked
  BY <1>6 DEF AcquireParked, StopOverspent
<1>7. CASE AcquireClosesOther
  BY <1>7 DEF AcquireClosesOther, CloseSlot, Terminated, NotTerminated, NotRecorded
<1>8. CASE AcquireAfterClose
  BY <1>8 DEF AcquireAfterClose, StopOverspent
<1>9. CASE AcquireNew
  BY <1>9 DEF AcquireNew
<1>10. ASSUME NEW p \in Pod, CreatePod(p) PROVE CustodyInv'
  BY <1>10 DEF CreatePod
<1>11. ASSUME NEW p \in Pod, CreateAnswerLost(p) PROVE CustodyInv'
  BY <1>11 DEF CreateAnswerLost
<1>12. CASE CreateFails
  BY <1>12 DEF CreateFails
<1>13. CASE AbandonStart
  BY <1>13 DEF AbandonStart, Terminated, NotTerminated, NotRecorded
<1>14. CASE StartEnds
  BY <1>14 DEF StartEnds
<1>15. CASE AnnotateRun
  BY <1>15 DEF AnnotateRun
<1>16. CASE Measured
  BY <1>16 DEF Measured
<1>17. CASE KeepHolds
  BY <1>17 DEF KeepHolds
<1>18. CASE KeepParks
  BY <1>18 DEF KeepParks
<1>19. CASE KeepRefused
  BY <1>19 DEF KeepRefused
<1>20. CASE TeardownTarget
  BY <1>20 DEF TeardownTarget, Terminated, NotTerminated, NotRecorded
<1>21. ASSUME NEW start \in unspent, ChargeAbandoned(start) PROVE CustodyInv'
  BY <1>21 DEF ChargeAbandoned
<1>22. CASE SettleRun
  BY <1>22 DEF SettleRun, StopOverspent
<1>23. ASSUME NEW p \in Pod, RecordLeak(p) PROVE CustodyInv'
  BY <1>23 DEF RecordLeak
<1>24. ASSUME NEW p \in Pod, AnnotateLeak(p) PROVE CustodyInv'
  BY <1>24 DEF AnnotateLeak
<1>25. CASE LeaksRecorded
  BY <1>25 DEF LeaksRecorded
<1>26. CASE IterationEnd
  BY <1>26 DEF IterationEnd
<1>27. CASE PlansDone
  BY <1>27 DEF PlansDone
<1>28. CASE ClosePoolSwitches
  BY <1>28 DEF ClosePoolSwitches
<1>29. CASE ClosePoolTearsDown
  BY <1>29 DEF ClosePoolTearsDown, CloseSlot, Terminated, NotTerminated, NotRecorded
<1>30. CASE ClosePoolSettles
  BY <1>30 DEF ClosePoolSettles
<1>31. CASE ClosePoolEmpty
  BY <1>31 DEF ClosePoolEmpty
<1>32. CASE Crash
  BY <1>32 DEF Crash, ForgetProcess
<1>33. CASE Tick
  BY <1>33 DEF Tick
<1>34. CASE UNCHANGED vars
  BY <1>34 DEF vars
<1> HIDE DEF IInv, CustodyInv
<1> QED
  BY <1>1, <1>2, <1>3, <1>4, <1>5, <1>6, <1>7, <1>8, <1>9, <1>10, <1>11, <1>12, <1>13, <1>14,
     <1>15, <1>16, <1>17, <1>18, <1>19, <1>20, <1>21, <1>22, <1>23, <1>24, <1>25, <1>26, <1>27,
     <1>28, <1>29, <1>30, <1>31, <1>32, <1>33, <1>34
  DEF Next, Process

(* The labels of different kinds, candidates and pods differ.              *)
LEMMA LabelFacts ==
  /\ \A s \in Solution : RunLabel(s) \in Label
  /\ \A p \in Pod : IdleLabel(p) \in Label /\ LeakLabel(p) \in Label
  /\ \A s, t : RunLabel(s) = RunLabel(t) => s = t
  /\ \A p, q : IdleLabel(p) = IdleLabel(q) => p = q
  /\ \A p, q : RunLabel(p) # IdleLabel(q) /\ RunLabel(p) # LeakLabel(q) /\ IdleLabel(p) # LeakLabel(q)
  BY LabelAssumption DEF RunLabel, IdleLabel, LeakLabel

(* What the operations on the account do to the label they name, and that  *)
(* they leave every other label alone.                                     *)
LEMMA OpenEffect ==
  ASSUME TypeOK, NEW l \in Label, NEW n, OpenHold(l, n) \/ OpenEndedHold(l, n)
  PROVE  /\ IsOpen(l)'
         /\ \A k \in Label \ {l} : holds'[k] = holds[k] /\ (IsOpen(k)' <=> IsOpen(k))
  BY DEF TypeOK, BudgetTypeOK, IsOpen, OpenHold, OpenEndedHold

LEMMA AnnotateEffect ==
  ASSUME TypeOK, NEW l \in Label, NEW p, AnnotateHold(l, p)
  PROVE  /\ IsOpen(l)' /\ holds'[l].pod = p
         /\ \A k \in Label \ {l} : holds'[k] = holds[k] /\ (IsOpen(k)' <=> IsOpen(k))
  BY DEF TypeOK, BudgetTypeOK, IsOpen, AnnotateHold

LEMMA SettleEffect ==
  ASSUME TypeOK, NEW l \in Label, NEW n, Settle(l, n) \/ ReplaySettle(l, n)
  PROVE  /\ ~IsOpen(l)'
         /\ \A k \in Label \ {l} : holds'[k] = holds[k] /\ (IsOpen(k)' <=> IsOpen(k))
  BY DEF TypeOK, BudgetTypeOK, IsOpen, Settle, ReplaySettle, NoHold

LEMMA HoldUnchanged == UNCHANGED budgetVars => UNCHANGED holds /\ \A k : IsOpen(k)' <=> IsOpen(k)
  BY DEF budgetVars, IsOpen

(* Which holds pay for the pods stays known.                                *)
LEMMA HoldNext == ASSUME IInv, [Next]_vars PROVE HoldInv'
<1> USE NoPodAssumption, LabelFacts, OpenEffect, AnnotateEffect, SettleEffect, HoldUnchanged
<1> USE DEF IInv, TypeOK, ProcessTypeOK, CustodyInv, HoldInv, HeldWhileRented, Billing, OneLivePod, AtPod,
            MayPark, InClosing, InCandidate, providerVars, loopVars, solutionVars,
            poolVars, historyVars, boundVars
<1>1. CASE Launch
  BY <1>1 DEF Launch
<1>2. CASE ReplayDone
  BY <1>2 DEF ReplayDone
<1>3. CASE Exit
  BY <1>3 DEF Exit, ForgetProcess
<1>4. ASSUME NEW l \in Label, ReplayOpenHold(l) PROVE HoldInv'
  BY <1>4 DEF ReplayOpenHold
<1>5. ASSUME NEW s \in Solution, StartSolution(s) PROVE HoldInv'
  <2>1. pc' = "acquire" /\ sp' = s /\ UNCHANGED <<slot, guard>>
    BY <1>5 DEF StartSolution
  <2>2. OpenHold(RunLabel(s), Estimate[s])
    BY <1>5 DEF StartSolution
  <2>3. slot # NoPod => IsOpen(IdleLabel(slot))' /\ holds'[IdleLabel(slot)].pod = slot
    BY <2>1, <2>2
  <2>4. IsOpen(RunLabel(s))'
    BY <2>2
  <2> QED
    BY <2>1, <2>3, <2>4
<1>6. CASE AcquireParked
  <2>1. /\ Settle(IdleLabel(slot), idle) /\ slot \in Pod /\ slot' = NoPod
        /\ sp' = sp /\ sp \in Solution /\ guard' = guard
        /\ pc = "acquire" /\ pc' \in {"closing", "annotate"}
    BY <1>6 DEF AcquireParked, StopOverspent
  <2>2. IsOpen(RunLabel(sp))
    BY <2>1
  <2>3. RunLabel(sp) \in Label \ {IdleLabel(slot)} /\ IdleLabel(slot) \in Label
    BY <2>1
  <2>4. \A k \in Label \ {IdleLabel(slot)} : IsOpen(k)' <=> IsOpen(k)
    BY <2>1, <2>3
  <2>5. IsOpen(RunLabel(sp))'
    BY <2>1, <2>2, <2>3, <2>4
  <2> QED
    BY <2>1, <2>5
<1>7. CASE AcquireClosesOther
  BY <1>7 DEF AcquireClosesOther, CloseSlot, Terminated, NotTerminated, NotRecorded
<1>8. CASE AcquireAfterClose
  <2>1. sp' = sp /\ slot' = NoPod /\ guard' \ unlisted' = {}
    BY <1>8 DEF AcquireAfterClose
  <2>2. sp \in Solution /\ IsOpen(RunLabel(sp))'
    <3>1. sp \in Solution /\ closing \in Pod /\ IsOpen(RunLabel(sp))
      BY <1>8 DEF AcquireAfterClose
    <3>2. TypeOK /\ Settle(IdleLabel(closing), idle)
      BY <1>8 DEF AcquireAfterClose
    <3>3. RunLabel(sp) \in Label \ {IdleLabel(closing)}
      BY <3>1
    <3> HIDE DEF IInv, TypeOK
    <3> QED
      BY <2>1, <3>1, <3>2, <3>3, SettleEffect
  <2>3. pc' \in {"closing", "provision"}
    BY <1>8 DEF AcquireAfterClose, StopOverspent
  <2> QED
    BY <2>1, <2>2, <2>3
<1>9. CASE AcquireNew
  BY <1>9 DEF AcquireNew
<1>10. ASSUME NEW p \in Pod, CreatePod(p) PROVE HoldInv'
  BY <1>10 DEF CreatePod
<1>11. ASSUME NEW p \in Pod, CreateAnswerLost(p) PROVE HoldInv'
  BY <1>11 DEF CreateAnswerLost
<1>12. CASE CreateFails
  BY <1>12 DEF CreateFails
<1>13. CASE AbandonStart
  BY <1>13 DEF AbandonStart, Terminated, NotTerminated, NotRecorded
<1>14. CASE StartEnds
  BY <1>14 DEF StartEnds
<1>15. CASE AnnotateRun
  BY <1>15 DEF AnnotateRun
<1>16. CASE Measured
  BY <1>16 DEF Measured
<1>17. CASE KeepHolds
  BY <1>17 DEF KeepHolds
<1>18. CASE KeepParks
  BY <1>18 DEF KeepParks
<1>19. CASE KeepRefused
  BY <1>19 DEF KeepRefused
<1>20. CASE TeardownTarget
  BY <1>20 DEF TeardownTarget, Terminated, NotTerminated, NotRecorded
<1>21. ASSUME NEW start \in unspent, ChargeAbandoned(start) PROVE HoldInv'
  BY <1>21 DEF ChargeAbandoned, RecordPodSpend, IsOpen
<1>22. CASE SettleRun
  <2>1. slot' = slot /\ guard' \ unlisted' = {slot} \ {NoPod}
    BY <1>22 DEF SettleRun
  <2>2. pc' \in {"closing", "record"}
    BY <1>22 DEF SettleRun, StopOverspent
  <2>3. slot # NoPod => IsOpen(IdleLabel(slot))' /\ holds'[IdleLabel(slot)].pod = slot
    <3>1. TypeOK /\ sp \in Solution /\ Settle(RunLabel(sp), RunCharge)
      BY <1>22 DEF SettleRun
    <3>2. slot # NoPod => IdleLabel(slot) \in Label \ {RunLabel(sp)}
      BY <3>1
    <3>3. slot # NoPod => IsOpen(IdleLabel(slot)) /\ holds[IdleLabel(slot)].pod = slot
      OBVIOUS
    <3> HIDE DEF IInv, TypeOK
    <3> QED
      BY <2>1, <3>1, <3>2, <3>3, SettleEffect
  <2>4. ASSUME NEW p \in (guard \ unlisted)' PROVE IsOpen(IdleLabel(p))'
    <3> HIDE DEF IInv
    <3> QED
      BY <2>1, <2>3
  <2>5. HeldWhileRented'
    <3> HIDE DEF IInv
    <3> QED
      BY <2>4
  <2> QED
    BY <2>1, <2>2, <2>3, <2>5
<1>23. ASSUME NEW p \in Pod, RecordLeak(p) PROVE HoldInv'
  <2>1. \A k \in Label \ {LeakLabel(p)} : holds'[k] = holds[k] /\ (IsOpen(k)' <=> IsOpen(k))
    BY <1>23 DEF RecordLeak
  <2>2. UNCHANGED <<sp, slot, guard, unlisted>> /\ pc' = "recordAnnotate"
    BY <1>23 DEF RecordLeak
  <2>3. \A k \in Label : IsOpen(k) => IsOpen(k)'
    BY <1>23 DEF RecordLeak
  <2>4. HeldWhileRented'
    <3>1. \A q \in guard : q \in Pod
      OBVIOUS
    <3>2. HeldWhileRented
      OBVIOUS
    <3> HIDE DEF IInv
    <3> QED
      BY <2>2, <2>3, <3>1, <3>2
  <2> QED
    BY <2>1, <2>2, <2>4
<1>24. ASSUME NEW p \in Pod, AnnotateLeak(p) PROVE HoldInv'
  BY <1>24 DEF AnnotateLeak
<1>25. CASE LeaksRecorded
  BY <1>25 DEF LeaksRecorded
<1>26. CASE IterationEnd
  BY <1>26 DEF IterationEnd
<1>27. CASE PlansDone
  BY <1>27 DEF PlansDone
<1>28. CASE ClosePoolSwitches
  BY <1>28 DEF ClosePoolSwitches
<1>29. CASE ClosePoolTearsDown
  BY <1>29 DEF ClosePoolTearsDown, CloseSlot, Terminated, NotTerminated, NotRecorded
<1>30. CASE ClosePoolSettles
  <2>1. /\ closing \in Pod /\ closing \notin guard \ unlisted /\ slot = NoPod
        /\ pc = "poolSettle" /\ pc' \in {"exit", "record"}
        /\ UNCHANGED <<sp, slot, guard, unlisted>>
    BY <1>30 DEF ClosePoolSettles
  <2>2. Settle(IdleLabel(closing), idle) /\ TypeOK
    BY <1>30 DEF ClosePoolSettles
  <2>3. ASSUME NEW p \in guard \ unlisted
        PROVE  IsOpen(IdleLabel(p))' \/ (sp \in Solution /\ IsOpen(RunLabel(sp))')
    <3>1. p \in Pod /\ p # closing
      BY <2>1, <2>3
    <3>2. IsOpen(IdleLabel(p)) \/ (sp \in Solution /\ IsOpen(RunLabel(sp)))
      BY <2>3
    <3>3. /\ IdleLabel(closing) \in Label
          /\ IdleLabel(p) \in Label \ {IdleLabel(closing)}
          /\ sp \in Solution => RunLabel(sp) \in Label \ {IdleLabel(closing)}
      BY <2>1, <3>1
    <3>4. \A k \in Label \ {IdleLabel(closing)} : IsOpen(k)' <=> IsOpen(k)
      <4> HIDE DEF IInv, TypeOK
      <4> QED
        BY <2>2, <3>3, SettleEffect
    <3> HIDE DEF IInv, TypeOK
    <3> QED
      BY <2>1, <3>2, <3>3, <3>4
  <2>4. HeldWhileRented'
    <3> HIDE DEF IInv, TypeOK
    <3> QED
      BY <2>1, <2>3
  <2> QED
    BY <2>1, <2>4
<1>31. CASE ClosePoolEmpty
  BY <1>31 DEF ClosePoolEmpty
<1>32. CASE Crash
  BY <1>32 DEF Crash, ForgetProcess
<1>33. CASE Tick
  BY <1>33 DEF Tick
<1>34. CASE UNCHANGED vars
  BY <1>34 DEF vars
<1> HIDE DEF IInv, HoldInv
<1> QED
  BY <1>1, <1>2, <1>3, <1>4, <1>5, <1>6, <1>7, <1>8, <1>9, <1>10, <1>11, <1>12, <1>13, <1>14,
     <1>15, <1>16, <1>17, <1>18, <1>19, <1>20, <1>21, <1>22, <1>23, <1>24, <1>25, <1>26, <1>27,
     <1>28, <1>29, <1>30, <1>31, <1>32, <1>33, <1>34
  DEF Next, Process

(* Which abandoned starts are charged stays known.                         *)
LEMMA ChargeNext == ASSUME IInv, [Next]_vars PROVE ChargeInv'
<1> USE NoPodAssumption
<1> USE DEF IInv, TypeOK, ProcessTypeOK, CustodyInv, ChargeInv, AbandonedChargedOnce, AtPod, StartReport,
            providerVars, loopVars, solutionVars, poolVars, historyVars, boundVars
<1>1. CASE Launch
  BY <1>1 DEF Launch
<1>2. CASE ReplayDone
  BY <1>2 DEF ReplayDone
<1>3. CASE Exit
  BY <1>3 DEF Exit, ForgetProcess
<1>4. ASSUME NEW l \in Label, ReplayOpenHold(l) PROVE ChargeInv'
  BY <1>4 DEF ReplayOpenHold
<1>5. ASSUME NEW s \in Solution, StartSolution(s) PROVE ChargeInv'
  BY <1>5 DEF StartSolution
<1>6. CASE AcquireParked
  BY <1>6 DEF AcquireParked, StopOverspent
<1>7. CASE AcquireClosesOther
  BY <1>7 DEF AcquireClosesOther, CloseSlot, Terminated, NotTerminated, NotRecorded
<1>8. CASE AcquireAfterClose
  BY <1>8 DEF AcquireAfterClose, StopOverspent
<1>9. CASE AcquireNew
  BY <1>9 DEF AcquireNew
<1>10. ASSUME NEW p \in Pod, CreatePod(p) PROVE ChargeInv'
  BY <1>10 DEF CreatePod
<1>11. ASSUME NEW p \in Pod, CreateAnswerLost(p) PROVE ChargeInv'
  BY <1>11 DEF CreateAnswerLost
<1>12. CASE CreateFails
  BY <1>12 DEF CreateFails
<1>13. CASE AbandonStart
  <2> DEFINE new == [pod |-> target, seconds |-> bill[target]]
  <2>1. starts' = starts \cup {new} /\ target \in Pod /\ new.pod = target /\ pods[target] # "fresh"
    BY <1>13 DEF AbandonStart, Billing
  <2>2. UNCHANGED <<unspent, paid, reused>> /\ pc = "starting" /\ pc' \in {"provision", "teardown"}
    BY <1>13 DEF AbandonStart
  <2>3. \A p \in Pod : pods'[p] = "fresh" => pods[p] = "fresh"
    BY <1>13 DEF AbandonStart, Terminated, NotTerminated, NotRecorded
  <2> HIDE DEF new
  <2> QED
    BY <2>1, <2>2, <2>3
<1>14. CASE StartEnds
  BY <1>14 DEF StartEnds
<1>15. CASE AnnotateRun
  BY <1>15 DEF AnnotateRun
<1>16. CASE Measured
  BY <1>16 DEF Measured
<1>17. CASE KeepHolds
  BY <1>17 DEF KeepHolds
<1>18. CASE KeepParks
  BY <1>18 DEF KeepParks, StartsToCharge
<1>19. CASE KeepRefused
  BY <1>19 DEF KeepRefused
<1>20. CASE TeardownTarget
  BY <1>20 DEF TeardownTarget, Terminated, NotTerminated, NotRecorded, StartsToCharge
<1>21. ASSUME NEW start \in unspent, ChargeAbandoned(start) PROVE ChargeInv'
  BY <1>21 DEF ChargeAbandoned, RecordPodSpend, IsOpen
<1>22. CASE SettleRun
  BY <1>22 DEF SettleRun, StopOverspent
<1>23. ASSUME NEW p \in Pod, RecordLeak(p) PROVE ChargeInv'
  BY <1>23 DEF RecordLeak
<1>24. ASSUME NEW p \in Pod, AnnotateLeak(p) PROVE ChargeInv'
  BY <1>24 DEF AnnotateLeak
<1>25. CASE LeaksRecorded
  BY <1>25 DEF LeaksRecorded
<1>26. CASE IterationEnd
  BY <1>26 DEF IterationEnd
<1>27. CASE PlansDone
  BY <1>27 DEF PlansDone
<1>28. CASE ClosePoolSwitches
  BY <1>28 DEF ClosePoolSwitches
<1>29. CASE ClosePoolTearsDown
  BY <1>29 DEF ClosePoolTearsDown, CloseSlot, Terminated, NotTerminated, NotRecorded
<1>30. CASE ClosePoolSettles
  BY <1>30 DEF ClosePoolSettles
<1>31. CASE ClosePoolEmpty
  BY <1>31 DEF ClosePoolEmpty
<1>32. CASE Crash
  BY <1>32 DEF Crash, ForgetProcess
<1>33. CASE Tick
  BY <1>33 DEF Tick
<1>34. CASE UNCHANGED vars
  BY <1>34 DEF vars
<1> HIDE DEF IInv, ChargeInv
<1> QED
  BY <1>1, <1>2, <1>3, <1>4, <1>5, <1>6, <1>7, <1>8, <1>9, <1>10, <1>11, <1>12, <1>13, <1>14,
     <1>15, <1>16, <1>17, <1>18, <1>19, <1>20, <1>21, <1>22, <1>23, <1>24, <1>25, <1>26, <1>27,
     <1>28, <1>29, <1>30, <1>31, <1>32, <1>33, <1>34
  DEF Next, Process

(* Which labels are open stays known.                                      *)
LEMMA OpenNext == ASSUME IInv, [Next]_vars PROVE OpenInv'
<1> USE NoPodAssumption, LabelFacts, OpenEffect, AnnotateEffect, SettleEffect, HoldUnchanged
<1> USE DEF IInv, TypeOK, ProcessTypeOK, CustodyInv, HoldInv, OpenInv, Due, AtPod, MayPark,
            InClosing, InCandidate, providerVars, loopVars, solutionVars,
            poolVars, historyVars, boundVars
<1>1. CASE Launch
  BY <1>1 DEF Launch
<1>2. CASE ReplayDone
  BY <1>2 DEF ReplayDone, OpenLabels
<1>3. CASE Exit
  BY <1>3 DEF Exit, ForgetProcess
<1>4. ASSUME NEW l \in Label, ReplayOpenHold(l) PROVE OpenInv'
  BY <1>4 DEF ReplayOpenHold
<1>5. ASSUME NEW s \in Solution, StartSolution(s) PROVE OpenInv'
  BY <1>5 DEF StartSolution
<1>6. CASE AcquireParked
  <2>1. TypeOK /\ pc = "acquire" /\ ~stopped /\ ~InClosing /\ sp \in Solution /\ slot \in Pod /\ slot # NoPod
    BY <1>6 DEF AcquireParked
  <2>2. Settle(IdleLabel(slot), idle) /\ sp' = sp /\ slot' = NoPod /\ leaked' = leaked /\ error' = error
    BY <1>6 DEF AcquireParked
  <2>3. pc' = "annotate" \/ stopped'
    BY <1>6 DEF AcquireParked, StopOverspent
  <2>4. \A l \in Label : IsOpen(l)' <=> l = RunLabel(sp)
    <3>1. \A l \in Label : IsOpen(l) <=> l = RunLabel(sp) \/ l = IdleLabel(slot)
      BY <2>1
    <3>2. IdleLabel(slot) \in Label /\ RunLabel(sp) # IdleLabel(slot)
      BY <2>1
    <3> HIDE DEF IInv, TypeOK, OpenInv
    <3> QED
      BY <2>1, <2>2, <3>1, <3>2, SettleEffect
  <2> QED
    BY <2>1, <2>2, <2>3, <2>4
<1>7. CASE AcquireClosesOther
  BY <1>7 DEF AcquireClosesOther, CloseSlot, Terminated, NotTerminated, NotRecorded
<1>8. CASE AcquireAfterClose
  <2>1. TypeOK /\ pc = "switchSettle" /\ ~stopped /\ ~InClosing /\ sp \in Solution /\ closing \in Pod
    BY <1>8 DEF AcquireAfterClose
  <2>2. /\ Settle(IdleLabel(closing), idle)
        /\ sp' = sp /\ slot' = slot /\ slot = NoPod /\ leaked' = leaked /\ error' = error
    BY <1>8 DEF AcquireAfterClose
  <2>3. pc' = "provision" \/ stopped'
    BY <1>8 DEF AcquireAfterClose, StopOverspent
  <2>4. \A l \in Label : IsOpen(l)' <=> l = RunLabel(sp)
    <3>1. \A l \in Label : IsOpen(l) <=> l = RunLabel(sp) \/ l = IdleLabel(closing)
      BY <2>1, <2>2
    <3>2. IdleLabel(closing) \in Label /\ RunLabel(sp) # IdleLabel(closing)
      BY <2>1
    <3> HIDE DEF IInv, TypeOK, OpenInv
    <3> QED
      BY <2>1, <2>2, <3>1, <3>2, SettleEffect
  <2> QED
    BY <2>1, <2>2, <2>3, <2>4
<1>9. CASE AcquireNew
  BY <1>9 DEF AcquireNew
<1>10. ASSUME NEW p \in Pod, CreatePod(p) PROVE OpenInv'
  BY <1>10 DEF CreatePod
<1>11. ASSUME NEW p \in Pod, CreateAnswerLost(p) PROVE OpenInv'
  BY <1>11 DEF CreateAnswerLost
<1>12. CASE CreateFails
  BY <1>12 DEF CreateFails
<1>13. CASE AbandonStart
  BY <1>13 DEF AbandonStart, Terminated, NotTerminated, NotRecorded
<1>14. CASE StartEnds
  BY <1>14 DEF StartEnds
<1>15. CASE AnnotateRun
  BY <1>15 DEF AnnotateRun
<1>16. CASE Measured
  BY <1>16 DEF Measured
<1>17. CASE KeepHolds
  BY <1>17 DEF KeepHolds
<1>18. CASE KeepParks
  BY <1>18 DEF KeepParks, StartsToCharge
<1>19. CASE KeepRefused
  BY <1>19 DEF KeepRefused
<1>20. CASE TeardownTarget
  BY <1>20 DEF TeardownTarget, Terminated, NotTerminated, NotRecorded, StartsToCharge
<1>21. ASSUME NEW start \in unspent, ChargeAbandoned(start) PROVE OpenInv'
  BY <1>21 DEF ChargeAbandoned, RecordPodSpend, IsOpen
<1>22. CASE SettleRun
  <2>1. TypeOK /\ pc = "charge" /\ ~stopped /\ ~InClosing /\ sp \in Solution
    BY <1>22 DEF SettleRun
  <2>2. Settle(RunLabel(sp), RunCharge) /\ slot' = slot /\ leaked' = NoPod
    BY <1>22 DEF SettleRun
  <2>3. \/ stopped'
        \/ pc' = "record" /\ leaks' = {leaked} \ {NoPod} /\ error # "stop"
    BY <1>22, Zenon DEF SettleRun, StopOverspent
  <2>4. \A l \in Label : IsOpen(l)' <=> slot # NoPod /\ l = IdleLabel(slot)
    <3>1. \A l \in Label : IsOpen(l) <=> l = RunLabel(sp) \/ (slot # NoPod /\ l = IdleLabel(slot))
      BY <2>1
    <3>2. RunLabel(sp) \in Label /\ (slot # NoPod => RunLabel(sp) # IdleLabel(slot))
      BY <2>1
    <3> HIDE DEF IInv, TypeOK, OpenInv
    <3> QED
      BY <2>1, <2>2, <3>1, <3>2, SettleEffect
  <2> QED
    BY <2>1, <2>2, <2>3, <2>4
<1>23. ASSUME NEW p \in Pod, RecordLeak(p) PROVE OpenInv'
  BY <1>23 DEF RecordLeak
<1>24. ASSUME NEW p \in Pod, AnnotateLeak(p) PROVE OpenInv'
  BY <1>24 DEF AnnotateLeak
<1>25. CASE LeaksRecorded
  BY <1>25 DEF LeaksRecorded
<1>26. CASE IterationEnd
  BY <1>26 DEF IterationEnd
<1>27. CASE PlansDone
  BY <1>27 DEF PlansDone
<1>28. CASE ClosePoolSwitches
  BY <1>28 DEF ClosePoolSwitches
<1>29. CASE ClosePoolTearsDown
  BY <1>29 DEF ClosePoolTearsDown, CloseSlot, Terminated, NotTerminated, NotRecorded
<1>30. CASE ClosePoolSettles
  BY <1>30 DEF ClosePoolSettles
<1>31. CASE ClosePoolEmpty
  BY <1>31 DEF ClosePoolEmpty
<1>32. CASE Crash
  BY <1>32 DEF Crash, ForgetProcess
<1>33. CASE Tick
  BY <1>33 DEF Tick
<1>34. CASE UNCHANGED vars
  BY <1>34 DEF vars
<1> HIDE DEF IInv, OpenInv
<1> QED
  BY <1>1, <1>2, <1>3, <1>4, <1>5, <1>6, <1>7, <1>8, <1>9, <1>10, <1>11, <1>12, <1>13, <1>14,
     <1>15, <1>16, <1>17, <1>18, <1>19, <1>20, <1>21, <1>22, <1>23, <1>24, <1>25, <1>26, <1>27,
     <1>28, <1>29, <1>30, <1>31, <1>32, <1>33, <1>34
  DEF Next, Process

-----------------------------------------------------------------------------
(* IInv is an invariant: it holds at the start and every step keeps it.     *)
THEOREM Inductive == Spec => []IInv
<1>1. IInv /\ [Next]_vars => IInv'
  BY TypeNext, CustodyNext, HoldNext, ChargeNext, OpenNext DEF IInv
<1> QED
  BY InitInv, <1>1, PTL DEF Spec

(* TypeOK, for every value of the constants.                               *)
THEOREM Types == Spec => []TypeOK
<1>1. IInv => TypeOK
  BY DEF IInv
<1> QED
  BY Inductive, <1>1, PTL

(* TargetPool.acquire and RunPodTarget.provision never hold two live pods.  *)
THEOREM OnePod == Spec => []OneLivePod
<1>1. IInv => OneLivePod
  BY DEF IInv, CustodyInv
<1> QED
  BY Inductive, <1>1, PTL

(* No error path of a candidate, of the pool or of a start loses a pod      *)
(* that bills: the exit guard, leaked_pods.json or the sweep has it.        *)
THEOREM Accounted == Spec => []PodAccounted
<1>1. IInv => PodAccounted
  BY DEF IInv, CustodyInv
<1> QED
  BY Inductive, <1>1, PTL

(* While the run goes on it knows every pod it must tear down.              *)
THEOREM NoStray == Spec => []NoStrayPod
<1>1. IInv => NoStrayPod
  BY DEF IInv, CustodyInv, NoStrayPod
<1> QED
  BY Inductive, <1>1, PTL

(* A crash at any step leaves an open hold for the pod that was rented.     *)
THEOREM AlwaysHeld == Spec => []HeldWhileRented
<1>1. IInv => HeldWhileRented
  BY DEF IInv, HoldInv
<1> QED
  BY Inductive, <1>1, PTL

(* A candidate leaves nothing open but the hold of the pod it parked.       *)
THEOREM LeavesNothingOpen == Spec => []BetweenCandidates
<1>1. ASSUME IInv, pc \in {"loop", "refused"}
      PROVE  /\ OpenLabels = (IF slot = NoPod THEN {} ELSE {IdleLabel(slot)})
             /\ slot # NoPod => holds[IdleLabel(slot)].pod = slot
  <2>1. ~stopped /\ ~InClosing
    BY <1>1 DEF IInv, CustodyInv, InClosing
  <2>2. \A l \in Label : IsOpen(l) <=> slot # NoPod /\ l = IdleLabel(slot)
    BY <1>1, <2>1 DEF IInv, OpenInv, Due, InCandidate, AtPod
  <2>3. slot # NoPod => IdleLabel(slot) \in Label
    BY <1>1, LabelFacts DEF IInv, TypeOK, ProcessTypeOK
  <2>4. slot # NoPod => holds[IdleLabel(slot)].pod = slot
    BY <1>1 DEF IInv, HoldInv
  <2> QED
    BY <2>2, <2>3, <2>4 DEF OpenLabels
<1>2. IInv => BetweenCandidates
  BY <1>1 DEF BetweenCandidates
<1> QED
  BY Inductive, <1>2, PTL

(* An abandoned start is not charged again when its target is reused.       *)
THEOREM ChargedOnce == Spec => []AbandonedChargedOnce
<1>1. IInv => AbandonedChargedOnce
  BY DEF IInv, ChargeInv
<1> QED
  BY Inductive, <1>1, PTL

-----------------------------------------------------------------------------
(* What each action does to a pod's custody.                                *)

Hands == guard \ unlisted

LEMMA CustodyStutters ==
  ASSUME UNCHANGED <<pods, slot>>, Hands' = Hands
  PROVE  UNCHANGED [p \in Pod |-> CustodyOf(p)]
  BY DEF CustodyOf, Hands

LEMMA OutOfHand ==
  ASSUME NEW p, pods[p] \in {"fresh", "billing", "gone"}, p \notin Hands
  PROVE  CustodyOf(p) \notin {"working", "parked"}
<1>1. CASE pods[p] = "fresh"
  BY <1>1 DEF CustodyOf
<1>2. CASE pods[p] = "gone"
  BY <1>2 DEF CustodyOf
<1>3. CASE pods[p] = "billing"
  <2>1. CustodyOf(p) = "left"
    BY <1>3 DEF CustodyOf, Hands
  <2> QED
    BY <2>1
<1> QED
  BY <1>1, <1>2, <1>3

LEMMA ReleaseStep ==
  ASSUME IInv, NEW p \in Hands, pods' = pods \/ pods' = [pods EXCEPT ![p] = "gone"],
         Hands' = Hands \ {p} \/ (Hands' = Hands /\ p # slot),
         slot' = (IF p = slot THEN NoPod ELSE slot)
  PROVE  Custody!Release(p) \/ UNCHANGED [q \in Pod |-> CustodyOf(q)]
<1>1. p \in Pod /\ pods[p] # "fresh" /\ pods \in [Pod -> {"fresh", "billing", "gone"}] /\ p # NoPod
  BY NoPodAssumption DEF Hands, IInv, TypeOK, ProcessTypeOK, CustodyInv
<1>2. ASSUME NEW q \in Pod, q # p PROVE CustodyOf(q)' = CustodyOf(q)
  <2>1. pods'[q] = pods[q] /\ (q \in Hands' <=> q \in Hands) /\ (q = slot' <=> q = slot)
    BY <1>1, <1>2, NoPodAssumption
  <2> QED
    BY <2>1 DEF CustodyOf, Hands
<1>3. CASE pods[p] = "gone" \/ (pods' = pods /\ Hands' = Hands)
  <2>1. CustodyOf(p)' = CustodyOf(p)
    BY <1>1, <1>3 DEF CustodyOf, Hands
  <2> QED
    BY <1>2, <2>1
<1>4. CASE pods[p] = "billing" /\ ~(pods' = pods /\ Hands' = Hands)
  <2> DEFINE outcome == IF pods' = pods THEN "left" ELSE "ended"
  <2>1. CustodyOf(p) \in {"working", "parked"}
    BY <1>1, <1>4 DEF CustodyOf, Hands
  <2>2. CustodyOf(p)' = outcome
    BY <1>1, <1>4 DEF CustodyOf, Hands
  <2>3. [q \in Pod |-> CustodyOf(q)]' = [[q \in Pod |-> CustodyOf(q)] EXCEPT ![p] = outcome]
    BY <1>1, <1>2, <2>2
  <2> QED
    BY <1>1, <2>1, <2>3 DEF Custody!Release, Custody!InHand
<1> QED
  BY <1>1, <1>3, <1>4

(* A process that ends lets go of every pod, keeping or terminating some.   *)
LEMMA QuitStep ==
  ASSUME IInv, guard' = {}, slot' = NoPod, NEW ended \in SUBSET guard,
         pods' = [p \in Pod |-> IF p \in ended THEN "gone" ELSE pods[p]]
  PROVE  Custody!Quit({p \in ended : pods[p] = "billing"})
<1> DEFINE S == {p \in ended : pods[p] = "billing"}
           custody == [p \in Pod |-> CustodyOf(p)]
<1>1. /\ pods \in [Pod -> {"fresh", "billing", "gone"}] /\ guard \subseteq Pod
      /\ \A p \in guard : pods[p] # "fresh"
  BY DEF IInv, TypeOK, ProcessTypeOK, CustodyInv
<1>2. \A p \in S : p \in Pod /\ CustodyOf(p) \in {"working", "parked", "left"}
  BY <1>1 DEF CustodyOf
<1>3. ASSUME NEW p \in Pod
      PROVE  CustodyOf(p)' = IF p \in S THEN "ended"
                             ELSE IF CustodyOf(p) \in {"working", "parked"} THEN "left"
                             ELSE CustodyOf(p)
  <2>1. pods'[p] = IF p \in ended THEN "gone" ELSE pods[p]
    OBVIOUS
  <2>2. CASE pods[p] = "fresh"
    BY <1>1, <2>1, <2>2 DEF CustodyOf
  <2>3. CASE pods[p] = "gone"
    BY <2>1, <2>3 DEF CustodyOf
  <2>4. CASE pods[p] = "billing"
    <3>1. CustodyOf(p) \in {"working", "parked", "left"}
      BY <2>4 DEF CustodyOf
    <3>2. CustodyOf(p)' = IF p \in ended THEN "ended" ELSE "left"
      BY <2>1, <2>4 DEF CustodyOf
    <3> QED
      BY <2>4, <3>1, <3>2
  <2> QED
    BY <1>1, <2>2, <2>3, <2>4
<1>4. custody' = [p \in Pod |-> IF p \in S THEN "ended"
                                ELSE IF custody[p] \in {"working", "parked"} THEN "left"
                                ELSE custody[p]]
  BY <1>3
<1> HIDE DEF S
<1>5. \A p \in S : custody[p] \in {"working", "parked"} \/ custody[p] = "left"
  BY <1>2
<1>6. Custody!Quit(S)
  BY <1>4, <1>5 DEF Custody!Quit, Custody!InHand
<1> QED
  BY <1>6 DEF S

LEMMA CustodyNextStep ==
  ASSUME IInv, [Next]_vars
  PROVE  Custody!Next \/ UNCHANGED [p \in Pod |-> CustodyOf(p)]
<1> DEFINE custody == [p \in Pod |-> CustodyOf(p)]
           Allowed == Custody!Next \/ UNCHANGED custody
<1> USE DEF providerVars, loopVars, solutionVars, poolVars, historyVars, boundVars
<1>0. ASSUME NEW p \in Hands, Custody!Release(p) \/ UNCHANGED custody PROVE Allowed
  BY <1>0 DEF Custody!Next, Hands, IInv, TypeOK, ProcessTypeOK
<1>1. CASE Launch
  <2>1. PICK old \in SUBSET Billing, swept \in SUBSET Billing :
               swept \subseteq old /\ pods' = [p \in Pod |-> IF p \in swept THEN "gone" ELSE pods[p]]
    BY <1>1 DEF Launch
  <2>2. guard = {} /\ UNCHANGED <<guard, unlisted, slot>> /\ swept \subseteq Pod
    BY <1>1 DEF Launch, IInv, CustodyInv, AtPod, MayPark, InClosing, Billing
  <2>3. \A p \in swept : CustodyOf(p) = "left"
    BY <2>2 DEF CustodyOf, Billing
  <2>4. \A p \in Pod : CustodyOf(p)' = IF p \in swept THEN "ended" ELSE CustodyOf(p)
    BY <2>1, <2>2 DEF CustodyOf
  <2>5. custody' = [p \in Pod |-> IF p \in swept THEN "ended" ELSE custody[p]]
    BY <2>4
  <2>6. Custody!Sweep(swept)
    BY <2>2, <2>3, <2>5 DEF Custody!Sweep
  <2> QED
    BY <2>2, <2>6 DEF Custody!Next
<1>20. ASSUME NEW ended \in SUBSET guard, guard' = {}, slot' = NoPod,
              pods' = [p \in Pod |-> IF p \in ended THEN "gone" ELSE pods[p]]
       PROVE  Allowed
  <2> DEFINE S == {p \in ended : pods[p] = "billing"}
  <2>1. Custody!Quit(S)
    BY <1>20, QuitStep
  <2>2. S \in SUBSET Pod
    BY DEF IInv, TypeOK, ProcessTypeOK
  <2> HIDE DEF S
  <2> QED
    BY <2>1, <2>2 DEF Custody!Next
<1>2. CASE Exit
  <2>1. PICK ended \in SUBSET guard :
               pods' = [p \in Pod |-> IF p \in ended THEN "gone" ELSE pods[p]]
    BY <1>2 DEF Exit
  <2>2. guard' = {} /\ slot' = NoPod
    BY <1>2 DEF Exit, ForgetProcess
  <2> QED
    BY <1>20, <2>1, <2>2
<1>3. CASE Crash
  <2>1. guard' = {} /\ slot' = NoPod /\ pods' = pods /\ pods \in [Pod -> {"fresh", "billing", "gone"}]
    BY <1>3 DEF Crash, ForgetProcess, IInv, TypeOK, ProcessTypeOK
  <2>2. pods' = [p \in Pod |-> IF p \in {} THEN "gone" ELSE pods[p]]
    BY <2>1
  <2> QED
    BY <1>20, <2>1, <2>2
<1>4. CASE AcquireParked
  <2>1. slot \in Pod /\ slot \in Hands /\ pods[slot] = "billing"
    BY <1>4 DEF AcquireParked, Hands, IInv, TypeOK, ProcessTypeOK, CustodyInv, Billing
  <2>2. pods' = pods /\ Hands' = Hands /\ slot' = NoPod
    BY <1>4 DEF AcquireParked, Hands
  <2>3. custody[slot] = "parked"
    BY <2>1 DEF CustodyOf, Hands
  <2>4. \A q \in Pod : CustodyOf(q)' = IF q = slot THEN "working" ELSE CustodyOf(q)
    BY <2>1, <2>2, NoPodAssumption DEF CustodyOf, Hands
  <2>5. custody' = [custody EXCEPT ![slot] = "working"]
    BY <2>1, <2>4
  <2>6. Custody!Unpark(slot)
    BY <2>3, <2>5 DEF Custody!Unpark
  <2> QED
    BY <2>1, <2>6 DEF Custody!Next
<1>5. ASSUME NEW next, CloseSlot(next) PROVE Allowed
  <2>1. slot \in Hands /\ slot' = NoPod
    BY <1>5 DEF CloseSlot, Hands, IInv, CustodyInv
  <2>2. Hands' = Hands \ {slot}
    BY <1>5, <2>1 DEF CloseSlot, Terminated, NotTerminated, NotRecorded, Hands
  <2>3. pods' = pods \/ pods' = [pods EXCEPT ![slot] = "gone"]
    BY <1>5 DEF CloseSlot, Terminated, NotTerminated, NotRecorded
  <2> QED
    BY <1>0, <2>1, <2>2, <2>3, ReleaseStep
<1>6. ASSUME NEW p \in Pod, CreatePod(p) PROVE Allowed
  <2>1. guard = unlisted /\ slot = NoPod /\ target = NoPod
    BY <1>6 DEF CreatePod, IInv, CustodyInv, AtPod, MayPark, InClosing
  <2>2. pods[p] = "fresh" /\ pods' = [pods EXCEPT ![p] = "billing"] /\ Hands' = {p} /\ slot' = slot
    <3>1. p \notin unlisted
      BY <1>6 DEF CreatePod, IInv, CustodyInv
    <3> QED
      BY <1>6, <2>1, <3>1 DEF CreatePod, Hands
  <2>3. pods \in [Pod -> {"fresh", "billing", "gone"}]
    BY DEF IInv, TypeOK, ProcessTypeOK
  <2>4. CustodyOf(p) = "unrented" /\ \A q \in Pod : CustodyOf(q) \notin {"working", "parked"}
    <3>1. CustodyOf(p) = "unrented"
      BY <2>2 DEF CustodyOf
    <3>2. ASSUME NEW q \in Pod PROVE CustodyOf(q) \notin {"working", "parked"}
      <4>1. q \notin guard \ unlisted /\ pods[q] \in {"fresh", "billing", "gone"}
        BY <2>1, <2>3
      <4>2. q \notin Hands
        BY <4>1 DEF Hands
      <4> QED
        BY <4>1, <4>2, OutOfHand
    <3> QED
      BY <3>1, <3>2
  <2>5. \A q \in Pod : CustodyOf(q)' = IF q = p THEN "working" ELSE CustodyOf(q)
    BY <2>1, <2>2, <2>3, NoPodAssumption DEF CustodyOf, Hands
  <2>6. custody' = [custody EXCEPT ![p] = "working"]
    BY <2>5
  <2>7. Custody!Rent(p)
    BY <2>4, <2>6 DEF Custody!Rent, Custody!InHand
  <2> QED
    BY <2>7 DEF Custody!Next
<1>7. ASSUME NEW p \in Pod, CreateAnswerLost(p) PROVE Allowed
  <2>1. /\ pods[p] = "fresh" /\ pods' = [pods EXCEPT ![p] = "billing"]
        /\ UNCHANGED <<guard, unlisted, slot>>
    BY <1>7 DEF CreateAnswerLost
  <2>2. pods \in [Pod -> {"fresh", "billing", "gone"}] /\ p \notin guard
    BY <2>1 DEF IInv, TypeOK, ProcessTypeOK, CustodyInv, Billing
  <2>3. \A q \in Pod : CustodyOf(q)' = IF q = p THEN "left" ELSE CustodyOf(q)
    BY <2>1, <2>2 DEF CustodyOf
  <2>4. CustodyOf(p) = "unrented" /\ custody' = [custody EXCEPT ![p] = "left"]
    BY <2>1, <2>3 DEF CustodyOf
  <2>5. Custody!RentUnseen(p)
    BY <2>4 DEF Custody!RentUnseen
  <2> QED
    BY <2>5 DEF Custody!Next
<1>8. ASSUME AbandonStart \/ TeardownTarget, target # NoPod PROVE Allowed
  <2>1. target \in Hands /\ target # slot
    BY <1>8 DEF Hands, IInv, TypeOK, ProcessTypeOK, CustodyInv, AtPod, MayPark
  <2>2. (Hands' = Hands \ {target} \/ Hands' = Hands) /\ slot' = slot
    BY <1>8, <2>1 DEF AbandonStart, TeardownTarget, Terminated, NotTerminated, NotRecorded, Hands
  <2>3. pods' = pods \/ pods' = [pods EXCEPT ![target] = "gone"]
    BY <1>8 DEF AbandonStart, TeardownTarget, Terminated, NotTerminated, NotRecorded
  <2> QED
    BY <1>0, <2>1, <2>2, <2>3, ReleaseStep
<1>9. CASE KeepParks
  <2>1. target \in Hands /\ target \in Pod /\ pods[target] = "billing" /\ slot = NoPod
    BY <1>9 DEF KeepParks, Hands, IInv, TypeOK, ProcessTypeOK, CustodyInv, AtPod, MayPark, Billing
  <2>2. pods' = pods /\ Hands' = Hands /\ slot' = target
    BY <1>9 DEF KeepParks, Hands
  <2>3. custody[target] = "working"
    BY <2>1, NoPodAssumption DEF CustodyOf, Hands
  <2>4. \A q \in Pod : CustodyOf(q)' = IF q = target THEN "parked" ELSE CustodyOf(q)
    BY <2>1, <2>2, NoPodAssumption DEF CustodyOf, Hands
  <2>5. custody' = [custody EXCEPT ![target] = "parked"]
    BY <2>1, <2>4
  <2>6. Custody!Park(target)
    BY <2>3, <2>5 DEF Custody!Park
  <2> QED
    BY <2>1, <2>6 DEF Custody!Next
<1>10. ASSUME UNCHANGED <<pods, guard, unlisted, slot>> PROVE Allowed
  BY <1>10, CustodyStutters DEF Hands
<1>11. \/ Launch \/ Exit \/ Crash \/ AcquireParked \/ (\E next : CloseSlot(next))
       \/ (\E p \in Pod : CreatePod(p) \/ CreateAnswerLost(p))
       \/ ((AbandonStart \/ TeardownTarget) /\ target # NoPod)
       \/ KeepParks \/ UNCHANGED <<pods, guard, unlisted, slot>>
  <2>1. AbandonStart => target # NoPod
    BY DEF AbandonStart, IInv, CustodyInv, AtPod
  <2>2. TeardownTarget /\ target = NoPod => UNCHANGED <<pods, guard, unlisted, slot>>
    BY DEF TeardownTarget
  <2>3. AcquireClosesOther \/ ClosePoolTearsDown => \E next : CloseSlot(next)
    BY DEF AcquireClosesOther, ClosePoolTearsDown
  <2>4. ASSUME \/ ReplayDone \/ AcquireAfterClose \/ AcquireNew \/ CreateFails \/ StartEnds
               \/ AnnotateRun \/ Measured \/ KeepHolds \/ KeepRefused \/ SettleRun
               \/ LeaksRecorded \/ IterationEnd \/ PlansDone \/ ClosePoolSwitches
               \/ ClosePoolSettles \/ ClosePoolEmpty \/ Tick \/ UNCHANGED vars
        PROVE  UNCHANGED <<pods, guard, unlisted, slot>>
    BY <2>4 DEF ReplayDone, AcquireAfterClose, AcquireNew, CreateFails, StartEnds, AnnotateRun,
       Measured, KeepHolds, KeepRefused, SettleRun, LeaksRecorded, IterationEnd, PlansDone,
       ClosePoolSwitches, ClosePoolSettles, ClosePoolEmpty, Tick, vars
  <2>5. ASSUME NEW l \in Label, ReplayOpenHold(l) PROVE UNCHANGED <<pods, guard, unlisted, slot>>
    BY <2>5 DEF ReplayOpenHold
  <2>6. ASSUME NEW s \in Solution, StartSolution(s) PROVE UNCHANGED <<pods, guard, unlisted, slot>>
    BY <2>6 DEF StartSolution
  <2>7. ASSUME NEW start \in unspent, ChargeAbandoned(start) PROVE UNCHANGED <<pods, guard, unlisted, slot>>
    BY <2>7 DEF ChargeAbandoned
  <2>8. ASSUME NEW p \in Pod, RecordLeak(p) \/ AnnotateLeak(p)
        PROVE  UNCHANGED <<pods, guard, unlisted, slot>>
    BY <2>8 DEF RecordLeak, AnnotateLeak
  <2> QED
    BY <2>1, <2>2, <2>3, <2>4, <2>5, <2>6, <2>7, <2>8 DEF Next, Process
<1>12. Allowed
  <2>1. CASE \E next : CloseSlot(next)
    BY <1>5, <2>1
  <2>2. CASE \E p \in Pod : CreatePod(p) \/ CreateAnswerLost(p)
    BY <1>6, <1>7, <2>2
  <2> QED
    BY <1>1, <1>2, <1>3, <1>4, <1>8, <1>9, <1>10, <1>11, <2>1, <2>2
<1> QED
  BY <1>12

(* The orchestrator implements PodCustody: its pods are rented one at a     *)
(* time, parked, reused and let go as that specification allows.            *)
THEOREM Implements == Spec => ImplementsCustody
<1>1. Init => Custody!Init
  BY DEF Init, Custody!Init, CustodyOf
<1>2. IInv /\ [Next]_vars => [Custody!Next]_([p \in Pod |-> CustodyOf(p)])
  BY CustodyNextStep
<1> QED
  BY Inductive, <1>1, <1>2, PTL DEF Spec, ImplementsCustody, Custody!Spec

=============================================================================
