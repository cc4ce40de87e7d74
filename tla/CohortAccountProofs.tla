------------------------- MODULE CohortAccountProofs -------------------------
(***************************************************************************)
(* Proofs about what CohortExecution charges and owes.  First that a pod   *)
(* which could not be terminated has an open-ended hold when the process   *)
(* ends: LeakInv follows such a pod from the failed teardown to its hold;  *)
(* it waits in one of the places LeakPending names.  Then that the account *)
(* is the bill, and that nothing is rented on an overspent one.            *)
(***************************************************************************)
EXTENDS CohortExecutionProofs, FoldLemmas

(* The pod's leak hold is open and names it.                                *)
LeakHeld(p) == IsOpen(LeakLabel(p)) /\ holds[LeakLabel(p)].pod = p

(* Where a leaked pod waits for its hold, or for its charge as abandoned.  *)
LeakPending(p) ==
  \/ p \in leaks \/ p \in closedLeaks \/ p = leaked
  \/ pc \in {"switchSettle", "poolSettle"} /\ p = closing
  \/ \E start \in unspent : start.pod = p
  \/ pc = "teardown" /\ ~reused /\ \E start \in starts : start.pod = p

LeakCovered(p) == LeakHeld(p) \/ paid[p] > 0 \/ LeakPending(p)

(* Nothing waits where nobody looks for it any more.                       *)
WaitingInv ==
  /\ \A p \in leakLog : p \in Pod /\ pods[p] # "fresh"
  /\ launches = 0 => pc = "down" /\ Billing = {} /\ leakLog = {}
  /\ pc = "replay" /\ launches = 1 => leakLog = {}
  /\ leaks # {} => pc \in {"record", "recordAnnotate"}
  /\ closedLeaks # {} =>
       /\ pc \notin {"down", "poolClose", "poolSettle", "exit"}
       /\ pc \in {"record", "recordAnnotate"} => after \notin {"poolClose", "exit"}

CoverInv ==
  launches = 1 /\ pc # "down" /\ ~Overspent =>
    \A p \in leakLog \cap Billing : LeakCovered(p)

LeakInv == WaitingInv /\ CoverInv

-----------------------------------------------------------------------------
(* Nothing has leaked before the run.                                       *)
LEMMA LeakInit == Init => LeakInv
  BY DEF Init, BudgetInit, LeakInv, WaitingInv, CoverInv, Billing

(* What waits stays where the code looks for it.                            *)
LEMMA WaitingNext == ASSUME IInv, WaitingInv, [Next]_vars PROVE WaitingInv'
<1> USE NoPodAssumption
<1> USE DEF IInv, TypeOK, ProcessTypeOK, CustodyInv, Billing, WaitingInv, AtPod, MayPark,
    InClosing,
            providerVars, loopVars, solutionVars, poolVars, historyVars, boundVars
<1>1. CASE Launch
  BY <1>1 DEF Launch
<1>2. CASE ReplayDone
  BY <1>2 DEF ReplayDone
<1>3. CASE Exit
  BY <1>3 DEF Exit, ForgetProcess
<1>4. ASSUME NEW l \in Label, ReplayOpenHold(l) PROVE WaitingInv'
  BY <1>4 DEF ReplayOpenHold
<1>5. ASSUME NEW s \in Solution, StartSolution(s) PROVE WaitingInv'
  BY <1>5 DEF StartSolution
<1>6. CASE AcquireParked
  BY <1>6 DEF AcquireParked, StopOverspent
<1>7. CASE AcquireClosesOther
  BY <1>7 DEF AcquireClosesOther, CloseSlot, Terminated, NotTerminated, NotRecorded
<1>8. CASE AcquireAfterClose
  BY <1>8 DEF AcquireAfterClose, StopOverspent
<1>9. CASE AcquireNew
  BY <1>9 DEF AcquireNew
<1>10. ASSUME NEW q \in Pod, CreatePod(q) PROVE WaitingInv'
  BY <1>10 DEF CreatePod
<1>11. ASSUME NEW q \in Pod, CreateAnswerLost(q) PROVE WaitingInv'
  BY <1>11 DEF CreateAnswerLost
<1>12. CASE CreateFails
  BY <1>12 DEF CreateFails
<1>13. CASE AbandonStart
  BY <1>13 DEF AbandonStart, Terminated, NotTerminated, NotRecorded
<1>14. CASE StartEnds
  BY <1>14 DEF StartEnds
<1>15. CASE AnnotateRun
  BY <1>15 DEF AnnotateRun
<1>16. CASE Measured
  BY <1>16 DEF Measured
<1>17. CASE KeepHolds
  BY <1>17 DEF KeepHolds
<1>18. CASE KeepParks
  BY <1>18 DEF KeepParks
<1>19. CASE KeepRefused
  BY <1>19 DEF KeepRefused
<1>20. CASE TeardownTarget
  BY <1>20 DEF TeardownTarget, Terminated, NotTerminated, NotRecorded
<1>21. ASSUME NEW start \in unspent, ChargeAbandoned(start) PROVE WaitingInv'
  BY <1>21 DEF ChargeAbandoned
<1>22. CASE SettleRun
  BY <1>22 DEF SettleRun, StopOverspent
<1>23. ASSUME NEW q \in Pod, RecordLeak(q) PROVE WaitingInv'
  BY <1>23 DEF RecordLeak
<1>24. ASSUME NEW q \in Pod, AnnotateLeak(q) PROVE WaitingInv'
  BY <1>24 DEF AnnotateLeak
<1>25. CASE LeaksRecorded
  BY <1>25 DEF LeaksRecorded
<1>26. CASE IterationEnd
  BY <1>26 DEF IterationEnd
<1>27. CASE PlansDone
  BY <1>27 DEF PlansDone
<1>28. CASE ClosePoolSwitches
  BY <1>28 DEF ClosePoolSwitches
<1>29. CASE ClosePoolTearsDown
  BY <1>29 DEF ClosePoolTearsDown, CloseSlot, Terminated, NotTerminated, NotRecorded
<1>30. CASE ClosePoolSettles
  BY <1>30 DEF ClosePoolSettles
<1>31. CASE ClosePoolEmpty
  BY <1>31 DEF ClosePoolEmpty
<1>32. CASE Crash
  BY <1>32 DEF Crash, ForgetProcess
<1>33. CASE Tick
  BY <1>33 DEF Tick
<1>34. CASE UNCHANGED vars
  BY <1>34 DEF vars
<1> HIDE DEF IInv, WaitingInv
<1> QED
  BY <1>1, <1>2, <1>3, <1>4, <1>5, <1>6, <1>7, <1>8, <1>9, <1>10, <1>11, <1>12,
     <1>13, <1>14, <1>15, <1>16, <1>17, <1>18, <1>19, <1>20, <1>21, <1>22, <1>23,
     <1>24, <1>25, <1>26, <1>27, <1>28, <1>29, <1>30, <1>31, <1>32, <1>33, <1>34
  DEF Next, Process

(* A leak's hold is not touched by an operation on another label.           *)
LEMMA LeakHeldKept ==
  ASSUME IInv, NEW p \in Pod, LeakHeld(p), NEW l \in Label, l # LeakLabel(p), NEW n, NEW q,
         OpenHold(l, n) \/ OpenEndedHold(l, n) \/ AnnotateHold(l, q) \/ Settle(l, n)
  PROVE  LeakHeld(p)'
<1>1. TypeOK /\ LeakLabel(p) \in Label \ {l}
  BY LabelFacts DEF IInv
<1>2. holds'[LeakLabel(p)] = holds[LeakLabel(p)]
  BY <1>1, OpenEffect, AnnotateEffect, SettleEffect
<1> QED
  BY <1>2 DEF LeakHeld, IsOpen

(* A candidate that has its pod guards it and works for a solution.         *)
LEMMA AtPodFacts ==
  ASSUME IInv, pc \in AtPod
  PROVE  target \in Pod /\ target \in guard /\ sp \in Solution
  BY NoPodAssumption DEF IInv, TypeOK, ProcessTypeOK, CustodyInv, HoldInv, InCandidate

(* A leak label is neither an idle label nor a run label.                   *)
LEMMA LeakLabelDiffers ==
  /\ \A p, q : LeakLabel(p) = LeakLabel(q) => p = q
  /\ \A p, q : LeakLabel(p) # IdleLabel(q)
  /\ \A p, s : LeakLabel(p) # RunLabel(s)
  BY DEF LeakLabel, IdleLabel, RunLabel

(* A settle only adds to what is spent.                                     *)
LEMMA StaysOverspent ==
  ASSUME IInv, NEW l, NEW n \in Nat, Settle(l, n), ~Overspent'
  PROVE  ~Overspent
  BY AuthorizedAssumption DEF IInv, TypeOK, BudgetTypeOK, Settle, Overspent

(* Every leaked pod has its hold or its charge, or waits for one.           *)
LEMMA CoverNext == ASSUME IInv, LeakInv, [Next]_vars PROVE CoverInv'
<1> SUFFICES ASSUME NEW p \in Pod, launches' = 1, pc' # "down", ~Overspent',
                    p \in leakLog', pods'[p] = "billing"
             PROVE  LeakCovered(p)'
  BY WaitingNext DEF CoverInv, LeakInv, WaitingInv, Billing
<1> USE NoPodAssumption
<1> USE DEF IInv, TypeOK, ProcessTypeOK, BudgetTypeOK, CustodyInv, Billing, LeakInv, WaitingInv,
    CoverInv,
            LeakCovered, LeakHeld, LeakPending, IsOpen, Overspent, budgetVars,
            providerVars, loopVars, solutionVars, poolVars, historyVars, boundVars
<1>1. CASE Launch
  BY <1>1 DEF Launch
<1>2. CASE ReplayDone
  BY <1>2 DEF ReplayDone
<1>3. CASE Exit
  BY <1>3 DEF Exit, ForgetProcess
<1>4. ASSUME NEW l \in Label, ReplayOpenHold(l) PROVE LeakCovered(p)'
  BY <1>4 DEF ReplayOpenHold
<1>5. ASSUME NEW s \in Solution, StartSolution(s) PROVE LeakCovered(p)'
  <2>1. OpenHold(RunLabel(s), Estimate[s])
    BY <1>5 DEF StartSolution
  <2>2. RunLabel(s) \in Label /\ LeakLabel(p) # RunLabel(s)
    BY <1>5, LabelFacts, LeakLabelDiffers DEF StartSolution
  <2>3. LeakHeld(p) => LeakHeld(p)'
    <3> HIDE DEF IInv, LeakHeld
    <3> QED
      BY <2>1, <2>2, LeakHeldKept
  <2>4. ~Overspent
    BY <2>1 DEF OpenHold
  <2>5. LeakCovered(p)
    BY <1>5, <2>4 DEF StartSolution
  <2> HIDE DEF LeakHeld, Overspent
  <2> QED
    BY <1>5, <2>3, <2>4, <2>5 DEF StartSolution
<1>6. CASE AcquireParked
  <2>1. Settle(IdleLabel(slot), idle) /\ idle \in Nat
    BY <1>6 DEF AcquireParked, StopOverspent
  <2>2. IdleLabel(slot) \in Label /\ LeakLabel(p) # IdleLabel(slot)
    BY <1>6, LabelFacts, LeakLabelDiffers DEF AcquireParked, StopOverspent
  <2>3. LeakHeld(p) => LeakHeld(p)'
    <3> HIDE DEF IInv, LeakHeld
    <3> QED
      BY <2>1, <2>2, LeakHeldKept
  <2>4. ~Overspent
    <3> HIDE DEF IInv, Overspent
    <3> QED
      BY <2>1, StaysOverspent
  <2>5. LeakCovered(p)
    BY <1>6, <2>4 DEF AcquireParked, StopOverspent
  <2> HIDE DEF LeakHeld, Overspent
  <2> QED
    BY <1>6, <2>3, <2>4, <2>5 DEF AcquireParked, StopOverspent
<1>7. CASE AcquireClosesOther
  BY <1>7 DEF AcquireClosesOther, CloseSlot, Terminated, NotTerminated, NotRecorded
<1>8. CASE AcquireAfterClose
  <2>1. Settle(IdleLabel(closing), idle) /\ idle \in Nat
    BY <1>8 DEF AcquireAfterClose, StopOverspent
  <2>2. IdleLabel(closing) \in Label /\ LeakLabel(p) # IdleLabel(closing)
    BY <1>8, LabelFacts, LeakLabelDiffers DEF AcquireAfterClose, StopOverspent
  <2>3. LeakHeld(p) => LeakHeld(p)'
    <3> HIDE DEF IInv, LeakHeld
    <3> QED
      BY <2>1, <2>2, LeakHeldKept
  <2>4. ~Overspent
    <3> HIDE DEF IInv, Overspent
    <3> QED
      BY <2>1, StaysOverspent
  <2>5. LeakCovered(p)
    BY <1>8, <2>4 DEF AcquireAfterClose, StopOverspent
  <2> HIDE DEF LeakHeld, Overspent
  <2> QED
    BY <1>8, <2>3, <2>4, <2>5 DEF AcquireAfterClose, StopOverspent
<1>9. CASE AcquireNew
  BY <1>9 DEF AcquireNew
<1>10. ASSUME NEW q \in Pod, CreatePod(q) PROVE LeakCovered(p)'
  BY <1>10 DEF CreatePod
<1>11. ASSUME NEW q \in Pod, CreateAnswerLost(q) PROVE LeakCovered(p)'
  BY <1>11 DEF CreateAnswerLost
<1>12. CASE CreateFails
  BY <1>12 DEF CreateFails
<1>13. CASE AbandonStart
  <2>1. /\ pc = "starting" /\ target \in Pod /\ ~reused
        /\ UNCHANGED <<budgetVars, leaks, closedLeaks, leaked, unspent, reused, paid, launches>>
        /\ starts' = starts \cup {[pod |-> target, seconds |-> bill[target]]}
    <3>1. pc = "starting" /\ pc \in AtPod /\ ~reused
      BY <1>13 DEF AbandonStart, ChargeInv, AtPod
    <3>2. target \in Pod
      <4> HIDE DEF IInv, AtPod
      <4> QED
        BY <3>1, AtPodFacts
    <3> QED
      BY <1>13, <3>1, <3>2 DEF AbandonStart
  <2>2. CASE p = target
    <3>1. pc' = "teardown"
      BY <1>13, <2>1, <2>2 DEF AbandonStart, Terminated, NotTerminated, NotRecorded
    <3>2. [pod |-> target, seconds |-> bill[target]].pod = p
      BY <2>2
    <3> HIDE DEF IInv
    <3> QED
      BY <2>1, <3>1, <3>2
  <2>3. CASE p # target
    <3>1. pods[p] = "billing" /\ p \in leakLog
      BY <1>13, <2>1, <2>3 DEF AbandonStart, Terminated, NotTerminated, NotRecorded
    <3>2. LeakCovered(p)
      BY <1>13, <2>1, <3>1
    <3>3. LeakHeld(p) => LeakHeld(p)'
      BY <2>1
    <3> HIDE DEF IInv, LeakHeld
    <3> QED
      BY <2>1, <3>2, <3>3
  <2> QED
    BY <2>2, <2>3
<1>14. CASE StartEnds
  BY <1>14 DEF StartEnds
<1>15. CASE AnnotateRun
  <2>1. AnnotateHold(RunLabel(sp), target)
    BY <1>15 DEF AnnotateRun
  <2>2. RunLabel(sp) \in Label /\ LeakLabel(p) # RunLabel(sp)
    <3>1. pc \in AtPod
      BY <1>15 DEF AnnotateRun, AtPod
    <3> HIDE DEF IInv
    <3> QED
      BY <3>1, AtPodFacts, LabelFacts, LeakLabelDiffers
  <2>3. LeakHeld(p) => LeakHeld(p)'
    <3> HIDE DEF IInv, LeakHeld
    <3> QED
      BY <2>1, <2>2, LeakHeldKept
  <2>4. ~Overspent
    BY <2>1 DEF AnnotateHold
  <2>5. LeakCovered(p)
    BY <1>15, <2>4 DEF AnnotateRun
  <2> HIDE DEF LeakHeld, Overspent
  <2> QED
    BY <1>15, <2>3, <2>4, <2>5 DEF AnnotateRun
<1>16. CASE Measured
  BY <1>16 DEF Measured
<1>17. CASE KeepHolds
  <2>1. OpenHold(IdleLabel(target), IdleEstimate)
    BY <1>17 DEF KeepHolds
  <2>2. IdleLabel(target) \in Label /\ LeakLabel(p) # IdleLabel(target)
    <3>1. pc \in AtPod
      BY <1>17 DEF KeepHolds, AtPod
    <3> HIDE DEF IInv
    <3> QED
      BY <3>1, AtPodFacts, LabelFacts, LeakLabelDiffers
  <2>3. LeakHeld(p) => LeakHeld(p)'
    <3> HIDE DEF IInv, LeakHeld
    <3> QED
      BY <2>1, <2>2, LeakHeldKept
  <2>4. ~Overspent
    BY <2>1 DEF OpenHold
  <2>5. LeakCovered(p)
    BY <1>17, <2>4 DEF KeepHolds
  <2> HIDE DEF LeakHeld, Overspent
  <2> QED
    BY <1>17, <2>3, <2>4, <2>5 DEF KeepHolds
<1>18. CASE KeepParks
  <2>1. AnnotateHold(IdleLabel(target), target)
    BY <1>18 DEF KeepParks
  <2>2. IdleLabel(target) \in Label /\ LeakLabel(p) # IdleLabel(target)
    <3>1. pc \in AtPod
      BY <1>18 DEF KeepParks, AtPod
    <3> HIDE DEF IInv
    <3> QED
      BY <3>1, AtPodFacts, LabelFacts, LeakLabelDiffers
  <2>3. LeakHeld(p) => LeakHeld(p)'
    <3> HIDE DEF IInv, LeakHeld
    <3> QED
      BY <2>1, <2>2, LeakHeldKept
  <2>4. ~Overspent
    BY <2>1 DEF AnnotateHold
  <2>5. LeakCovered(p)
    BY <1>18, <2>4 DEF KeepParks
  <2> HIDE DEF LeakHeld, Overspent
  <2> QED
    <3>1. /\ pc = "keepAnnotate" /\ pc' = "charge"
          /\ UNCHANGED <<leaks, closedLeaks, leaked, paid>>
      BY <1>18 DEF KeepParks
    <3>2. leaked = NoPod /\ unspent = {}
      BY <3>1 DEF OpenInv, ChargeInv
    <3>3. p # NoPod
      OBVIOUS
    <3> HIDE DEF IInv
    <3> QED
      BY <2>3, <2>5, <3>1, <3>2, <3>3
<1>19. CASE KeepRefused
  BY <1>19 DEF KeepRefused
<1>20. CASE TeardownTarget
  <2>1. /\ pc = "teardown" /\ pc' = "charge" /\ leaked = NoPod /\ p # NoPod
        /\ UNCHANGED <<budgetVars, leaks, closedLeaks, starts, paid, launches>>
        /\ unspent = {} /\ unspent' = StartsToCharge
    BY <1>20 DEF TeardownTarget, OpenInv, ChargeInv
  <2>2. CASE p \in leakLog
    <3>1. pods[p] = "billing"
      BY <1>20 DEF TeardownTarget, Terminated, NotTerminated, NotRecorded
    <3>2. LeakCovered(p)
      BY <2>1, <2>2, <3>1
    <3>3. LeakHeld(p) => LeakHeld(p)'
      BY <2>1
    <3> HIDE DEF IInv, LeakHeld
    <3> QED
      BY <2>1, <3>2, <3>3 DEF StartsToCharge
  <2>3. CASE p \notin leakLog
    BY <1>20, <2>3 DEF TeardownTarget, Terminated, NotTerminated, NotRecorded
  <2> QED
    BY <2>2, <2>3
<1>21. ASSUME NEW start \in unspent, ChargeAbandoned(start) PROVE LeakCovered(p)'
  <2>1. start.pod \in Pod /\ start.seconds \in Nat
    BY <1>21 DEF StartReport
  <2>2. ~Overspent
    BY <1>21, <2>1, AuthorizedAssumption DEF ChargeAbandoned, RecordPodSpend
  <2>3. LeakCovered(p)
    BY <1>21, <2>2 DEF ChargeAbandoned
  <2>4. LeakHeld(p) => LeakHeld(p)'
    BY <1>21 DEF ChargeAbandoned, RecordPodSpend, IsOpen
  <2>5. pc = "charge" /\ pc' = "charge" /\ paid' = [paid EXCEPT ![start.pod] = @ + 1]
        /\ unspent' = unspent \ {start} /\ UNCHANGED <<leaks, closedLeaks, leaked>>
    BY <1>21 DEF ChargeAbandoned
  <2>6. CASE start.pod = p
    BY <2>1, <2>5, <2>6
  <2>7. CASE start.pod # p
    <3> HIDE DEF LeakHeld, IInv, Overspent
    <3> QED
      BY <2>1, <2>3, <2>4, <2>5, <2>7
  <2> QED
    BY <2>6, <2>7
<1>22. CASE SettleRun
  <2>1. Settle(RunLabel(sp), RunCharge) /\ RunCharge \in Nat
    BY <1>22 DEF SettleRun, StopOverspent, RunCharge
  <2>2. RunLabel(sp) \in Label /\ LeakLabel(p) # RunLabel(sp)
    BY <1>22, LabelFacts, LeakLabelDiffers DEF SettleRun, StopOverspent, HoldInv, InCandidate
  <2>3. LeakHeld(p) => LeakHeld(p)'
    <3> HIDE DEF IInv, LeakHeld
    <3> QED
      BY <2>1, <2>2, LeakHeldKept
  <2>4. ~Overspent
    <3> HIDE DEF IInv, Overspent
    <3> QED
      BY <2>1, StaysOverspent
  <2>5. LeakCovered(p)
    BY <1>22, <2>4 DEF SettleRun, StopOverspent
  <2> HIDE DEF LeakHeld, Overspent
  <2> QED
    BY <1>22, <2>3, <2>4, <2>5 DEF SettleRun, StopOverspent
<1>23. ASSUME NEW q \in Pod, RecordLeak(q) PROVE LeakCovered(p)'
  <2>1. ~Overspent
    BY <1>23 DEF RecordLeak, OpenEndedHold
  <2>2. LeakCovered(p)
    BY <1>23, <2>1 DEF RecordLeak
  <2>3. CASE p = q
    BY <1>23, <2>3 DEF RecordLeak
  <2>4. CASE p # q
    <3>1. LeakHeld(p) => LeakHeld(p)'
      <4>1. OpenEndedHold(LeakLabel(q), HourlyRate) /\ LeakLabel(q) \in Label
          /\ LeakLabel(q) # LeakLabel(p)
        BY <1>23, <2>4, LabelFacts, LeakLabelDiffers DEF RecordLeak
      <4> HIDE DEF IInv, LeakHeld
      <4> QED
        BY <4>1, LeakHeldKept
    <3> HIDE DEF LeakHeld, Overspent
    <3> QED
      BY <1>23, <2>2, <3>1 DEF RecordLeak
  <2> QED
    BY <2>3, <2>4
<1>24. ASSUME NEW q \in Pod, AnnotateLeak(q) PROVE LeakCovered(p)'
  <2>1. ~Overspent
    BY <1>24 DEF AnnotateLeak, AnnotateHold
  <2>2. LeakCovered(p)
    BY <1>24, <2>1 DEF AnnotateLeak
  <2>3. CASE p = q
    BY <1>24, <2>3, LabelFacts, AnnotateEffect DEF AnnotateLeak
  <2>4. CASE p # q
    <3>1. LeakHeld(p) => LeakHeld(p)'
      <4>1. AnnotateHold(LeakLabel(q), q) /\ LeakLabel(q) \in Label /\ LeakLabel(q) # LeakLabel(p)
        BY <1>24, <2>4, LabelFacts, LeakLabelDiffers DEF AnnotateLeak
      <4> HIDE DEF IInv, LeakHeld
      <4> QED
        BY <4>1, LeakHeldKept
    <3> HIDE DEF LeakHeld, Overspent
    <3> QED
      BY <1>24, <2>2, <2>4, <3>1 DEF AnnotateLeak
  <2> QED
    BY <2>3, <2>4
<1>25. CASE LeaksRecorded
  BY <1>25 DEF LeaksRecorded
<1>26. CASE IterationEnd
  BY <1>26 DEF IterationEnd
<1>27. CASE PlansDone
  BY <1>27 DEF PlansDone
<1>28. CASE ClosePoolSwitches
  BY <1>28 DEF ClosePoolSwitches
<1>29. CASE ClosePoolTearsDown
  BY <1>29 DEF ClosePoolTearsDown, CloseSlot, Terminated, NotTerminated, NotRecorded
<1>30. CASE ClosePoolSettles
  <2>1. Settle(IdleLabel(closing), idle) /\ idle \in Nat
    BY <1>30 DEF ClosePoolSettles
  <2>2. IdleLabel(closing) \in Label /\ LeakLabel(p) # IdleLabel(closing)
    BY <1>30, LabelFacts, LeakLabelDiffers DEF ClosePoolSettles
  <2>3. LeakHeld(p) => LeakHeld(p)'
    <3> HIDE DEF IInv, LeakHeld
    <3> QED
      BY <2>1, <2>2, LeakHeldKept
  <2>4. ~Overspent
    <3> HIDE DEF IInv, Overspent
    <3> QED
      BY <2>1, StaysOverspent
  <2>5. LeakCovered(p)
    BY <1>30, <2>4 DEF ClosePoolSettles
  <2> HIDE DEF LeakHeld, Overspent
  <2> QED
    BY <1>30, <2>3, <2>4, <2>5 DEF ClosePoolSettles
<1>31. CASE ClosePoolEmpty
  BY <1>31 DEF ClosePoolEmpty
<1>32. CASE Crash
  BY <1>32 DEF Crash, ForgetProcess
<1>33. CASE Tick
  BY <1>33 DEF Tick
<1>34. CASE UNCHANGED vars
  BY <1>34 DEF vars
<1> HIDE DEF IInv, LeakInv, LeakCovered
<1> QED
  BY <1>1, <1>2, <1>3, <1>4, <1>5, <1>6, <1>7, <1>8, <1>9, <1>10, <1>11, <1>12,
     <1>13, <1>14, <1>15, <1>16, <1>17, <1>18, <1>19, <1>20, <1>21, <1>22, <1>23,
     <1>24, <1>25, <1>26, <1>27, <1>28, <1>29, <1>30, <1>31, <1>32, <1>33, <1>34
  DEF Next, Process

-----------------------------------------------------------------------------
(* LeakHeldAtExit, for every value of the constants.                        *)
THEOREM LeaksHeld == Spec => []LeakHeldAtExit
<1>1. IInv /\ LeakInv /\ [Next]_vars => LeakInv'
  BY WaitingNext, CoverNext DEF LeakInv
<1>2. ASSUME IInv, LeakInv, pc = "exit", launches = 1, ~Overspent, NEW p \in leakLog \cap Billing
      PROVE  LeakHeld(p) \/ paid[p] > 0
  <2>1. leaks = {} /\ closedLeaks = {}
    BY <1>2 DEF LeakInv, WaitingInv
  <2>2. leaked = NoPod /\ p # NoPod
    BY <1>2, NoPodAssumption DEF IInv, OpenInv, Billing
  <2>3. unspent = {}
    BY <1>2 DEF IInv, ChargeInv
  <2>4. LeakCovered(p)
    BY <1>2 DEF LeakInv, CoverInv
  <2> QED
    BY <1>2, <2>1, <2>2, <2>3, <2>4 DEF LeakCovered, LeakPending
<1>3. IInv /\ LeakInv => LeakHeldAtExit
  BY <1>2 DEF LeakHeldAtExit, LeakHeld
<1> QED
  BY Inductive, LeakInit, <1>1, <1>3, PTL DEF Spec
-----------------------------------------------------------------------------
(***************************************************************************)
(* The account against the bills.  While nothing was lost (CleanRun), the  *)
(* first process's account is the bills less what is still to be charged:  *)
(* the candidate's time and the parked pod's idle time (BalanceInv).  The  *)
(* hold's settle charges a candidate's time less its abandoned starts; it  *)
(* never has to be cut off at zero, because the pods of those starts were  *)
(* billed within that time (ShareInv).                                     *)
(***************************************************************************)
Renting == AtPod \cup {"provision", "teardown"}

CleanRun == pc # "down" /\ launches = 1 /\ leakLog = {} /\ orphans = {} /\ unlisted = {}

PodsOf(reports) == {start.pod : start \in reports}

Share(b, Z) == [p \in Pod |-> IF p \in Z THEN b[p] ELSE 0]
Billed(b, Z) == SumFunction(Share(b, Z))

(* What the clocks of the candidate and of the parked pod show, and what    *)
(* the first process starts from.                                           *)
ClocksInv ==
  /\ pc \notin Renting \cup {"charge"} => elapsed = 0
  /\ pc # "charge" => abandoned = 0
  /\ slot = NoPod /\ pc \notin {"switchSettle", "poolSettle"} => idle = 0
  /\ \A p \in Pod : pods[p] = "fresh" => bill[p] = 0
  /\ launches = 0 => pc = "down"
  /\ launches = 0 \/ (launches = 1 /\ pc = "replay") =>
       /\ spent = 0 /\ starts = {} /\ \A l \in Label : ~IsOpen(l)
       /\ \A p \in Pod : pods[p] = "fresh"

(* A pod is looked for and rented on an account that is not overspent.      *)
AffordInv == pc \in {"acquire", "provision", "starting"} => ~Overspent

(* The pods of abandoned starts bill no more, once the final teardown ended *)
(* the one that the start itself could neither end nor list.                *)
Settled(start) ==
  /\ start.seconds = bill[start.pod]
  /\ pods[start.pod] = "gone" \/ (pc = "teardown" /\ start.pod = target)

StartsInv == CleanRun => \A start \in starts \cup unspent : Settled(start)

(* The pods this execution rented were billed within its time.              *)
ShareInv ==
  CleanRun =>
    /\ pc \in Renting /\ ~reused => Billed(bill, PodsOf(starts) \cup {target}) <= elapsed
    /\ pc = "charge" => abandoned + Billed(bill, PodsOf(unspent)) <= elapsed

BalanceInv == CleanRun => spent + elapsed - abandoned + idle = SumFunction(bill)

AccountInv == ClocksInv /\ AffordInv /\ StartsInv /\ ShareInv /\ BalanceInv

-----------------------------------------------------------------------------
(* Sums over labels and pods are sums over finite sets.                     *)
LEMMA LabelsFinite == IsFiniteSet(Label)
<1> DEFINE R == {RunLabel(s) : s \in Solution}
           I == {IdleLabel(p) : p \in Pod}
           L == {LeakLabel(p) : p \in Pod}
<1>1. IsFiniteSet(R)
  <2>1. [s \in Solution |-> RunLabel(s)] \in Surjection(Solution, R)
    BY DEF Surjection
  <2> QED
    BY <2>1, FiniteAssumption, FS_Surjection
<1>2. IsFiniteSet(I)
  <2>1. [p \in Pod |-> IdleLabel(p)] \in Surjection(Pod, I)
    BY DEF Surjection
  <2> QED
    BY <2>1, FiniteAssumption, FS_Surjection
<1>3. IsFiniteSet(L)
  <2>1. [p \in Pod |-> LeakLabel(p)] \in Surjection(Pod, L)
    BY DEF Surjection
  <2> QED
    BY <2>1, FiniteAssumption, FS_Surjection
<1> HIDE DEF R, I, L
<1>4. IsFiniteSet((R \cup I) \cup L)
  BY <1>1, <1>2, <1>3, FS_Union
<1> QED
  BY <1>4, LabelAssumption DEF R, I, L

(* What is held is a natural number.                                        *)
LEMMA HeldNat == ASSUME TypeOK PROVE Held \in Nat
<1>1. [l \in Label |-> holds[l].estimate] \in [Label -> Nat]
  BY DEF TypeOK, BudgetTypeOK, HoldRecord
<1> QED
  BY <1>1, LabelsFinite, SumNat DEF Held

(* So is what pods billed.                                                  *)
LEMMA BilledNat == ASSUME NEW b \in [Pod -> Nat], NEW Z PROVE Billed(b, Z) \in Nat
<1>1. Share(b, Z) \in [Pod -> Nat]
  BY DEF Share
<1> QED
  BY <1>1, FiniteAssumption, SumNat DEF Billed

(* Bills of other pods do not matter.                                       *)
LEMMA BilledSame ==
  ASSUME NEW b, NEW Y, NEW Z, Y \cap Pod = Z \cap Pod PROVE Billed(b, Y) = Billed(b, Z)
<1>1. Share(b, Y) = Share(b, Z)
  BY DEF Share
<1> QED
  BY <1>1 DEF Billed

(* No pods, no bill.                                                        *)
LEMMA BilledNone ==
  ASSUME NEW b, NEW Z, Z \cap Pod = {} PROVE Billed(b, Z) = 0
<1>1. Share(b, Z) \in [Pod -> Int] /\ \A p \in Pod : Share(b, Z)[p] = 0
  BY DEF Share
<1> QED
  BY <1>1, FiniteAssumption, SumZero DEF Billed

(* One more pod adds its bill.                                              *)
LEMMA BilledAdd ==
  ASSUME NEW b \in [Pod -> Nat], NEW Z, NEW p \in Pod \ Z
  PROVE  Billed(b, Z \cup {p}) = Billed(b, Z) + b[p]
<1>1. Share(b, Z) \in [Pod -> Int] /\ Share(b, Z)[p] = 0
  BY DEF Share
<1>2. Share(b, Z \cup {p}) = [Share(b, Z) EXCEPT ![p] = b[p]]
  BY DEF Share
<1>3. b[p] \in Int /\ Billed(b, Z) \in Nat
  BY BilledNat
<1>4. SumFunction([Share(b, Z) EXCEPT ![p] = b[p]]) = SumFunction(Share(b, Z)) - Share(b, Z)[p] + b[p]
  BY <1>1, <1>3, FiniteAssumption, SumExcept
<1> QED
  BY <1>1, <1>2, <1>3, <1>4 DEF Billed

(* A part of the pods billed no more than all of them.                      *)
LEMMA BilledMore ==
  ASSUME NEW b \in [Pod -> Nat], NEW Z, NEW p PROVE Billed(b, Z) <= Billed(b, Z \cup {p})
<1>1. Billed(b, Z) \in Nat
  BY BilledNat
<1>2. CASE p \in Pod \ Z
  <2>1. Billed(b, Z \cup {p}) = Billed(b, Z) + b[p] /\ b[p] \in Nat
    BY <1>2, BilledAdd
  <2> QED
    BY <1>1, <2>1
<1>3. CASE p \notin Pod \ Z
  <2>1. (Z \cup {p}) \cap Pod = Z \cap Pod
    BY <1>3
  <2>2. Billed(b, Z \cup {p}) = Billed(b, Z)
    BY <2>1, BilledSame
  <2> QED
    BY <1>1, <2>2
<1> QED
  BY <1>2, <1>3

(* A tick of one pod is a tick of every sum it counts in.                   *)
LEMMA SumTicks ==
  ASSUME NEW b \in [Pod -> Nat], NEW p \in Pod
  PROVE  SumFunction([b EXCEPT ![p] = b[p] + 1]) = SumFunction(b) + 1
<1>1. b \in [Pod -> Int] /\ b[p] \in Int /\ b[p] + 1 \in Int
  OBVIOUS
<1>2. SumFunction(b) \in Nat
  BY FiniteAssumption, SumNat
<1>3. SumFunction([b EXCEPT ![p] = b[p] + 1]) = SumFunction(b) - b[p] + (b[p] + 1)
  BY <1>1, FiniteAssumption, SumExcept
<1> QED
  BY <1>1, <1>2, <1>3

(* Likewise for the bill of a set of pods.                                  *)
LEMMA BilledTicks ==
  ASSUME NEW b \in [Pod -> Nat], NEW Z, NEW p \in Pod \cap Z
  PROVE  Billed([b EXCEPT ![p] = b[p] + 1], Z) = Billed(b, Z) + 1
<1>1. Share(b, Z) \in [Pod -> Nat] /\ Share(b, Z)[p] = b[p]
  BY DEF Share
<1>2. Share([b EXCEPT ![p] = b[p] + 1], Z) = [Share(b, Z) EXCEPT ![p] = Share(b, Z)[p] + 1]
  BY <1>1 DEF Share
<1> QED
  BY <1>1, <1>2, SumTicks DEF Billed

-----------------------------------------------------------------------------
(* Nothing is lost again once it was found: a clean run was clean before,   *)
(* unless the step starts it.                                               *)
LEMMA CleanBefore ==
  ASSUME IInv, [Next]_vars, CleanRun' PROVE CleanRun \/ Launch
<1> USE DEF CleanRun, providerVars, loopVars, solutionVars, poolVars, historyVars, boundVars
<1>1. CASE Launch
  BY <1>1
<1>2. CASE ReplayDone
  BY <1>2 DEF ReplayDone
<1>3. CASE Exit
  BY <1>3 DEF Exit, ForgetProcess
<1>4. ASSUME NEW l \in Label, ReplayOpenHold(l) PROVE CleanRun \/ Launch
  BY <1>4 DEF ReplayOpenHold, ReplaySettle
<1>5. ASSUME NEW s \in Solution, StartSolution(s) PROVE CleanRun \/ Launch
  BY <1>5 DEF StartSolution, OpenHold
<1>6. CASE AcquireParked
  BY <1>6 DEF AcquireParked, StopOverspent, Settle
<1>7. CASE AcquireClosesOther
  BY <1>7 DEF AcquireClosesOther, CloseSlot, Terminated, NotTerminated, NotRecorded
<1>8. CASE AcquireAfterClose
  BY <1>8 DEF AcquireAfterClose, StopOverspent, Settle
<1>9. CASE AcquireNew
  BY <1>9 DEF AcquireNew
<1>10. ASSUME NEW q \in Pod, CreatePod(q) PROVE CleanRun \/ Launch
  BY <1>10 DEF CreatePod
<1>11. ASSUME NEW q \in Pod, CreateAnswerLost(q) PROVE CleanRun \/ Launch
  BY <1>11 DEF CreateAnswerLost
<1>12. CASE CreateFails
  BY <1>12 DEF CreateFails
<1>13. CASE AbandonStart
  BY <1>13 DEF AbandonStart, Terminated, NotTerminated, NotRecorded
<1>14. CASE StartEnds
  BY <1>14 DEF StartEnds
<1>15. CASE AnnotateRun
  BY <1>15 DEF AnnotateRun, AnnotateHold
<1>16. CASE Measured
  BY <1>16 DEF Measured
<1>17. CASE KeepHolds
  BY <1>17 DEF KeepHolds, OpenHold
<1>18. CASE KeepParks
  BY <1>18 DEF KeepParks, AnnotateHold, StartsToCharge
<1>19. CASE KeepRefused
  BY <1>19 DEF KeepRefused
<1>20. CASE TeardownTarget
  BY <1>20 DEF TeardownTarget, Terminated, NotTerminated, NotRecorded, StartsToCharge
<1>21. ASSUME NEW start \in unspent, ChargeAbandoned(start) PROVE CleanRun \/ Launch
  BY <1>21 DEF ChargeAbandoned, RecordPodSpend
<1>22. CASE SettleRun
  BY <1>22 DEF SettleRun, StopOverspent, Settle
<1>23. ASSUME NEW q \in Pod, RecordLeak(q) PROVE CleanRun \/ Launch
  BY <1>23 DEF RecordLeak, OpenEndedHold
<1>24. ASSUME NEW q \in Pod, AnnotateLeak(q) PROVE CleanRun \/ Launch
  BY <1>24 DEF AnnotateLeak, AnnotateHold
<1>25. CASE LeaksRecorded
  BY <1>25 DEF LeaksRecorded
<1>26. CASE IterationEnd
  BY <1>26 DEF IterationEnd
<1>27. CASE PlansDone
  BY <1>27 DEF PlansDone
<1>28. CASE ClosePoolSwitches
  BY <1>28 DEF ClosePoolSwitches
<1>29. CASE ClosePoolTearsDown
  BY <1>29 DEF ClosePoolTearsDown, CloseSlot, Terminated, NotTerminated, NotRecorded
<1>30. CASE ClosePoolSettles
  BY <1>30 DEF ClosePoolSettles, Settle
<1>31. CASE ClosePoolEmpty
  BY <1>31 DEF ClosePoolEmpty
<1>32. CASE Crash
  BY <1>32 DEF Crash, ForgetProcess
<1>33. CASE Tick
  BY <1>33 DEF Tick
<1>34. CASE UNCHANGED vars
  BY <1>34 DEF vars
<1> QED
  BY <1>1, <1>2, <1>3, <1>4, <1>5, <1>6, <1>7, <1>8, <1>9, <1>10, <1>11, <1>12, <1>13, <1>14,
     <1>15, <1>16, <1>17, <1>18, <1>19, <1>20, <1>21, <1>22, <1>23, <1>24, <1>25, <1>26, <1>27,
     <1>28, <1>29, <1>30, <1>31, <1>32, <1>33, <1>34
  DEF Next, Process

(* In a clean run at most one pod bills.                                    *)
LEMMA OneBills ==
  ASSUME IInv, CleanRun, Tick
  PROVE  \E q \in guard : q \in Pod /\ Billing = {q} /\ bill' = [bill EXCEPT ![q] = bill[q] + 1]
<1>1. Billing \subseteq guard /\ Billing # {} /\ guard \subseteq Pod
  BY DEF IInv, TypeOK, ProcessTypeOK, CustodyInv, PodAccounted, CleanRun, Tick
<1>2. PICK q \in guard : Billing = {q}
  BY <1>1 DEF IInv, CustodyInv, OneLivePod, CleanRun
<1>3. bill' = [bill EXCEPT ![q] = bill[q] + 1]
  BY <1>1, <1>2 DEF IInv, TypeOK, ProcessTypeOK, Tick, Billing
<1> QED
  BY <1>1, <1>2, <1>3

(* Nothing has happened yet in the initial state.                           *)
LEMMA AccountInit == Init => AccountInv
  BY DEF Init, BudgetInit, AccountInv, ClocksInv, AffordInv, StartsInv, ShareInv, BalanceInv,
      CleanRun, IsOpen, NoHold

(* Each step keeps the clocks.                                              *)
LEMMA ClocksNext == ASSUME IInv, ClocksInv, [Next]_vars PROVE ClocksInv'
<1> USE NoPodAssumption
<1> USE DEF IInv, TypeOK, ProcessTypeOK, BudgetTypeOK, CustodyInv, Billing, ClocksInv, Renting,
    AtPod, MayPark, InClosing,
            IsOpen, budgetVars, providerVars, loopVars, solutionVars, poolVars, historyVars, boundVars
<1>1. CASE Launch
  BY <1>1 DEF Launch
<1>2. CASE ReplayDone
  BY <1>2 DEF ReplayDone
<1>3. CASE Exit
  BY <1>3 DEF Exit, ForgetProcess
<1>4. ASSUME NEW l \in Label, ReplayOpenHold(l) PROVE ClocksInv'
  BY <1>4 DEF ReplayOpenHold, ReplaySettle
<1>5. ASSUME NEW s \in Solution, StartSolution(s) PROVE ClocksInv'
  BY <1>5 DEF StartSolution, OpenHold
<1>6. CASE AcquireParked
  BY <1>6 DEF AcquireParked, StopOverspent, Settle
<1>7. CASE AcquireClosesOther
  BY <1>7 DEF AcquireClosesOther, CloseSlot, Terminated, NotTerminated, NotRecorded
<1>8. CASE AcquireAfterClose
  BY <1>8 DEF AcquireAfterClose, StopOverspent, Settle
<1>9. CASE AcquireNew
  BY <1>9 DEF AcquireNew
<1>10. ASSUME NEW q \in Pod, CreatePod(q) PROVE ClocksInv'
  BY <1>10 DEF CreatePod
<1>11. ASSUME NEW q \in Pod, CreateAnswerLost(q) PROVE ClocksInv'
  BY <1>11 DEF CreateAnswerLost
<1>12. CASE CreateFails
  BY <1>12 DEF CreateFails
<1>13. CASE AbandonStart
  BY <1>13 DEF AbandonStart, Terminated, NotTerminated, NotRecorded
<1>14. CASE StartEnds
  BY <1>14 DEF StartEnds
<1>15. CASE AnnotateRun
  BY <1>15 DEF AnnotateRun, AnnotateHold
<1>16. CASE Measured
  BY <1>16 DEF Measured
<1>17. CASE KeepHolds
  BY <1>17 DEF KeepHolds, OpenHold
<1>18. CASE KeepParks
  BY <1>18 DEF KeepParks, AnnotateHold, StartsToCharge
<1>19. CASE KeepRefused
  BY <1>19 DEF KeepRefused
<1>20. CASE TeardownTarget
  BY <1>20 DEF TeardownTarget, Terminated, NotTerminated, NotRecorded, StartsToCharge
<1>21. ASSUME NEW start \in unspent, ChargeAbandoned(start) PROVE ClocksInv'
  BY <1>21 DEF ChargeAbandoned, RecordPodSpend
<1>22. CASE SettleRun
  BY <1>22 DEF SettleRun, StopOverspent, Settle
<1>23. ASSUME NEW q \in Pod, RecordLeak(q) PROVE ClocksInv'
  BY <1>23 DEF RecordLeak, OpenEndedHold
<1>24. ASSUME NEW q \in Pod, AnnotateLeak(q) PROVE ClocksInv'
  BY <1>24 DEF AnnotateLeak, AnnotateHold
<1>25. CASE LeaksRecorded
  BY <1>25 DEF LeaksRecorded
<1>26. CASE IterationEnd
  BY <1>26 DEF IterationEnd
<1>27. CASE PlansDone
  BY <1>27 DEF PlansDone
<1>28. CASE ClosePoolSwitches
  BY <1>28 DEF ClosePoolSwitches
<1>29. CASE ClosePoolTearsDown
  BY <1>29 DEF ClosePoolTearsDown, CloseSlot, Terminated, NotTerminated, NotRecorded
<1>30. CASE ClosePoolSettles
  BY <1>30 DEF ClosePoolSettles, Settle
<1>31. CASE ClosePoolEmpty
  BY <1>31 DEF ClosePoolEmpty
<1>32. CASE Crash
  BY <1>32 DEF Crash, ForgetProcess
<1>33. CASE Tick
  BY <1>33 DEF Tick
<1>34. CASE UNCHANGED vars
  BY <1>34 DEF vars
<1> HIDE DEF IInv, ClocksInv
<1> QED
  BY <1>1, <1>2, <1>3, <1>4, <1>5, <1>6, <1>7, <1>8, <1>9, <1>10, <1>11, <1>12, <1>13, <1>14,
     <1>15, <1>16, <1>17, <1>18, <1>19, <1>20, <1>21, <1>22, <1>23, <1>24, <1>25, <1>26, <1>27,
     <1>28, <1>29, <1>30, <1>31, <1>32, <1>33, <1>34
  DEF Next, Process

(* Each step keeps the account affordable up to the rent.                   *)
LEMMA AffordNext == ASSUME IInv, AffordInv, [Next]_vars PROVE AffordInv'
<1> USE DEF AffordInv, Overspent, budgetVars, providerVars, loopVars, solutionVars, poolVars,
    historyVars, boundVars
<1>1. CASE Launch
  BY <1>1 DEF Launch
<1>2. CASE ReplayDone
  BY <1>2 DEF ReplayDone
<1>3. CASE Exit
  BY <1>3 DEF Exit, ForgetProcess
<1>4. ASSUME NEW l \in Label, ReplayOpenHold(l) PROVE AffordInv'
  BY <1>4 DEF ReplayOpenHold, ReplaySettle
<1>5. ASSUME NEW s \in Solution, StartSolution(s) PROVE AffordInv'
  <2>1. Held \in Nat /\ spent \in Nat /\ Estimate[s] \in Nat /\ Authorized \in Nat
    BY HeldNat, PlanAssumption, AuthorizedAssumption DEF IInv, TypeOK, BudgetTypeOK
  <2>2. spent + Held + Estimate[s] <= Authorized /\ spent' = spent
    BY <1>5 DEF StartSolution, OpenHold, CanAfford
  <2> QED
    BY <2>1, <2>2
<1>6. CASE AcquireParked
  BY <1>6 DEF AcquireParked, StopOverspent, Settle
<1>7. CASE AcquireClosesOther
  BY <1>7 DEF AcquireClosesOther, CloseSlot, Terminated, NotTerminated, NotRecorded
<1>8. CASE AcquireAfterClose
  BY <1>8 DEF AcquireAfterClose, StopOverspent, Settle
<1>9. CASE AcquireNew
  BY <1>9 DEF AcquireNew
<1>10. ASSUME NEW q \in Pod, CreatePod(q) PROVE AffordInv'
  BY <1>10 DEF CreatePod
<1>11. ASSUME NEW q \in Pod, CreateAnswerLost(q) PROVE AffordInv'
  BY <1>11 DEF CreateAnswerLost
<1>12. CASE CreateFails
  BY <1>12 DEF CreateFails
<1>13. CASE AbandonStart
  BY <1>13 DEF AbandonStart, Terminated, NotTerminated, NotRecorded
<1>14. CASE StartEnds
  BY <1>14 DEF StartEnds
<1>15. CASE AnnotateRun
  BY <1>15 DEF AnnotateRun, AnnotateHold
<1>16. CASE Measured
  BY <1>16 DEF Measured
<1>17. CASE KeepHolds
  BY <1>17 DEF KeepHolds, OpenHold
<1>18. CASE KeepParks
  BY <1>18 DEF KeepParks, AnnotateHold, StartsToCharge
<1>19. CASE KeepRefused
  BY <1>19 DEF KeepRefused
<1>20. CASE TeardownTarget
  BY <1>20 DEF TeardownTarget, Terminated, NotTerminated, NotRecorded, StartsToCharge
<1>21. ASSUME NEW start \in unspent, ChargeAbandoned(start) PROVE AffordInv'
  BY <1>21 DEF ChargeAbandoned, RecordPodSpend
<1>22. CASE SettleRun
  BY <1>22 DEF SettleRun, StopOverspent, Settle
<1>23. ASSUME NEW q \in Pod, RecordLeak(q) PROVE AffordInv'
  BY <1>23 DEF RecordLeak, OpenEndedHold
<1>24. ASSUME NEW q \in Pod, AnnotateLeak(q) PROVE AffordInv'
  BY <1>24 DEF AnnotateLeak, AnnotateHold
<1>25. CASE LeaksRecorded
  BY <1>25 DEF LeaksRecorded, IInv, TypeOK, ProcessTypeOK
<1>26. CASE IterationEnd
  BY <1>26 DEF IterationEnd
<1>27. CASE PlansDone
  BY <1>27 DEF PlansDone
<1>28. CASE ClosePoolSwitches
  BY <1>28 DEF ClosePoolSwitches
<1>29. CASE ClosePoolTearsDown
  BY <1>29 DEF ClosePoolTearsDown, CloseSlot, Terminated, NotTerminated, NotRecorded
<1>30. CASE ClosePoolSettles
  BY <1>30 DEF ClosePoolSettles, Settle
<1>31. CASE ClosePoolEmpty
  BY <1>31 DEF ClosePoolEmpty
<1>32. CASE Crash
  BY <1>32 DEF Crash, ForgetProcess
<1>33. CASE Tick
  BY <1>33 DEF Tick
<1>34. CASE UNCHANGED vars
  BY <1>34 DEF vars
<1> QED
  BY <1>1, <1>2, <1>3, <1>4, <1>5, <1>6, <1>7, <1>8, <1>9, <1>10, <1>11, <1>12, <1>13, <1>14,
     <1>15, <1>16, <1>17, <1>18, <1>19, <1>20, <1>21, <1>22, <1>23, <1>24, <1>25, <1>26, <1>27,
     <1>28, <1>29, <1>30, <1>31, <1>32, <1>33, <1>34
  DEF Next, Process

(* The pods of reports in hand are pods.                                    *)
LEMMA StartPods ==
  ASSUME IInv PROVE \A start \in starts \cup unspent : start.pod \in Pod /\ start.seconds \in Nat
  BY DEF IInv, TypeOK, ProcessTypeOK, StartReport

(* Abandoned starts keep their reports, and their pods stay terminated.     *)
LEMMA StartsNext == ASSUME IInv, ClocksInv, StartsInv, [Next]_vars PROVE StartsInv'
<1> SUFFICES ASSUME CleanRun' PROVE StartsInv'
  BY DEF StartsInv
<1>0. CleanRun \/ Launch
  BY CleanBefore
<1> USE NoPodAssumption
<1> USE DEF IInv, TypeOK, ProcessTypeOK, CustodyInv, ChargeInv, Billing, StartsInv, Settled, CleanRun,
    AtPod,
            budgetVars, providerVars, loopVars, solutionVars, poolVars, historyVars, boundVars
<1>1. CASE Launch
  <2>1. launches = 0
    BY <1>1 DEF Launch
  <2>2. starts = {} /\ unspent = {} /\ starts' = starts /\ unspent' = unspent
    BY <1>1, <2>1 DEF Launch, ClocksInv
  <2> QED
    BY <2>2
<1>2. CASE ReplayDone
  BY <1>0, <1>2 DEF Launch, ReplayDone
<1>3. CASE Exit
  BY <1>0, <1>3 DEF Launch, Exit, ForgetProcess
<1>4. ASSUME NEW l \in Label, ReplayOpenHold(l) PROVE StartsInv'
  BY <1>0, <1>4 DEF Launch, ReplayOpenHold, ReplaySettle
<1>5. ASSUME NEW s \in Solution, StartSolution(s) PROVE StartsInv'
  BY <1>0, <1>5 DEF Launch, StartSolution, OpenHold
<1>6. CASE AcquireParked
  BY <1>0, <1>6 DEF Launch, AcquireParked, StopOverspent, Settle
<1>7. CASE AcquireClosesOther
  <2>1. CleanRun /\ starts' = starts /\ unspent' = unspent /\ bill' = bill /\ pc # "teardown"
    BY <1>0, <1>7 DEF Launch, AcquireClosesOther, CloseSlot, Terminated, NotTerminated, NotRecorded
  <2>2. pods' = pods \/ pods' = [pods EXCEPT ![slot] = "gone"]
    BY <1>0, <1>7 DEF Launch, AcquireClosesOther, CloseSlot, Terminated, NotTerminated, NotRecorded
  <2>3. \A p \in Pod : pods[p] = "gone" => pods'[p] = "gone"
    BY <2>2
  <2> HIDE DEF IInv
  <2> QED
    BY <2>1, <2>2, <2>3, StartPods
<1>8. CASE AcquireAfterClose
  BY <1>0, <1>8 DEF Launch, AcquireAfterClose, StopOverspent, Settle
<1>9. CASE AcquireNew
  BY <1>0, <1>9 DEF Launch, AcquireNew
<1>10. ASSUME NEW q \in Pod, CreatePod(q) PROVE StartsInv'
  BY <1>0, <1>10 DEF Launch, CreatePod
<1>11. ASSUME NEW q \in Pod, CreateAnswerLost(q) PROVE StartsInv'
  BY <1>0, <1>11 DEF Launch, CreateAnswerLost
<1>12. CASE CreateFails
  BY <1>0, <1>12 DEF Launch, CreateFails
<1>13. CASE AbandonStart
  <2>1. CleanRun /\ unspent' = unspent /\ target \in Pod /\ bill' = bill
    BY <1>0, <1>13 DEF Launch, AbandonStart, Terminated, NotTerminated, NotRecorded
  <2>2. \/ pods' = [pods EXCEPT ![target] = "gone"]
        \/ pods' = pods /\ pc' = "teardown" /\ target' = target
    BY <1>0, <1>13 DEF Launch, AbandonStart, Terminated, NotTerminated, NotRecorded
  <2>3. starts' = starts \cup {[pod |-> target, seconds |-> bill[target]]} /\ pc = "starting"
    BY <1>0, <1>13 DEF Launch, AbandonStart
  <2>4. \A p \in Pod : pods[p] = "gone" => pods'[p] = "gone"
    BY <2>2
  <2>5. pods'[target] = "gone" \/ (pc' = "teardown" /\ target = target')
    BY <2>1, <2>2
  <2> HIDE DEF IInv
  <2>6. ASSUME NEW start \in starts' \cup unspent' PROVE Settled(start)'
    <3>1. CASE start \in starts \cup unspent
      BY <2>1, <2>3, <2>4, <3>1, StartPods
    <3>2. CASE start = [pod |-> target, seconds |-> bill[target]]
      BY <2>1, <2>5, <3>2
    <3> QED
      BY <2>1, <2>3, <2>6, <3>1, <3>2
  <2> QED
    BY <2>6
<1>14. CASE StartEnds
  BY <1>0, <1>14 DEF Launch, StartEnds
<1>15. CASE AnnotateRun
  BY <1>0, <1>15 DEF Launch, AnnotateRun, AnnotateHold
<1>16. CASE Measured
  BY <1>0, <1>16 DEF Launch, Measured
<1>17. CASE KeepHolds
  BY <1>0, <1>17 DEF Launch, KeepHolds, OpenHold
<1>18. CASE KeepParks
  BY <1>0, <1>18 DEF Launch, KeepParks, AnnotateHold, StartsToCharge
<1>19. CASE KeepRefused
  BY <1>0, <1>19 DEF Launch, KeepRefused
<1>20. CASE TeardownTarget
  <2>1. CleanRun /\ starts' \subseteq starts /\ unspent' \subseteq starts /\ pc = "teardown"
    BY <1>0, <1>20 DEF Launch, TeardownTarget, StartsToCharge
  <2>2. bill' = bill /\ (pods' = pods \/ pods' = [pods EXCEPT ![target] = "gone"])
    BY <1>0, <1>20 DEF Launch, TeardownTarget, Terminated, NotTerminated, NotRecorded
  <2>3. \A p \in Pod : pods[p] = "gone" => pods'[p] = "gone"
    BY <2>2
  <2>4. target \in Pod => pods'[target] = "gone"
    BY <1>0, <1>20 DEF Launch, TeardownTarget, Terminated, NotTerminated, NotRecorded
  <2> HIDE DEF IInv
  <2> QED
    BY <2>1, <2>2, <2>3, <2>4, StartPods
<1>21. ASSUME NEW start \in unspent, ChargeAbandoned(start) PROVE StartsInv'
  BY <1>0, <1>21 DEF Launch, ChargeAbandoned, RecordPodSpend
<1>22. CASE SettleRun
  BY <1>0, <1>22 DEF Launch, SettleRun, StopOverspent, Settle
<1>23. ASSUME NEW q \in Pod, RecordLeak(q) PROVE StartsInv'
  BY <1>0, <1>23 DEF Launch, RecordLeak, OpenEndedHold
<1>24. ASSUME NEW q \in Pod, AnnotateLeak(q) PROVE StartsInv'
  BY <1>0, <1>24 DEF Launch, AnnotateLeak, AnnotateHold
<1>25. CASE LeaksRecorded
  BY <1>0, <1>25 DEF Launch, LeaksRecorded
<1>26. CASE IterationEnd
  BY <1>0, <1>26 DEF Launch, IterationEnd
<1>27. CASE PlansDone
  BY <1>0, <1>27 DEF Launch, PlansDone
<1>28. CASE ClosePoolSwitches
  BY <1>0, <1>28 DEF Launch, ClosePoolSwitches
<1>29. CASE ClosePoolTearsDown
  <2>1. CleanRun /\ starts' = starts /\ unspent' = unspent /\ bill' = bill /\ pc # "teardown"
    BY <1>0, <1>29 DEF Launch, ClosePoolTearsDown, CloseSlot, Terminated, NotTerminated, NotRecorded
  <2>2. pods' = pods \/ pods' = [pods EXCEPT ![slot] = "gone"]
    BY <1>0, <1>29 DEF Launch, ClosePoolTearsDown, CloseSlot, Terminated, NotTerminated, NotRecorded
  <2>3. \A p \in Pod : pods[p] = "gone" => pods'[p] = "gone"
    BY <2>2
  <2> HIDE DEF IInv
  <2> QED
    BY <2>1, <2>2, <2>3, StartPods
<1>30. CASE ClosePoolSettles
  BY <1>0, <1>30 DEF Launch, ClosePoolSettles, Settle
<1>31. CASE ClosePoolEmpty
  BY <1>0, <1>31 DEF Launch, ClosePoolEmpty
<1>32. CASE Crash
  BY <1>0, <1>32 DEF Launch, Crash, ForgetProcess
<1>33. CASE Tick
  <2>1. CleanRun /\ starts' = starts /\ unspent' = unspent /\ pods' = pods /\ pc # "teardown"
    BY <1>0, <1>33 DEF Launch, Tick
  <2>2. \A p \in Pod : pods[p] = "gone" => bill'[p] = bill[p]
    BY <1>0, <1>33 DEF Launch, Tick
  <2> HIDE DEF IInv
  <2> QED
    BY <2>1, <2>2, StartPods
<1>34. CASE UNCHANGED vars
  BY <1>0, <1>34 DEF Launch, vars
<1> HIDE DEF IInv, StartsInv
<1> QED
  BY <1>1, <1>2, <1>3, <1>4, <1>5, <1>6, <1>7, <1>8, <1>9, <1>10, <1>11, <1>12, <1>13, <1>14,
     <1>15, <1>16, <1>17, <1>18, <1>19, <1>20, <1>21, <1>22, <1>23, <1>24, <1>25, <1>26, <1>27,
     <1>28, <1>29, <1>30, <1>31, <1>32, <1>33, <1>34
  DEF Next, Process

(* The amounts the proofs below add up.                                     *)
LEMMA BillType == ASSUME IInv PROVE bill \in [Pod -> Nat] /\ elapsed \in Nat
    /\ abandoned \in Nat /\ spent \in Nat /\ idle \in Nat
  BY DEF IInv, TypeOK, ProcessTypeOK, BudgetTypeOK

(* What the pods of this execution billed stays within its time.            *)
LEMMA ShareNext == ASSUME IInv, ClocksInv, StartsInv, ShareInv, [Next]_vars PROVE ShareInv'
<1> SUFFICES ASSUME CleanRun' PROVE ShareInv'
  BY DEF ShareInv
<1>0. CleanRun \/ Launch
  BY CleanBefore
<1> DEFINE P == PodsOf(starts)
<1> USE NoPodAssumption, BillType
<1> USE DEF ShareInv, CleanRun, AtPod, Renting,
            budgetVars, providerVars, loopVars, solutionVars, poolVars, historyVars, boundVars
<1>1. CASE Launch
  BY <1>1 DEF Launch
<1>2. CASE ReplayDone
  BY <1>0, <1>2 DEF Launch, ReplayDone
<1>3. CASE Exit
  BY <1>0, <1>3 DEF Launch, Exit, ForgetProcess
<1>4. ASSUME NEW l \in Label, ReplayOpenHold(l) PROVE ShareInv'
  BY <1>0, <1>4 DEF Launch, ReplayOpenHold, ReplaySettle
<1>5. ASSUME NEW s \in Solution, StartSolution(s) PROVE ShareInv'
  BY <1>0, <1>5 DEF Launch, StartSolution, OpenHold
<1>6. CASE AcquireParked
  BY <1>0, <1>6 DEF Launch, AcquireParked, StopOverspent, Settle
<1>7. CASE AcquireClosesOther
  BY <1>0, <1>7 DEF Launch, AcquireClosesOther, CloseSlot, Terminated, NotTerminated, NotRecorded
<1>8. CASE AcquireAfterClose
  <2>1. \/ /\ starts' = {} /\ target' = target /\ pc' # "charge"
           /\ bill' = bill /\ elapsed' = elapsed
        \/ pc' = "closing"
    BY <1>8 DEF AcquireAfterClose, StopOverspent
  <2>2. target = NoPod /\ elapsed \in Nat
    BY <1>8 DEF AcquireAfterClose, IInv, CustodyInv
  <2>3. CASE pc' = "closing"
    BY <2>3
  <2>4. CASE pc' # "closing"
    <3>1. PodsOf(starts') \cup {target'} = {NoPod}
      BY <2>1, <2>2, <2>4 DEF PodsOf
    <3>2. Billed(bill', PodsOf(starts') \cup {target'}) = 0
      BY <3>1, BilledNone
    <3> QED
      BY <2>1, <2>2, <2>4, <3>2
  <2> QED
    BY <2>3, <2>4
<1>9. CASE AcquireNew
  <2>1. \/ /\ starts' = {} /\ target' = target /\ pc' # "charge"
           /\ bill' = bill /\ elapsed' = elapsed
        \/ pc' = "closing"
    BY <1>9 DEF AcquireNew, StopOverspent
  <2>2. target = NoPod /\ elapsed \in Nat
    BY <1>9 DEF AcquireNew, IInv, CustodyInv
  <2>3. CASE pc' = "closing"
    BY <2>3
  <2>4. CASE pc' # "closing"
    <3>1. PodsOf(starts') \cup {target'} = {NoPod}
      BY <2>1, <2>2, <2>4 DEF PodsOf
    <3>2. Billed(bill', PodsOf(starts') \cup {target'}) = 0
      BY <3>1, BilledNone
    <3> QED
      BY <2>1, <2>2, <2>4, <3>2
  <2> QED
    BY <2>3, <2>4
<1>10. ASSUME NEW q \in Pod, CreatePod(q) PROVE ShareInv'
  <2>1. CleanRun /\ pc = "provision" /\ pc' = "starting" /\ bill' = bill /\ elapsed' = elapsed
      /\ starts' = starts /\ reused' = reused
    BY <1>0, <1>10 DEF Launch, CreatePod
  <2>2. target = NoPod /\ target' = q
    BY <1>10, <2>1 DEF CreatePod, IInv, CustodyInv
  <2>3. pods[q] = "fresh" /\ bill[q] = 0
    BY <1>10 DEF CreatePod, ClocksInv
  <2>4. q \notin P
    BY <1>10, <2>1, <2>3 DEF PodsOf, StartsInv, Settled, CreatePod
  <2>5. Billed(bill, P \cup {q}) = Billed(bill, P) /\ Billed(bill, P) \in Nat
    BY <2>3, <2>4, BilledAdd, BilledNat
  <2>6. (P \cup {target}) \cap Pod = P \cap Pod
    BY <2>2
  <2>7. Billed(bill, P \cup {target}) = Billed(bill, P)
    BY <2>6, BilledSame
  <2>8. PodsOf(starts') \cup {target'} = P \cup {q}
    BY <2>1, <2>2
  <2>9. Billed(bill', PodsOf(starts') \cup {target'}) = Billed(bill, P \cup {target})
    BY <2>1, <2>5, <2>7, <2>8
  <2> HIDE DEF P
  <2>10. Billed(bill, P \cup {target}) <= elapsed
    BY <1>10, <2>1 DEF P, IInv, ChargeInv
  <2> QED
    BY <2>1, <2>9, <2>10
<1>11. ASSUME NEW q \in Pod, CreateAnswerLost(q) PROVE ShareInv'
  BY <1>0, <1>11 DEF Launch, CreateAnswerLost
<1>12. CASE CreateFails
  BY <1>0, <1>12 DEF Launch, CreateFails
<1>13. CASE AbandonStart
  <2>1. CleanRun /\ bill' = bill /\ elapsed' = elapsed /\ target' \in {target, NoPod} /\ reused' = reused
      /\ pc = "starting" /\ pc' # "charge"
    BY <1>0, <1>13 DEF Launch, AbandonStart, Terminated, NotTerminated, NotRecorded
  <2>2. starts' = starts \cup {[pod |-> target, seconds |-> bill[target]]}
    BY <1>13 DEF AbandonStart
  <2>3. PodsOf(starts') = P \cup {target}
    <3> DEFINE new == [pod |-> target, seconds |-> bill[target]]
    <3>1. new.pod = target
      OBVIOUS
    <3>2. starts' = starts \cup {new}
      BY <2>2
    <3> HIDE DEF new
    <3> QED
      BY <3>1, <3>2 DEF PodsOf
  <2>4. (PodsOf(starts') \cup {target'}) \cap Pod = (P \cup {target}) \cap Pod
    BY <2>1, <2>3
  <2>5. Billed(bill, PodsOf(starts') \cup {target'}) = Billed(bill, P \cup {target})
    BY <2>4, BilledSame
  <2> QED
    BY <2>1, <2>5
<1>14. CASE StartEnds
  BY <1>0, <1>14 DEF Launch, StartEnds
<1>15. CASE AnnotateRun
  BY <1>0, <1>15 DEF Launch, AnnotateRun, AnnotateHold
<1>16. CASE Measured
  BY <1>0, <1>16 DEF Launch, Measured
<1>17. CASE KeepHolds
  BY <1>0, <1>17 DEF Launch, KeepHolds, OpenHold
<1>18. CASE KeepParks
  <2>1. CleanRun /\ bill' = bill /\ elapsed' = elapsed /\ abandoned' = abandoned /\ pc' = "charge"
    BY <1>0, <1>18 DEF Launch, KeepParks, Terminated, NotTerminated, NotRecorded
  <2>2. abandoned = 0
    BY <1>18 DEF ClocksInv, KeepParks
  <2>3. CASE reused
    <3>1. unspent' = {}
      BY <1>18, <2>3 DEF KeepParks, StartsToCharge
    <3>2. Billed(bill, PodsOf(unspent')) = 0
      BY <3>1, BilledNone DEF PodsOf
    <3> QED
      BY <2>1, <2>2, <3>2
  <2>4. CASE ~reused
    <3>1. unspent' = starts
      BY <1>18, <2>4 DEF KeepParks, StartsToCharge
    <3>2. Billed(bill, P) <= Billed(bill, P \cup {target}) /\ Billed(bill, P) \in Nat
        /\ Billed(bill, P \cup {target}) \in Nat
      BY BilledMore, BilledNat
    <3>3. Billed(bill, P \cup {target}) <= elapsed
      BY <1>18, <2>1, <2>4 DEF KeepParks
    <3> QED
      BY <2>1, <2>2, <3>1, <3>2, <3>3
  <2> QED
    BY <2>3, <2>4
<1>19. CASE KeepRefused
  BY <1>0, <1>19 DEF Launch, KeepRefused
<1>20. CASE TeardownTarget
  <2>1. CleanRun /\ bill' = bill /\ elapsed' = elapsed /\ abandoned' = abandoned /\ pc' = "charge"
    BY <1>0, <1>20 DEF Launch, TeardownTarget, Terminated, NotTerminated, NotRecorded
  <2>2. abandoned = 0
    BY <1>20 DEF ClocksInv, TeardownTarget
  <2>3. CASE reused
    <3>1. unspent' = {}
      BY <1>20, <2>3 DEF TeardownTarget, StartsToCharge
    <3>2. Billed(bill, PodsOf(unspent')) = 0
      BY <3>1, BilledNone DEF PodsOf
    <3> QED
      BY <2>1, <2>2, <3>2
  <2>4. CASE ~reused
    <3>1. unspent' = starts
      BY <1>20, <2>4 DEF TeardownTarget, StartsToCharge
    <3>2. Billed(bill, P) <= Billed(bill, P \cup {target}) /\ Billed(bill, P) \in Nat
        /\ Billed(bill, P \cup {target}) \in Nat
      BY BilledMore, BilledNat
    <3>3. Billed(bill, P \cup {target}) <= elapsed
      BY <1>20, <2>1, <2>4 DEF TeardownTarget
    <3> QED
      BY <2>1, <2>2, <3>1, <3>2, <3>3
  <2> QED
    BY <2>3, <2>4
<1>21. ASSUME NEW start \in unspent, ChargeAbandoned(start) PROVE ShareInv'
  <2>1. CleanRun /\ bill' = bill /\ elapsed' = elapsed /\ pc = "charge" /\ pc' = pc
    BY <1>0, <1>21 DEF Launch, ChargeAbandoned
  <2>2. unspent' = unspent \ {start} /\ abandoned' = abandoned + start.seconds
    BY <1>21 DEF ChargeAbandoned
  <2>3. start.pod \in Pod /\ start.seconds = bill[start.pod]
    BY <2>1, StartPods DEF StartsInv, Settled
  <2>4. PodsOf(unspent) = PodsOf(unspent') \cup {start.pod} /\ start.pod \notin PodsOf(unspent')
    BY <2>2 DEF PodsOf, IInv, ChargeInv
  <2>5. Billed(bill, PodsOf(unspent)) = Billed(bill, PodsOf(unspent')) + bill[start.pod]
    BY <2>3, <2>4, BilledAdd
  <2>6. Billed(bill, PodsOf(unspent)) \in Nat /\ Billed(bill, PodsOf(unspent')) \in Nat
      /\ bill[start.pod] \in Nat
    BY <2>3, BilledNat
  <2> QED
    BY <2>1, <2>2, <2>3, <2>5, <2>6
<1>22. CASE SettleRun
  BY <1>0, <1>22 DEF Launch, SettleRun, StopOverspent, Settle
<1>23. ASSUME NEW q \in Pod, RecordLeak(q) PROVE ShareInv'
  BY <1>0, <1>23 DEF Launch, RecordLeak, OpenEndedHold
<1>24. ASSUME NEW q \in Pod, AnnotateLeak(q) PROVE ShareInv'
  BY <1>0, <1>24 DEF Launch, AnnotateLeak, AnnotateHold
<1>25. CASE LeaksRecorded
  BY <1>0, <1>25 DEF Launch, LeaksRecorded, IInv, TypeOK, ProcessTypeOK
<1>26. CASE IterationEnd
  BY <1>0, <1>26 DEF Launch, IterationEnd
<1>27. CASE PlansDone
  BY <1>0, <1>27 DEF Launch, PlansDone
<1>28. CASE ClosePoolSwitches
  BY <1>0, <1>28 DEF Launch, ClosePoolSwitches
<1>29. CASE ClosePoolTearsDown
  BY <1>0, <1>29 DEF Launch, ClosePoolTearsDown, CloseSlot, Terminated, NotTerminated, NotRecorded
<1>30. CASE ClosePoolSettles
  BY <1>0, <1>30 DEF Launch, ClosePoolSettles, Settle
<1>31. CASE ClosePoolEmpty
  BY <1>0, <1>31 DEF Launch, ClosePoolEmpty
<1>32. CASE Crash
  BY <1>0, <1>32 DEF Launch, Crash, ForgetProcess
<1>33. CASE Tick
  <2>1. CleanRun /\ pc' = pc /\ starts' = starts /\ target' = target /\ reused' = reused
    BY <1>0, <1>33 DEF Launch, Tick
  <2>2. CASE pc \in {"starting", "measure"}
    <3>1. PICK q \in guard : q \in Pod /\ bill' = [bill EXCEPT ![q] = bill[q] + 1]
      BY <1>33, <2>1, OneBills
    <3>2. q = target
      BY <2>1, <2>2, <3>1 DEF IInv, CustodyInv, OneLivePod, CleanRun
    <3>3. Billed(bill', P \cup {target}) = Billed(bill, P \cup {target}) + 1
      BY <3>1, <3>2, BilledTicks
    <3>4. elapsed' = elapsed + 1
      BY <1>33, <2>2 DEF Tick
    <3>5. Billed(bill, P \cup {target}) \in Nat
      BY BilledNat
    <3>6. PodsOf(starts') \cup {target'} = P \cup {target}
      BY <2>1
    <3>7. ~reused' => Billed(bill, P \cup {target}) <= elapsed
      BY <2>1, <2>2
    <3> HIDE DEF P
    <3>8. ~reused' => Billed(bill', PodsOf(starts') \cup {target'}) <= elapsed'
      BY <3>3, <3>4, <3>5, <3>6, <3>7
    <3> QED
      BY <2>1, <2>2, <3>8
  <2>3. CASE pc \in {"loop", "down"}
    BY <2>1, <2>3
  <2> QED
    BY <1>33, <2>2, <2>3 DEF Tick
<1>34. CASE UNCHANGED vars
  BY <1>0, <1>34 DEF Launch, vars
<1> HIDE DEF ShareInv
<1> QED
  BY <1>1, <1>2, <1>3, <1>4, <1>5, <1>6, <1>7, <1>8, <1>9, <1>10, <1>11, <1>12, <1>13, <1>14,
     <1>15, <1>16, <1>17, <1>18, <1>19, <1>20, <1>21, <1>22, <1>23, <1>24, <1>25, <1>26, <1>27,
     <1>28, <1>29, <1>30, <1>31, <1>32, <1>33, <1>34
  DEF Next, Process

(* The account keeps up with the bills.                                     *)
LEMMA BalanceNext == ASSUME IInv, ClocksInv, StartsInv, ShareInv, BalanceInv, [Next]_vars
    PROVE BalanceInv'
<1> SUFFICES ASSUME CleanRun' PROVE BalanceInv'
  BY DEF BalanceInv
<1>0. CleanRun \/ Launch
  BY CleanBefore
<1> USE NoPodAssumption, BillType
<1> USE DEF BalanceInv, CleanRun, AtPod, Renting,
            budgetVars, providerVars, loopVars, solutionVars, poolVars, historyVars, boundVars
<1>1. CASE Launch
  <2>1. launches = 0 /\ spent' = spent /\ elapsed' = elapsed /\ abandoned' = abandoned
      /\ idle' = idle /\ bill' = bill
    BY <1>1 DEF Launch, IInv, TypeOK, ProcessTypeOK
  <2>2. spent = 0 /\ elapsed = 0 /\ abandoned = 0 /\ pc = "down"
    BY <2>1 DEF ClocksInv
  <2>3. idle = 0
    BY <2>2 DEF ClocksInv, IInv, CustodyInv, MayPark
  <2>4. SumFunction(bill) = 0
    <3>1. bill \in [Pod -> Int] /\ \A p \in Pod : bill[p] = 0
      BY <2>1 DEF ClocksInv
    <3> QED
      BY <3>1, FiniteAssumption, SumZero
  <2> QED
    BY <2>1, <2>2, <2>3, <2>4
<1>2. CASE ReplayDone
  BY <1>0, <1>2 DEF Launch, ReplayDone
<1>3. CASE Exit
  BY <1>0, <1>3 DEF Launch, Exit, ForgetProcess
<1>4. ASSUME NEW l \in Label, ReplayOpenHold(l) PROVE BalanceInv'
  <2>1. launches = 1 /\ pc = "replay" /\ IsOpen(l)
    BY <1>0, <1>4 DEF Launch, ReplayOpenHold, ReplaySettle
  <2> QED
    BY <2>1 DEF ClocksInv
<1>5. ASSUME NEW s \in Solution, StartSolution(s) PROVE BalanceInv'
  BY <1>0, <1>5 DEF Launch, StartSolution, OpenHold
<1>6. CASE AcquireParked
  BY <1>0, <1>6 DEF Launch, AcquireParked, StopOverspent, Settle
<1>7. CASE AcquireClosesOther
  BY <1>0, <1>7 DEF Launch, AcquireClosesOther, CloseSlot, Terminated, NotTerminated, NotRecorded
<1>8. CASE AcquireAfterClose
  BY <1>0, <1>8 DEF Launch, AcquireAfterClose, StopOverspent, Settle
<1>9. CASE AcquireNew
  BY <1>0, <1>9 DEF Launch, AcquireNew
<1>10. ASSUME NEW q \in Pod, CreatePod(q) PROVE BalanceInv'
  BY <1>0, <1>10 DEF Launch, CreatePod
<1>11. ASSUME NEW q \in Pod, CreateAnswerLost(q) PROVE BalanceInv'
  BY <1>0, <1>11 DEF Launch, CreateAnswerLost
<1>12. CASE CreateFails
  BY <1>0, <1>12 DEF Launch, CreateFails
<1>13. CASE AbandonStart
  BY <1>0, <1>13 DEF Launch, AbandonStart, Terminated, NotTerminated, NotRecorded
<1>14. CASE StartEnds
  BY <1>0, <1>14 DEF Launch, StartEnds
<1>15. CASE AnnotateRun
  BY <1>0, <1>15 DEF Launch, AnnotateRun, AnnotateHold
<1>16. CASE Measured
  BY <1>0, <1>16 DEF Launch, Measured
<1>17. CASE KeepHolds
  BY <1>0, <1>17 DEF Launch, KeepHolds, OpenHold
<1>18. CASE KeepParks
  <2>1. CleanRun /\ spent' = spent /\ elapsed' = elapsed /\ abandoned' = abandoned
      /\ idle' = 0 /\ bill' = bill
    BY <1>0, <1>18 DEF Launch, KeepParks, AnnotateHold
  <2>2. idle = 0
    BY <1>18 DEF KeepParks, ClocksInv, IInv, CustodyInv, MayPark
  <2> QED
    BY <2>1, <2>2
<1>19. CASE KeepRefused
  BY <1>0, <1>19 DEF Launch, KeepRefused
<1>20. CASE TeardownTarget
  BY <1>0, <1>20 DEF Launch, TeardownTarget, Terminated, NotTerminated, NotRecorded, StartsToCharge
<1>21. ASSUME NEW start \in unspent, ChargeAbandoned(start) PROVE BalanceInv'
  BY <1>0, <1>21, StartPods DEF Launch, ChargeAbandoned, RecordPodSpend
<1>22. CASE SettleRun
  <2>1. CleanRun /\ pc = "charge" /\ unspent = {} /\ idle' = idle /\ bill' = bill
    BY <1>0, <1>22 DEF Launch, SettleRun
  <2>2. spent' = spent + RunCharge /\ elapsed' = 0 /\ abandoned' = 0
    BY <1>22 DEF SettleRun, Settle
  <2>3. Billed(bill, PodsOf(unspent)) \in Nat
    BY BilledNat
  <2>4. abandoned <= elapsed
    BY <2>1, <2>3 DEF ShareInv
  <2>5. RunCharge = elapsed - abandoned
    BY <2>4 DEF RunCharge
  <2> QED
    BY <2>1, <2>2, <2>5
<1>23. ASSUME NEW q \in Pod, RecordLeak(q) PROVE BalanceInv'
  BY <1>0, <1>23 DEF Launch, RecordLeak, OpenEndedHold
<1>24. ASSUME NEW q \in Pod, AnnotateLeak(q) PROVE BalanceInv'
  BY <1>0, <1>24 DEF Launch, AnnotateLeak, AnnotateHold
<1>25. CASE LeaksRecorded
  BY <1>0, <1>25 DEF Launch, LeaksRecorded
<1>26. CASE IterationEnd
  BY <1>0, <1>26 DEF Launch, IterationEnd
<1>27. CASE PlansDone
  BY <1>0, <1>27 DEF Launch, PlansDone
<1>28. CASE ClosePoolSwitches
  BY <1>0, <1>28 DEF Launch, ClosePoolSwitches
<1>29. CASE ClosePoolTearsDown
  BY <1>0, <1>29 DEF Launch, ClosePoolTearsDown, CloseSlot, Terminated, NotTerminated, NotRecorded
<1>30. CASE ClosePoolSettles
  BY <1>0, <1>30 DEF Launch, ClosePoolSettles, Settle
<1>31. CASE ClosePoolEmpty
  BY <1>0, <1>31 DEF Launch, ClosePoolEmpty
<1>32. CASE Crash
  BY <1>0, <1>32 DEF Launch, Crash, ForgetProcess
<1>33. CASE Tick
  <2>1. CleanRun /\ pc' = pc /\ spent' = spent /\ abandoned' = abandoned
    BY <1>0, <1>33 DEF Launch, Tick
  <2>2. PICK q \in guard : q \in Pod /\ bill' = [bill EXCEPT ![q] = bill[q] + 1]
    BY <1>33, <2>1, OneBills
  <2>3. SumFunction(bill') = SumFunction(bill) + 1
    BY <2>2, SumTicks
  <2>4. elapsed' + idle' = elapsed + idle + 1 /\ elapsed' \in Nat /\ idle' \in Nat
    <3>1. CASE pc \in {"starting", "measure"}
      <4>1. slot = NoPod
        BY <3>1 DEF IInv, CustodyInv, MayPark
      <4> QED
        BY <1>33, <3>1, <4>1 DEF Tick
    <3>2. CASE pc = "loop"
      <4>1. guard = {target, slot} \ {NoPod} /\ target = NoPod
        BY <2>1, <3>2 DEF IInv, CustodyInv, InClosing, CleanRun
      <4>2. slot # NoPod
        BY <2>2, <4>1
      <4> QED
        BY <1>33, <3>2, <4>2 DEF Tick
    <3> QED
      BY <1>33, <2>1, <3>1, <3>2 DEF Tick
  <2>5. SumFunction(bill) \in Nat
    BY FiniteAssumption, SumNat
  <2> QED
    BY <2>1, <2>3, <2>4, <2>5
<1>34. CASE UNCHANGED vars
  BY <1>0, <1>34 DEF Launch, vars
<1> HIDE DEF BalanceInv
<1> QED
  BY <1>1, <1>2, <1>3, <1>4, <1>5, <1>6, <1>7, <1>8, <1>9, <1>10, <1>11, <1>12, <1>13, <1>14,
     <1>15, <1>16, <1>17, <1>18, <1>19, <1>20, <1>21, <1>22, <1>23, <1>24, <1>25, <1>26, <1>27,
     <1>28, <1>29, <1>30, <1>31, <1>32, <1>33, <1>34
  DEF Next, Process

(* A pod that was never rented is rented by one of provision's steps only.  *)
LEMMA FreshOnlyRented ==
  ASSUME IInv, [Next]_vars, NEW p \in Pod, pods[p] = "fresh", pods'[p] # "fresh"
  PROVE  pc = "provision"
<1> USE NoPodAssumption
<1> USE DEF IInv, TypeOK, ProcessTypeOK, CustodyInv, Billing, budgetVars, providerVars, loopVars,
    solutionVars, poolVars, historyVars, boundVars
<1>1. CASE Launch
  BY <1>1 DEF Launch
<1>2. CASE ReplayDone
  BY <1>2 DEF ReplayDone
<1>3. CASE Exit
  BY <1>3 DEF Exit, ForgetProcess
<1>4. ASSUME NEW l \in Label, ReplayOpenHold(l) PROVE pc = "provision"
  BY <1>4 DEF ReplayOpenHold, ReplaySettle
<1>5. ASSUME NEW s \in Solution, StartSolution(s) PROVE pc = "provision"
  BY <1>5 DEF StartSolution, OpenHold
<1>6. CASE AcquireParked
  BY <1>6 DEF AcquireParked, StopOverspent, Settle
<1>7. CASE AcquireClosesOther
  BY <1>7 DEF AcquireClosesOther, CloseSlot, Terminated, NotTerminated, NotRecorded
<1>8. CASE AcquireAfterClose
  BY <1>8 DEF AcquireAfterClose, StopOverspent, Settle
<1>9. CASE AcquireNew
  BY <1>9 DEF AcquireNew
<1>10. ASSUME NEW q \in Pod, CreatePod(q) PROVE pc = "provision"
  BY <1>10 DEF CreatePod
<1>11. ASSUME NEW q \in Pod, CreateAnswerLost(q) PROVE pc = "provision"
  BY <1>11 DEF CreateAnswerLost
<1>12. CASE CreateFails
  BY <1>12 DEF CreateFails
<1>13. CASE AbandonStart
  BY <1>13 DEF AbandonStart, Terminated, NotTerminated, NotRecorded
<1>14. CASE StartEnds
  BY <1>14 DEF StartEnds
<1>15. CASE AnnotateRun
  BY <1>15 DEF AnnotateRun, AnnotateHold
<1>16. CASE Measured
  BY <1>16 DEF Measured
<1>17. CASE KeepHolds
  BY <1>17 DEF KeepHolds, OpenHold
<1>18. CASE KeepParks
  BY <1>18 DEF KeepParks, AnnotateHold, StartsToCharge
<1>19. CASE KeepRefused
  BY <1>19 DEF KeepRefused
<1>20. CASE TeardownTarget
  BY <1>20 DEF TeardownTarget, Terminated, NotTerminated, NotRecorded, StartsToCharge
<1>21. ASSUME NEW start \in unspent, ChargeAbandoned(start) PROVE pc = "provision"
  BY <1>21 DEF ChargeAbandoned, RecordPodSpend
<1>22. CASE SettleRun
  BY <1>22 DEF SettleRun, StopOverspent, Settle
<1>23. ASSUME NEW q \in Pod, RecordLeak(q) PROVE pc = "provision"
  BY <1>23 DEF RecordLeak, OpenEndedHold
<1>24. ASSUME NEW q \in Pod, AnnotateLeak(q) PROVE pc = "provision"
  BY <1>24 DEF AnnotateLeak, AnnotateHold
<1>25. CASE LeaksRecorded
  BY <1>25 DEF LeaksRecorded
<1>26. CASE IterationEnd
  BY <1>26 DEF IterationEnd
<1>27. CASE PlansDone
  BY <1>27 DEF PlansDone
<1>28. CASE ClosePoolSwitches
  BY <1>28 DEF ClosePoolSwitches
<1>29. CASE ClosePoolTearsDown
  BY <1>29 DEF ClosePoolTearsDown, CloseSlot, Terminated, NotTerminated, NotRecorded
<1>30. CASE ClosePoolSettles
  BY <1>30 DEF ClosePoolSettles, Settle
<1>31. CASE ClosePoolEmpty
  BY <1>31 DEF ClosePoolEmpty
<1>32. CASE Crash
  BY <1>32 DEF Crash, ForgetProcess
<1>33. CASE Tick
  BY <1>33 DEF Tick
<1>34. CASE UNCHANGED vars
  BY <1>34 DEF vars
<1> HIDE DEF IInv
<1> QED
  BY <1>1, <1>2, <1>3, <1>4, <1>5, <1>6, <1>7, <1>8, <1>9, <1>10, <1>11, <1>12, <1>13, <1>14,
     <1>15, <1>16, <1>17, <1>18, <1>19, <1>20, <1>21, <1>22, <1>23, <1>24, <1>25, <1>26, <1>27,
     <1>28, <1>29, <1>30, <1>31, <1>32, <1>33, <1>34
  DEF Next, Process

-----------------------------------------------------------------------------
(* The inductive invariant of the account, for every value of the constants.*)
THEOREM AccountInductive == Spec => [](IInv /\ AccountInv)
<1>1. IInv /\ AccountInv /\ [Next]_vars => AccountInv'
  BY ClocksNext, AffordNext, StartsNext, ShareNext, BalanceNext DEF AccountInv
<1> QED
  BY Inductive, AccountInit, <1>1, PTL DEF Spec

(* budget.py and cohort.py together: between candidates, in a run that lost *)
(* nothing, what was charged and what the parked pod has idled is exactly   *)
(* what the provider billed, for any number of candidates, pods and starts. *)
THEOREM BilledIsCharged == Spec => []ChargedIsBilled
<1>1. IInv /\ AccountInv => ChargedIsBilled
  BY BillType DEF AccountInv, BalanceInv, CleanRun, ClocksInv, Renting, AtPod, ChargedIsBilled
<1> QED
  BY AccountInductive, <1>1, PTL

(* BudgetTracker.hold and settle: whoever overspent, no pod is rented       *)
(* afterwards.                                                              *)
THEOREM OverspentRentsNothing == Spec => NoRentWhenOverspent
<1>1. IInv /\ AccountInv /\ [Next]_vars =>
        [\A p \in Pod : pods[p] = "fresh" /\ pods'[p] # "fresh" => ~Overspent]_vars
  <2> SUFFICES ASSUME IInv, AffordInv, [Next]_vars, NEW p \in Pod, pods[p] = "fresh", pods'[p] # "fresh"
               PROVE  ~Overspent
    BY DEF AccountInv
  <2>1. pc = "provision"
    BY FreshOnlyRented
  <2> QED
    BY <2>1 DEF AffordInv
<1> QED
  BY AccountInductive, <1>1, PTL DEF Spec, NoRentWhenOverspent
=============================================================================
