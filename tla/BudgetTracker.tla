---------------------------- MODULE BudgetTracker ----------------------------
(***************************************************************************)
(* The run's account: what BudgetTracker (application/orchestration/       *)
(* budget.py) holds, and what its ledger entries fold to.  Every operation *)
(* appends its entry to the ledger before it changes memory, and a         *)
(* process's death loses only memory, so one state stands for both: after  *)
(* an append the two agree, and a crash between the append and the         *)
(* assignment is a crash just after the step.  SharedLedger keeps the      *)
(* entries themselves and several processes; here one process writes.      *)
(*                                                                         *)
(* Amounts are integers in ticks of a pod's hourly rate.  The operators    *)
(* below are the tracker's methods; the modules that extend this one join  *)
(* them to the calls they guard.                                           *)
(***************************************************************************)
EXTENDS Integers, Functions

CONSTANTS
  Label,        \* the names holds are opened under
  Pod,          \* the provider's pods
  NoPod,        \* "no pod id"
  Authorized    \* the envelope's authorized total

ASSUME NoPodAssumption == NoPod \notin Pod
ASSUME AuthorizedAssumption == Authorized \in Nat

VARIABLES
  spent,        \* BudgetTracker.spent
  holds,        \* BudgetTracker.holds, a closed label holding NoHold
  overran       \* BudgetTracker.overruns is not empty

budgetVars == <<spent, holds, overran>>

HoldRecord == [open : BOOLEAN, estimate : Nat, pod : Pod \cup {NoPod}]
NoHold == [open |-> FALSE, estimate |-> 0, pod |-> NoPod]

IsOpen(l) == holds[l].open
OpenLabels == {l \in Label : IsOpen(l)}

Held == SumFunction([l \in Label |-> holds[l].estimate])

CanAffordIgnoringSpent(amount) == Held + amount <= Authorized  \* mutated form

CanAfford(amount) == spent + Held + amount <= Authorized

(* The condition under which _spend raises, after the settle is recorded.  *)
Overspent == spent > Authorized

BudgetInit ==
  /\ spent = 0
  /\ holds = [l \in Label |-> NoHold]
  /\ overran = FALSE

(* hold: refused while the label is open or the amount is unaffordable.    *)
OpenHold(l, estimate) ==
  /\ ~IsOpen(l)
  /\ CanAfford(estimate)
  /\ holds' = [holds EXCEPT ![l] = [open |-> TRUE, estimate |-> estimate, pod |-> NoPod]]
  /\ UNCHANGED <<spent, overran>>

(* hold_open_ended's first append: a fact, never refused.                  *)
OpenEndedHold(l, estimate) ==
  /\ holds' = [holds EXCEPT ![l] = [open |-> TRUE, estimate |-> estimate, pod |-> NoPod]]
  /\ UNCHANGED <<spent, overran>>

AnnotateHold(l, p) ==
  /\ IsOpen(l)
  /\ holds' = [holds EXCEPT ![l] = [open |-> TRUE, estimate |-> @.estimate, pod |-> p]]
  /\ UNCHANGED <<spent, overran>>

(* Mutated form: the label is closed but its estimate still counts as held. *)
SettleKeepsEstimate(l, actual) ==
  /\ IsOpen(l)
  /\ spent' = spent + actual
  /\ holds' = [holds EXCEPT ![l].open = FALSE]
  /\ UNCHANGED overran

(* settle: the money is gone whatever the total; an actual above one and a *)
(* half times its estimate is an overrun of this run.                      *)
Settle(l, actual) ==
  /\ IsOpen(l)
  /\ spent' = spent + actual
  /\ holds' = [holds EXCEPT ![l] = NoHold]
  /\ overran' = (overran \/ (holds[l].estimate > 0 /\ 2 * actual > 3 * holds[l].estimate))

(* record_pod_spend: no hold, never refused, no overrun, never raises.     *)
RecordPodSpend(amount) ==
  /\ spent' = spent + amount
  /\ UNCHANGED <<holds, overran>>

(* One round of replay's closing loop: it raises nothing and is nobody's    *)
(* overrun.                                                                 *)
ReplaySettle(l, actual) ==
  /\ IsOpen(l)
  /\ spent' = spent + actual
  /\ holds' = [holds EXCEPT ![l] = NoHold]
  /\ UNCHANGED overran

(* The tracker's state is well typed, and a closed label keeps nothing.    *)
BudgetTypeOK ==
  /\ spent \in Nat
  /\ holds \in [Label -> HoldRecord]
  /\ overran \in BOOLEAN
  /\ \A l \in Label : ~IsOpen(l) => holds[l] = NoHold
=============================================================================
