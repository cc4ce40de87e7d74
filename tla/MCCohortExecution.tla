-------------------------- MODULE MCCohortExecution --------------------------
(***************************************************************************)
(* A small instance of CohortExecution for TLC: two candidates on two      *)
(* executions, so that a parked pod is reused or closed.                   *)
(***************************************************************************)
EXTENDS CohortExecution, TLC

CONSTANTS s1, s2, e1, e2

MCSolution == {s1, s2}
MCExecution == {e1, e2}
MCLabel ==
  {RunLabel(s) : s \in Solution} \cup {IdleLabel(p) : p \in Pod} \cup {LeakLabel(p) : p \in Pod}
MCExecOf == [s \in Solution |-> IF s = s1 THEN e1 ELSE e2]
MCEstimate == [s \in Solution |-> 1]
MCMaxTries == [s \in Solution |-> IF s = s1 THEN 2 ELSE 1]
MCOneTry == [s \in Solution |-> 1]

PodSymmetry == Permutations(Pod)
=============================================================================
