------------------------------ MODULE PodCustody ------------------------------
(***************************************************************************)
(* What the orchestrator promises about the pods it rents, whatever the    *)
(* order of its steps: at most one pod is in its hands at a time (working  *)
(* for a candidate or parked between candidates), a parked pod returns to  *)
(* work or ends, a pod that left its hands (its teardown failed, or its    *)
(* process died) never returns to work, and an ended pod never bills       *)
(* again.                                                                  *)
(***************************************************************************)
CONSTANT Pod

VARIABLE custody

State == {"unrented", "working", "parked", "left", "ended"}

InHand(p) == custody[p] \in {"working", "parked"}

Init == custody = [p \in Pod |-> "unrented"]

Rent(p) ==
  /\ custody[p] = "unrented"
  /\ \A q \in Pod : ~InHand(q)
  /\ custody' = [custody EXCEPT ![p] = "working"]

(* The provider rented the pod but its answer was lost.                    *)
RentUnseen(p) ==
  /\ custody[p] = "unrented"
  /\ custody' = [custody EXCEPT ![p] = "left"]

Park(p) ==
  /\ custody[p] = "working"
  /\ custody' = [custody EXCEPT ![p] = "parked"]

Unpark(p) ==
  /\ custody[p] = "parked"
  /\ custody' = [custody EXCEPT ![p] = "working"]

Release(p) ==
  /\ InHand(p)
  /\ \E after \in {"left", "ended"} : custody' = [custody EXCEPT ![p] = after]

(* The start-up sweep terminates some of the pods nobody holds.            *)
Sweep(S) ==
  /\ \A p \in S : custody[p] = "left"
  /\ custody' = [p \in Pod |-> IF p \in S THEN "ended" ELSE custody[p]]

(* The process ends: its exit guards terminate some of the pods in hand    *)
(* and of those left, and what they cannot terminate is left.              *)
Quit(S) ==
  /\ \A p \in S : InHand(p) \/ custody[p] = "left"
  /\ custody' = [p \in Pod |-> IF p \in S THEN "ended"
                               ELSE IF InHand(p) THEN "left" ELSE custody[p]]

Next ==
  \/ \E p \in Pod : Rent(p) \/ RentUnseen(p) \/ Park(p) \/ Unpark(p) \/ Release(p)
  \/ \E S \in SUBSET Pod : Sweep(S) \/ Quit(S)

Spec == Init /\ [][Next]_custody
=============================================================================
