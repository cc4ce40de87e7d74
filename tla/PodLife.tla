------------------------------ MODULE PodLife ------------------------------
(***************************************************************************)
(* The pods the harness rents, from their rent to their end.  A GPU pod is *)
(* provisioned (PodStart) and then boots the models of a solution or of a  *)
(* sequence (EngineBoot), as execute_solution calls them; a stager pod     *)
(* downloads weights onto a volume (Staging); both run the same download   *)
(* step.  A serving pod has a healthy engine and answers the task suite    *)
(* (SuiteScoring).  A behaviour is about pods of one kind: what one does   *)
(* never reads what another left in memory.                                *)
(***************************************************************************)
EXTENDS PodStart, Staging, SuiteScoring

VARIABLE kind   \* of the pods of this behaviour

vars == <<kind, startVars, engineVars, stagingVars, suiteVars>>

SomeSetting == CHOOSE s \in Settings : TRUE

Init ==
    /\ kind \in {"gpu", "stager", "serving"}
    /\ StartInit /\ EngineInit /\ StagingInit /\ SuiteInit
    /\ kind # "gpu" => limit = 0
    /\ kind # "serving" => setting = SomeSetting

\* provision returns before the first command is sent.
Starts == /\ kind = "gpu" /\ Provision
          /\ UNCHANGED <<kind, engineVars, stagingVars, suiteVars>>
Serves == /\ kind = "gpu" /\ pc = "started" /\ Client
          /\ UNCHANGED <<kind, startVars, stagingVars, suiteVars>>

\* What Staging leaves of the variables it has from EngineBoot.
NoEngine == UNCHANGED <<kind, startVars, suiteVars, at, turn, attempt, verdict, drop,
                        engines, logSize, seen, blame>>

Stages == kind = "stager" /\ Round /\ NoEngine

Asks == /\ kind = "serving" /\ Suite
        /\ UNCHANGED <<kind, startVars, engineVars, stagingVars>>

Harness == Starts \/ Serves \/ Stages \/ Asks

\* The operator starts a round.
Operator == kind = "stager" /\ (ChooseSite \/ StageAhead) /\ NoEngine

\* What the host and the pod's processes do in the meantime.
World ==
    \/ kind = "gpu" /\ Host /\ UNCHANGED <<kind, engineVars, stagingVars, suiteVars>>
    \/ kind = "gpu" /\ Pod /\ UNCHANGED <<kind, startVars, stagingVars, suiteVars>>
    \/ kind = "stager" /\ Downloads(Fitting) /\ UNCHANGED <<kind, startVars, stagingVars, suiteVars>>
    \/ kind = "stager" /\ (CutOff \/ HourPasses) /\ NoEngine

Ends == \/ kind = "gpu" /\ (pc \in {"given_up", "raised"} \/ Ended)
        \/ kind = "stager" /\ stage = "idle"
        \/ kind = "serving" /\ SuiteDone

Next == Harness \/ Operator \/ World \/ (Ends /\ UNCHANGED vars)

\* The harness is one thread that always goes on: every step of it is a command
\* with a deadline of its own, a sleep, or local.  Nothing is assumed of the
\* host, of a download, of an engine or of the operator.
Fairness == WF_vars(Harness)

Spec == Init /\ [][Next]_vars /\ Fairness

\* Every variable has its type.
TypeOK == StartTypeOK /\ EngineTypeOK /\ StagingTypeOK

\* A rented pod's start is decided, its boots come to an end, and a round of
\* staging and a task suite do, whatever the host, the downloads and the engines
\* do: no wait is for ever.
PodEnds == []<>Ends
=============================================================================
