------------------------------ MODULE Findings ------------------------------
(***************************************************************************)
(* What is read from the records of a run: the verdict on a solution's     *)
(* attempts (verdicts.py), how far qualification advances it               *)
(* (qualification.py), and the living table of findings.py, one row per    *)
(* model, GPU and engine version.  Text, figures and sorting are left out; *)
(* a digest breaks ties in the code, so where two records are equally new  *)
(* either may be the one shown.                                            *)
(***************************************************************************)
EXTENDS RunRecords

CONSTANTS
  RowOf,        \* the table row of a solution: its model, GPU, count and version
  QualityFloor  \* percent of the cases that apply to be accepted; 100 when not declared

ASSUME FindingsAssumption ==
  Solution \subseteq DOMAIN RowOf /\ QualityFloor \in 0..100

-----------------------------------------------------------------------------
(* Verdicts *)

(* final_attempts: of each case the attempt with the highest retry.         *)
FinalAttempts(attempts) ==
  {a \in attempts : \A b \in attempts : b.case = a.case => b.retry <= a.retry}

AcceptedCases(attempts) == {a.case : a \in {b \in attempts : b.accepted = "accepted"}}

SkippedCases(attempts) == {a.case : a \in {b \in attempts : b.accepted = "skipped"}}

Reaches(accepted, applies) == applies > 0 /\ 100 * accepted >= QualityFloor * applies

(* task_verdict: of the cases whose final attempt was not skipped the share *)
(* that was accepted; a missing case counts as not accepted.                *)
TaskPasses(s, attempts) ==
  LET applies == SuiteOf[s] \ SkippedCases(FinalAttempts(attempts))
  IN  Reaches(Cardinality(AcceptedCases(FinalAttempts(attempts)) \cap applies),
              Cardinality(applies))

-----------------------------------------------------------------------------
(* QualificationGraph.advance on the digests qualify_cohort collects: the   *)
(* tiers a solution has reached.  A reproduction is never handed over.      *)

ServingVerdicts(s) == {r.verdict : r \in RecordsOf(s, "serving_performance")}

Tiers(s) ==
  LET attempts == AttemptsUnder(s, protocol)
      passed == attempts # {} /\ TaskPasses(s, attempts)
      served == passed /\ ServingVerdicts(s) # {} /\ ServingVerdicts(s) \subseteq {"pass"}
  IN  {"identity_resolved"} \cup (IF passed THEN {"task_evaluated"} ELSE {})
                            \cup (IF served THEN {"serving_verified"} ELSE {})

-----------------------------------------------------------------------------
(* The records table *)

Identified(s) == \E p \in 1..MaxProtocol : <<s, p>> \in manifest

Reports == {r \in store : r.scope \in {"boot", "memory", "serving_performance"}}
AllAttempts == {r \in store : r.scope = "task_outcome"}

RowReports(k) == {r \in Reports : Identified(r.sol) /\ RowOf[r.sol] = k}
Healthy(k) == {r \in RowReports(k) : r.scope = "memory"}
Failed(k) == {r \in RowReports(k) : r.scope = "boot"}

(* A row needs a boot; it lists its reports and the attempts of their       *)
(* solutions.                                                               *)
HasRow(k) == Healthy(k) \cup Failed(k) # {}
RowRecords(k) ==
  LET reports == RowReports(k)
  IN  reports \cup {a \in AllAttempts : /\ Identified(a.sol)
                                        /\ \E r \in reports : r.sol = a.sol}

Rows == {k \in Range(RowOf) : HasRow(k)}

NotRendered ==
  {r \in Reports \cup AllAttempts : ~Identified(r.sol)}
  \cup UNION {RowReports(k) : k \in Range(RowOf) \ Rows}

(* The boots a row may show: the newest planned among the healthy ones, or  *)
(* among the failed ones when none booted.                                  *)
PlannedAt(s) == CHOOSE i \in DOMAIN Plans : Plans[i] = s
Shown(k) ==
  LET boots == IF Healthy(k) # {} THEN Healthy(k) ELSE Failed(k)
  IN  {r \in boots : \A q \in boots : PlannedAt(q.sol) <= PlannedAt(r.sol)}

(* _task_row: what the row says of the tasks of the solution it shows, under *)
(* its newest scoring rule.                                                 *)
NewestRule(s) == {p \in 1..protocol : /\ AttemptsUnder(s, p) # {}
                                      /\ \A q \in (p + 1)..protocol : AttemptsUnder(s, q) = {}}
TaskRow(s, p) ==
  LET attempts == AttemptsUnder(s, p)
  IN  [cases |-> Cardinality(SuiteOf[s]), accepted |-> Cardinality(AcceptedCases(attempts)),
       skipped |-> Cardinality(SkippedCases(attempts)), passed |-> TaskPasses(s, attempts)]

-----------------------------------------------------------------------------
(* Properties *)

(* Every stored report and attempt is in a row of the table or listed as    *)
(* not rendered, also after a death in the middle of the storing: attempts  *)
(* never stand in the store without a boot of their solution, which is the  *)
(* only way the table could drop one ("never dropped").                     *)
EveryRecordShown ==
  \A r \in (Reports \cup AllAttempts) \ UNION {RowRecords(k) : k \in Rows} : r \in NotRendered

(* Attempts of one execution: with those of several, measured again under   *)
(* another rule or by a repeat and re-scored together, the code lets a       *)
(* random id decide which attempt of a case is final.                       *)
OneExecution(attempts) == \A a, b \in attempts : a.exec = b.exec

(* The counts and the verdict a row shows side by side agree: the counts    *)
(* take any accepted and any skipped attempt, the verdict the final ones    *)
(* alone, and they are the same because only failed requests are retried,   *)
(* no rule turns a failed request, and the plan decides what is skipped.    *)
RowAgreesWithVerdict ==
  \A k \in Rows : \A r \in Shown(k) : \A p \in NewestRule(r.sol) :
    OneExecution(AttemptsUnder(r.sol, p)) =>
      LET shown == TaskRow(r.sol, p)
      IN  shown.passed <=> Reaches(shown.accepted, shown.cases - shown.skipped)

(* Under one scoring rule and without repeat, evidence only takes a         *)
(* solution further: no record that is added takes back a tier.  A floor of *)
(* zero is left out: it is reached before anything is accepted, and lost    *)
(* when the last case turns out to be skipped.                              *)
QualificationNeverFallsBack ==
  [][\A s \in {r.sol : r \in store' \ store} :
       /\ protocol' = protocol /\ ~repeated' /\ QualityFloor > 0
       /\ OneExecution(AttemptsUnder(s, protocol))'
       => Tiers(s) \subseteq Tiers(s)']_vars
=============================================================================
