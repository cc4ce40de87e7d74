--------------------------- MODULE FixProofProofs ---------------------------
(***************************************************************************)
(* Proofs about FixProof, for any cases, rules, hub, answers of the        *)
(* classifier, number of starts and faults.  ChargedInv follows the hold   *)
(* of one diagnosis; ProvenInv carries what a proof has established from   *)
(* the step that stored it to the promotion that rests on it.              *)
(***************************************************************************)
EXTENDS FixProof, FiniteSetTheorems, TLAPS

(* Steps at which a case is in hand, and after its failure is on record.   *)
Diagnosed == {"diagnose", "classify", "correct", "proposed", "charge", "gates", "fixed", "judge",
              "promote", "promoteWrite"}
WithCase == Diagnosed \cup {"broken", "storing"}

TypeInv ==
  /\ pc \in WithCase \cup {"down", "case", "closing"}
  /\ todo \in Seq(BrokenCase)
  /\ pc \in WithCase => todo # <<>>
  /\ DOMAIN rules = Family
  /\ \A f \in Family : DOMAIN rules[f] = {"version", "cites", "intact"} /\ rules[f].version \in Nat \ {0}
  /\ pc = "storing" => then \in {"over", "diagnose", "judge", "closing"}

(* The money of one diagnosis: what is due is what the answer in hand cost, *)
(* and the second question is answered from memory.                        *)
ChargedInv ==
  /\ missed \subseteq {"proposal"}
  /\ due \in 0..2
  /\ pc \notin {"down", "classify", "correct", "proposed", "charge"} => ~hold /\ due = 0
  /\ pc = "classify" => due = 0
  /\ pc \in {"correct", "proposed", "charge"} =>
       \E reply : asked = {[reply |-> reply, calls |-> due]}
  /\ pc = "correct" => Remembered(log) # {}

FailureRecord(b, plan) ==
  b.scope = "boot" /\ b.sol = plan /\ b.tag = "boot:model_failure" /\ b.log # "none"

(* A stored remediation verified by the stored boot m.                     *)
Proves(r, m, f) ==
  /\ m \in r.proving /\ m.sol = r.sol /\ r.mechanism = "verified" /\ r.diagnosed = f
  /\ r.sol # r.corrects /\ BrokenOnRecord(r.corrects)

(* An execution stores measurements, never a remediation.                  *)
NoRemediation(records) == \E S : records \in Seq(S) /\ \A r \in S : r.scope # "remediation"

ProvenInv ==
  /\ NoRemediation(writes)
  /\ pc \in Diagnosed \/ (pc = "storing" /\ then = "judge") => BrokenOnRecord(Bad)
  /\ pc = "storing" /\ then = "diagnose" =>
       BrokenOnRecord(Bad) \/ \E b : writes = <<b>> /\ FailureRecord(b, Bad)
  /\ pc \in {"fixed", "judge"} \/ (pc = "storing" /\ then = "judge") => GatesPass
  /\ pc \in {"promote", "promoteWrite"} =>
       \E r \in Stored("remediation"), m \in Stored("memory") :
         proved = {m} /\ Proves(r, m, Case.family)
  /\ pc = "promoteWrite" => OldVersion(Case.family, TRUE) \in history

IInv == TypeInv /\ ChargedInv /\ ProvenInv /\ PromotionIsProven

-----------------------------------------------------------------------------
LEMMA InitInv == Init => IInv
<1> SUFFICES ASSUME Init PROVE IInv
  OBVIOUS
<1>1. TypeInv
  BY DEF Init, TypeInv, WithCase, Diagnosed
<1>2. ChargedInv
  BY DEF Init, ChargedInv
<1>3. ProvenInv
  <2>1. <<>> \in Seq({})
    OBVIOUS
  <2>2. NoRemediation(writes)
    BY <2>1 DEF Init, NoRemediation
  <2> QED
    BY <2>2 DEF Init, ProvenInv, Diagnosed
<1>4. PromotionIsProven
  BY DEF Init, PromotionIsProven, RuleIsProven, Stored
<1> QED
  BY <1>1, <1>2, <1>3, <1>4 DEF IInv

-----------------------------------------------------------------------------
(* What a step does to the case in hand.                                   *)

LEMMA CaseInHand ==
  ASSUME TypeInv, todo # <<>>
  PROVE  Case \in BrokenCase /\ Case.family \in Family /\ "none" \notin Logs[Bad] /\ Tail(todo) \in Seq(BrokenCase)
<1>1. Head(todo) \in BrokenCase /\ Tail(todo) \in Seq(BrokenCase)
  BY DEF TypeInv
<1> QED
  BY <1>1, FixProofAssumption DEF Case, Bad

LEMMA TypeNext == ASSUME TypeInv, [Next]_vars PROVE TypeInv'
<1> DEFINE Typed == /\ DOMAIN rules = Family
                    /\ \A f \in Family : DOMAIN rules[f] = {"version", "cites", "intact"}
                                          /\ rules[f].version \in Nat \ {0}
           Kept == /\ todo' = todo \/ todo' = <<>> \/ todo' \in CaseLists
                   /\ pc' \in WithCase => todo' = todo /\ (pc \in WithCase \/ (pc = "case" /\ todo # <<>>))
                   /\ pc' \in WithCase \cup {"down", "case", "closing"}
                   /\ pc' = "storing" => then' \in {"over", "diagnose", "judge", "closing"}
<1> USE DEF TypeInv, vars, files, money, process, bounds
<1>1. Typed'
  <2>1. CASE rules' = rules
    BY <2>1
  <2>2. CASE WriteNewVersion
    <3>1. Case.family \in Family
      BY <2>2, CaseInHand DEF WriteNewVersion, WithCase, Diagnosed
    <3> QED
      BY <2>2, <3>1 DEF WriteNewVersion
  <2>3. CASE Crash
    BY <2>3 DEF Crash
  <2> QED
    BY <2>1, <2>2, <2>3 DEF Next, Launch, Return, ReuseStoredFailure, ToBrokenBoot,
       BrokenBootsHealthy, BrokenFails, BrokenLeavesNoLog, BrokenRaises,
       HoldsForClassifier, ClassifierRefused, Classify, DiagnosisRaises,
       Correct, ProposalCharged, ProposalRefused, Charge,
       GateFails, PredictedNotToLoad, NothingMissing, ToFixedBoot, ToFixed,
       NoCapacity, FixedBootsHealthy, FixedRaises, FixedFails, StoreNext,
       Judge, KeepOldVersion, AlreadyInHistory, Executes, NotEvaluated, Recorded
<1>2. CASE Kept
  <2>1. CaseLists \subseteq Seq(BrokenCase) /\ <<>> \in Seq(BrokenCase)
    BY FixProofAssumption
  <2>2. todo' \in Seq(BrokenCase)
    BY <1>2, <2>1
  <2>3. pc' \in WithCase => todo' # <<>>
    BY <1>2
  <2> QED
    BY <1>1, <1>2, <2>2, <2>3
<1>3. CASE /\ todo # <<>> /\ todo' = Tail(todo) /\ pc' = "case"
  <2>1. todo' \in Seq(BrokenCase)
    BY <1>3, CaseInHand
  <2> QED
    BY <1>1, <1>3, <2>1 DEF WithCase, Diagnosed
<1>4. CASE Launch \/ Return \/ Crash
  BY <1>2, <1>4 DEF Launch, Return, Crash, Idle, WithCase, Diagnosed
<1>5. CASE \/ ReuseStoredFailure \/ ToBrokenBoot \/ HoldsForClassifier \/ ClassifierRefused
           \/ Classify \/ DiagnosisRaises \/ Correct \/ ProposalCharged \/ ProposalRefused \/ Charge
           \/ NothingMissing \/ ToFixedBoot \/ KeepOldVersion \/ AlreadyInHistory
  BY <1>2, <1>5 DEF ReuseStoredFailure, ToBrokenBoot, HoldsForClassifier, ClassifierRefused,
     Classify, DiagnosisRaises, Correct, ProposalCharged, ProposalRefused, Charge,
     NothingMissing, ToFixedBoot, ToFixed, KeepOldVersion, AlreadyInHistory, Goes, WithCase, Diagnosed
<1>6. CASE \/ BrokenBootsHealthy \/ BrokenFails \/ BrokenLeavesNoLog \/ BrokenRaises
           \/ FixedBootsHealthy \/ FixedRaises \/ FixedFails
  BY <1>2, <1>6 DEF BrokenBootsHealthy, BrokenFails, BrokenLeavesNoLog, BrokenRaises,
     FixedBootsHealthy, FixedRaises, FixedFails, Executes, WithCase, Diagnosed
<1>7. CASE GateFails \/ PredictedNotToLoad \/ NoCapacity \/ WriteNewVersion
  BY <1>3, <1>7 DEF GateFails, PredictedNotToLoad, NoCapacity, WriteNewVersion, CaseOver,
     WithCase, Diagnosed
<1>8. CASE Judge
  <2>1. CASE CaseOver /\ pc = "judge"
    BY <1>3, <2>1 DEF CaseOver, WithCase, Diagnosed
  <2>2. CASE pc = "judge" /\ pc' = "promote" /\ todo' = todo
    BY <1>2, <2>2 DEF WithCase, Diagnosed
  <2> QED
    BY <1>8, <2>1, <2>2 DEF Judge
<1>9. CASE StoreNext
  <2>1. CASE writes = <<>> /\ then = "over"
    BY <1>3, <1>9, <2>1 DEF StoreNext, WithCase, Diagnosed
  <2>2. CASE ~(writes = <<>> /\ then = "over")
    BY <1>2, <1>9, <2>2 DEF StoreNext, WithCase, Diagnosed
  <2> QED
    BY <2>1, <2>2
<1>10. CASE UNCHANGED vars
  BY <1>2, <1>10
<1> QED
  BY <1>4, <1>5, <1>6, <1>7, <1>8, <1>9, <1>10 DEF Next

-----------------------------------------------------------------------------
(* Money                                                                   *)

LEMMA AnswersCost ==
  ASSUME NEW text, NEW answer \in Ask(text)
  PROVE  /\ \E reply : answer = [reply |-> reply, calls |-> answer.calls]
         /\ answer.calls \in 0..2
         /\ Remembered(text) # {} => answer.calls = 0
<1>1. CASE Remembered(text) # {}
  <2>1. PICK h \in Remembered(text) : answer = [reply |-> h.reply, calls |-> 0]
    BY <1>1 DEF Ask
  <2> QED
    BY <2>1
<1>2. CASE Remembered(text) = {}
  <2>1. PICK r \in Answers[text] : answer = [reply |-> r, calls |-> Calls(r)]
    BY <1>2 DEF Ask
  <2>2. Calls(r) \in 0..2
    BY DEF Calls
  <2> QED
    BY <1>2, <2>1, <2>2
<1> QED
  BY <1>1, <1>2

LEMMA ChargedNext == ASSUME TypeInv, ChargedInv, [Next]_vars PROVE ChargedInv'
<1> USE DEF ChargedInv, vars, files, money, process, bounds
<1>1. CASE Launch
  <2>1. ~(due > Estimate)
    BY FixProofAssumption
  <2> QED
    BY <1>1, <2>1 DEF Launch
<1>2. CASE Return \/ Crash
  BY <1>2 DEF Return, Crash, Idle
<1>3. CASE HoldsForClassifier
  BY <1>3 DEF HoldsForClassifier, Goes
<1>4. CASE Classify
  <2>1. PICK answer \in Ask(log) : /\ asked' = {answer}
                                   /\ due' = due + answer.calls
                                   /\ heard' = Remembers(log, answer.reply)
    BY <1>4 DEF Classify
  <2>2. due' = answer.calls /\ due' \in 0..2 /\ \E reply : asked' = {[reply |-> reply, calls |-> due']}
    BY <1>4, <2>1, AnswersCost DEF Classify
  <2>3. Remembered(log)' # {}
    <3>1. [log |-> log, reply |-> answer.reply] \in heard' /\ log' = log
      BY <1>4, <2>1 DEF Remembers, Classify, Goes
    <3> QED
      BY <3>1 DEF Remembered
  <2> QED
    BY <1>4, <2>2, <2>3 DEF Classify, Goes
<1>5. CASE DiagnosisRaises
  <2>1. ~(due > Estimate)
    BY FixProofAssumption
  <2> QED
    BY <1>5, <2>1 DEF DiagnosisRaises, Settles, Goes
<1>6. CASE Correct
  <2>1. PICK reply : asked = {[reply |-> reply, calls |-> due]}
    BY <1>6 DEF Correct
  <2>2. PICK answer \in asked :
          \E again \in IF answer.reply.family = "unknown" THEN {[answer EXCEPT !.calls = 0]} ELSE Ask(log) :
            due' = due + again.calls
    BY <1>6 DEF Correct
  <2>3. PICK again \in IF answer.reply.family = "unknown" THEN {[answer EXCEPT !.calls = 0]} ELSE Ask(log) :
          due' = due + again.calls
    BY <2>2
  <2>4. again.calls = 0
    <3>1. answer = [reply |-> reply, calls |-> due]
      BY <2>1, <2>2
    <3>2. Remembered(log) # {}
      BY <1>6 DEF Correct
    <3> QED
      BY <2>3, <3>1, <3>2, AnswersCost
  <2>5. due' = due /\ asked' = asked /\ missed' = missed /\ pc' \in {"proposed", "charge"}
    BY <1>6, <2>3, <2>4 DEF Correct
  <2> QED
    BY <1>6, <2>5 DEF Correct
<1>7. CASE ProposalCharged
  BY <1>7 DEF ProposalCharged, Goes
<1>14. CASE ProposalRefused
  BY <1>14 DEF ProposalRefused, Goes
<1>8. CASE Charge
  <2>1. PICK reply : asked = {[reply |-> reply, calls |-> due]}
    BY <1>8 DEF Charge
  <2>2. ASSUME \E answer \in asked : Settles(answer.calls, TRUE)
        PROVE  missed' = missed /\ hold' = FALSE /\ due' = 0
    <3>1. PICK answer \in asked : Settles(answer.calls, TRUE)
      BY <2>2
    <3>2. answer.calls = due
      BY <2>1, <3>1
    <3> QED
      BY <3>1, <3>2 DEF Settles
  <2>3. ASSUME Settles(Estimate, FALSE)
        PROVE  missed' = missed /\ hold' = FALSE /\ due' = 0
    <3>1. ~(due > Estimate)
      BY <1>8, FixProofAssumption DEF Charge
    <3> QED
      BY <2>3, <3>1 DEF Settles
  <2>4. missed' = missed /\ hold' = FALSE /\ due' = 0
    BY <1>8, <2>2, <2>3 DEF Charge
  <2> QED
    BY <1>8, <2>4 DEF Charge, Goes
<1>9. CASE StoreNext
  <2>1. pc' \in {"storing", "case", "over", "diagnose", "judge", "closing"}
    BY <1>9 DEF StoreNext, TypeInv
  <2> QED
    BY <1>9, <2>1 DEF StoreNext
<1>10. CASE \/ ReuseStoredFailure \/ ToBrokenBoot \/ BrokenBootsHealthy \/ BrokenFails
            \/ BrokenLeavesNoLog \/ BrokenRaises \/ ClassifierRefused
            \/ NothingMissing \/ ToFixedBoot
            \/ FixedBootsHealthy \/ FixedRaises \/ FixedFails \/ KeepOldVersion \/ AlreadyInHistory
  <2>1. /\ UNCHANGED money
        /\ pc \notin {"down", "classify", "correct", "proposed", "charge"}
        /\ pc' \notin {"down", "classify", "correct", "proposed", "charge"}
    BY <1>10 DEF ReuseStoredFailure, ToBrokenBoot, BrokenBootsHealthy, BrokenFails,
       BrokenLeavesNoLog, BrokenRaises, ClassifierRefused, NothingMissing, ToFixedBoot, ToFixed,
       FixedBootsHealthy, FixedRaises, FixedFails, KeepOldVersion, AlreadyInHistory, Executes, Goes
  <2> QED
    BY <2>1
<1>11. CASE GateFails \/ PredictedNotToLoad \/ NoCapacity \/ WriteNewVersion
  BY <1>11 DEF GateFails, PredictedNotToLoad, NoCapacity, WriteNewVersion, NotEvaluated,
     Recorded, CaseOver
<1>13. CASE Judge
  <2>1. UNCHANGED money /\ pc = "judge" /\ pc' \in {"promote", "case"}
    BY <1>13 DEF Judge, Recorded, CaseOver
  <2> QED
    BY <2>1
<1>12. CASE UNCHANGED vars
  BY <1>12 DEF Remembered
<1> QED
  BY <1>1, <1>2, <1>3, <1>4, <1>5, <1>6, <1>7, <1>8, <1>9, <1>10, <1>11, <1>12, <1>13, <1>14 DEF Next

-----------------------------------------------------------------------------
(* Files                                                                   *)

LEMMA FilesGrow == ASSUME [Next]_vars PROVE store \subseteq store' /\ history \subseteq history'
<1>1. CASE UNCHANGED <<store, history>>
  BY <1>1
<1>2. CASE StoreNext \/ KeepOldVersion \/ Crash
  BY <1>2 DEF StoreNext, KeepOldVersion, Crash, files
<1>3. CASE Judge
  BY <1>3 DEF Judge, Recorded
<1>4. CASE GateFails \/ PredictedNotToLoad \/ NoCapacity
  BY <1>4 DEF GateFails, PredictedNotToLoad, NoCapacity, NotEvaluated, Recorded
<1> QED
  BY <1>1, <1>2, <1>3, <1>4 DEF Next, Launch, Return, ReuseStoredFailure, ToBrokenBoot,
     BrokenBootsHealthy, BrokenFails, BrokenLeavesNoLog, BrokenRaises,
     HoldsForClassifier, ClassifierRefused, Classify, DiagnosisRaises,
     Correct, ProposalCharged, ProposalRefused, Charge, NothingMissing, ToFixedBoot, ToFixed,
     FixedBootsHealthy, FixedRaises, FixedFails, AlreadyInHistory, WriteNewVersion, Executes,
     vars, files

LEMMA StaysOnRecord ==
  ASSUME NEW plan, store \subseteq store', BrokenOnRecord(plan) PROVE BrokenOnRecord(plan)'
  BY DEF BrokenOnRecord, Stored

LEMMA SeqOfSet == ASSUME NEW S, IsFiniteSet(S) PROVE SetToSeq(S) \in Seq(S)
<1>1. Cardinality(S) \in Nat /\ ExistsBijection(1..Cardinality(S), S)
  BY FS_CardinalityType
<1>2. \E f \in [1..Cardinality(S) -> S] : IsInjective(f)
  BY <1>1 DEF ExistsBijection, Bijection, Injection, IsInjective
<1>3. SetToSeq(S) \in [1..Cardinality(S) -> S]
  BY <1>2 DEF SetToSeq
<1> QED
  BY <1>1, <1>3

LEMMA PlainSeq ==
  ASSUME NEW S, NEW records \in Seq(S), \A r \in S : r.scope # "remediation" PROVE NoRemediation(records)
  BY DEF NoRemediation

LEMMA PlainRecords ==
  ASSUME NEW s, NEW e, NEW text, NEW tag, NEW accepted, NEW within
  PROVE  /\ NoRemediation(<<>>) /\ NoRemediation(Harness(s)) /\ NoRemediation(<<Memory(s, e)>>)
         /\ NoRemediation(<<FailedBoot(s, e, tag, text)>>)
         /\ NoRemediation(Measurements(s, accepted, within))
<1>1. NoRemediation(<<>>)
  <2>1. \A w : w = <<>> => w \in Seq({}) /\ \A q \in {} : q.scope # "remediation"
    OBVIOUS
  <2>2. \A w : w = <<>> => NoRemediation(w)
    BY <2>1, PlainSeq
  <2> QED
    BY <2>2
<1>2. ASSUME NEW r, r.scope # "remediation" PROVE NoRemediation(<<r>>)
  <2>1. \A w : w = <<r>> => w \in Seq({r}) /\ \A q \in {r} : q.scope # "remediation"
    BY <1>2
  <2>2. \A w : w = <<r>> => NoRemediation(w)
    BY <2>1, PlainSeq
  <2> QED
    BY <2>2
<1>3. ASSUME NEW a, NEW b, NoRemediation(a), NoRemediation(b) PROVE NoRemediation(a \o b)
  <2>1. PICK S : a \in Seq(S) /\ \A r \in S : r.scope # "remediation"
    BY <1>3 DEF NoRemediation
  <2>2. PICK T : b \in Seq(T) /\ \A r \in T : r.scope # "remediation"
    BY <1>3 DEF NoRemediation
  <2>3. a \in Seq(S \cup T) /\ b \in Seq(S \cup T)
    BY <2>1, <2>2
  <2>4. a \o b \in Seq(S \cup T)
    BY <2>3
  <2> QED
    BY <2>1, <2>2, <2>4 DEF NoRemediation
<1>4. NoRemediation(SetToSeq({Attempt(s, NewExecution, c, c \in accepted) : c \in TaskCase}))
  <2> DEFINE attempts == {Attempt(s, NewExecution, c, c \in accepted) : c \in TaskCase}
             f == [c \in TaskCase |-> Attempt(s, NewExecution, c, c \in accepted)]
  <2>1. f \in Surjection(TaskCase, attempts)
    BY DEF Surjection
  <2>2. IsFiniteSet(attempts)
    BY <2>1, FS_Surjection, FixProofAssumption
  <2>3. \A r \in attempts : r.scope # "remediation"
    BY DEF Attempt
  <2> HIDE DEF attempts
  <2>4. NoRemediation(SetToSeq(attempts))
    BY <2>2, <2>3, SeqOfSet DEF NoRemediation
  <2> QED
    BY <2>4 DEF attempts
<1>5. NoRemediation(<<Memory(s, e)>>) /\ NoRemediation(<<Memory(s, NewExecution)>>)
  BY <1>2 DEF Memory
<1>6. NoRemediation(<<Serving(s, NewExecution, within)>>)
  BY <1>2 DEF Serving
<1>7. NoRemediation(<<FailedBoot(s, e, tag, text)>>) /\ NoRemediation(Harness(s))
  BY <1>2 DEF FailedBoot, Harness
<1>8. NoRemediation(Measurements(s, accepted, within))
  <2> DEFINE tasks == IF MissingTasks(s)
                      THEN SetToSeq({Attempt(s, NewExecution, c, c \in accepted) : c \in TaskCase})
                      ELSE <<>>
             serving == IF MissingServing(s) THEN <<Serving(s, NewExecution, within)>> ELSE <<>>
  <2>1. NoRemediation(tasks) /\ NoRemediation(serving)
    BY <1>1, <1>4, <1>6
  <2> HIDE DEF tasks, serving
  <2>2. NoRemediation(<<Memory(s, NewExecution)>> \o tasks \o serving)
    BY <1>3, <1>5, <2>1
  <2> QED
    BY <2>2 DEF Measurements, tasks, serving
<1> QED
  BY <1>1, <1>5, <1>7, <1>8

LEMMA CaseKept ==
  ASSUME TypeInv, [Next]_vars, pc' \in WithCase
  PROVE  todo' = todo /\ Case' = Case /\ Bad' = Bad /\ todo # <<>>
<1>1. todo' = todo /\ todo # <<>>
  BY DEF Next, Launch, Return, ReuseStoredFailure, ToBrokenBoot,
     BrokenBootsHealthy, BrokenFails, BrokenLeavesNoLog, BrokenRaises,
     HoldsForClassifier, ClassifierRefused, Classify, DiagnosisRaises,
     Correct, ProposalCharged, ProposalRefused, Charge,
     GateFails, PredictedNotToLoad, NothingMissing, ToFixedBoot, ToFixed,
     NoCapacity, FixedBootsHealthy, FixedRaises, FixedFails, StoreNext,
     Judge, KeepOldVersion, AlreadyInHistory, WriteNewVersion, Crash, Executes, Goes, CaseOver,
     WithCase, Diagnosed, TypeInv, vars, process
<1> QED
  BY <1>1 DEF Case, Bad

(* What a proof has established is kept, step by step.                     *)
LEMMA ProvenNext == ASSUME TypeInv, ProvenInv, [Next]_vars PROVE ProvenInv'
<1> USE DEF Diagnosed
<1>1. store \subseteq store' /\ history \subseteq history'
  BY FilesGrow
<1>2. ASSUME pc' \in WithCase, BrokenOnRecord(Bad) PROVE BrokenOnRecord(Bad)'
  <2>1. Bad' = Bad
    BY <1>2, CaseKept
  <2>2. BrokenOnRecord(Bad)'
    BY <1>1, <1>2, <2>1 DEF BrokenOnRecord, Stored
  <2> QED
    BY <2>2
<1>3. ASSUME pc' \in WithCase, fix' = fix, GatesPass PROVE GatesPass'
  BY <1>3, CaseKept DEF GatesPass
<1>4. NoRemediation(writes) /\ NoRemediation(<<>>)
  BY PlainRecords DEF ProvenInv
<1>5. CASE pc' \in {"down", "case", "closing", "broken"} /\ writes' \in {writes, <<>>}
  BY <1>4, <1>5 DEF ProvenInv
<1>6. CASE /\ pc \in Diagnosed /\ writes' = writes
           /\ pc' \in {"classify", "correct", "proposed", "charge", "gates"}
  <2>1. BrokenOnRecord(Bad)'
    BY <1>2, <1>6 DEF ProvenInv, WithCase
  <2> QED
    BY <1>4, <1>6, <2>1 DEF ProvenInv
<1>7. CASE NothingMissing \/ ToFixedBoot
  <2>1. pc = "gates" /\ pc' \in {"judge", "fixed"} /\ writes' = writes /\ fix' = fix /\ GatesPass
    BY <1>7 DEF NothingMissing, ToFixedBoot, ToFixed, Goes
  <2>2. BrokenOnRecord(Bad)' /\ GatesPass'
    BY <1>2, <1>3, <2>1 DEF ProvenInv, WithCase
  <2> QED
    BY <1>4, <2>1, <2>2 DEF ProvenInv
<1>8. ASSUME NEW records, NEW text, NoRemediation(records), Executes(records, text, "over")
                                                  \/ Executes(records, text, "closing")
      PROVE  ProvenInv'
  BY <1>8 DEF Executes, ProvenInv
<1>9. CASE BrokenBootsHealthy \/ BrokenLeavesNoLog \/ BrokenRaises \/ FixedRaises
  BY <1>8, <1>9, PlainRecords DEF BrokenBootsHealthy, BrokenLeavesNoLog, BrokenRaises, FixedRaises
<1>10. CASE BrokenFails
  <2>1. PICK text \in Logs[Bad] :
          Executes(<<FailedBoot(Bad, NewExecution, "boot:model_failure", text)>>, text, "diagnose")
    BY <1>10 DEF BrokenFails
  <2> DEFINE b == FailedBoot(Bad, NewExecution, "boot:model_failure", text)
  <2>2. writes' = <<b>> /\ pc' = "storing" /\ then' = "diagnose" /\ pc = "broken"
    BY <1>10, <2>1 DEF Executes, BrokenFails
  <2>3. Bad' = Bad /\ "none" \notin Logs[Bad]
    BY <2>2, CaseKept, CaseInHand DEF WithCase
  <2>4. FailureRecord(b, Bad) /\ NoRemediation(<<b>>)
    BY <2>3, PlainRecords DEF FailedBoot, FailureRecord
  <2> HIDE DEF b
  <2>5. \E c : writes' = <<c>> /\ FailureRecord(c, Bad)'
    BY <2>2, <2>3, <2>4 DEF FailureRecord
  <2> QED
    BY <2>2, <2>4, <2>5 DEF ProvenInv
<1>11. CASE FixedBootsHealthy \/ FixedFails
  <2>1. PICK records : Executes(records, log, "judge") /\ NoRemediation(records)
    BY <1>11, PlainRecords DEF FixedBootsHealthy, FixedFails
  <2>2. writes' = records /\ pc' = "storing" /\ then' = "judge" /\ pc = "fixed" /\ fix' = fix
    BY <1>11, <2>1 DEF Executes, FixedBootsHealthy, FixedFails
  <2>3. BrokenOnRecord(Bad)' /\ GatesPass'
    BY <1>2, <1>3, <2>2 DEF ProvenInv, WithCase
  <2> QED
    BY <2>1, <2>2, <2>3 DEF ProvenInv
<1>12. CASE StoreNext
  <2>1. CASE writes = <<>>
    <3>1. pc = "storing" /\ writes' = writes /\ fix' = fix
      BY <1>12, <2>1 DEF StoreNext
    <3>2. CASE then \in {"over", "closing"}
      <4>1. pc' \in {"case", "closing"}
        BY <1>12, <2>1, <3>2 DEF StoreNext
      <4> QED
        BY <1>5, <3>1, <4>1
    <3>3. CASE then \in {"diagnose", "judge"}
      <4>1. pc' = then
        BY <1>12, <2>1, <3>3 DEF StoreNext
      <4>2. BrokenOnRecord(Bad)
        BY <2>1, <3>1, <3>3 DEF ProvenInv
      <4>3. BrokenOnRecord(Bad)' /\ (then = "judge" => GatesPass')
        BY <1>2, <1>3, <3>1, <3>3, <4>1, <4>2 DEF ProvenInv, WithCase
      <4> QED
        BY <1>4, <3>1, <3>3, <4>1, <4>3 DEF ProvenInv
    <3> QED
      BY <3>1, <3>2, <3>3 DEF TypeInv
  <2>2. CASE writes # <<>>
    <3>1. /\ pc = "storing" /\ pc' = "storing" /\ then' = then /\ fix' = fix
          /\ writes' = Tail(writes) /\ store' = store \cup {Head(writes)}
      BY <1>12, <2>2 DEF StoreNext
    <3>2. NoRemediation(writes')
      <4>1. PICK S : writes \in Seq(S) /\ \A r \in S : r.scope # "remediation"
        BY <1>4 DEF NoRemediation
      <4>2. Tail(writes) \in Seq(S)
        BY <2>2, <4>1
      <4> QED
        BY <3>1, <4>1, <4>2, PlainSeq
    <3>3. then = "judge" => BrokenOnRecord(Bad)' /\ GatesPass'
      BY <1>2, <1>3, <3>1 DEF ProvenInv, WithCase
    <3>4. then = "diagnose" => BrokenOnRecord(Bad)'
      <4>1. CASE BrokenOnRecord(Bad)
        BY <1>2, <3>1, <4>1 DEF WithCase
      <4>2. ASSUME NEW b, writes = <<b>>, FailureRecord(b, Bad) PROVE BrokenOnRecord(Bad)'
        <5>1. b \in store' /\ Bad' = Bad
          BY <3>1, <4>2, CaseKept DEF WithCase
        <5> QED
          BY <4>2, <5>1 DEF BrokenOnRecord, Stored, FailureRecord
      <4> QED
        BY <3>1, <4>1, <4>2 DEF ProvenInv
    <3> QED
      BY <3>1, <3>2, <3>3, <3>4 DEF ProvenInv
  <2> QED
    BY <2>1, <2>2
<1>13. CASE ReuseStoredFailure
  <2>1. pc' = "diagnose" /\ writes' = writes /\ store' = store
    BY <1>13 DEF ReuseStoredFailure, files
  <2>2. BrokenOnRecord(Bad)
    BY <1>13 DEF ReuseStoredFailure, StoredFailureLogs, RecordsOf, BrokenOnRecord, Stored
  <2> QED
    BY <1>2, <1>4, <2>1, <2>2 DEF ProvenInv, WithCase
<1>14. CASE Judge
  <2>1. CASE CaseOver
    BY <1>5, <2>1 DEF CaseOver
  <2>2. CASE ~CaseOver
    <3>1. PICK report, served, r :
            /\ report \in FirstOf(RecordsOf(Fixed, "memory")) /\ report # {}
            /\ r = Remediation(Fixed, Mechanism(Fixed), Request(Fixed, served),
                          report \cup RecordsOf(Fixed, "task_outcome")
                                 \cup RecordsOf(Fixed, "serving_performance"))
            /\ Recorded(r) /\ proved' = report /\ pc' = "promote"
            /\ UNCHANGED <<todo, log, fix, writes, then>>
      BY <1>14, <2>2 DEF Judge
    <3>2. PICK m \in RecordsOf(Fixed, "memory") : report = {m}
      BY <3>1 DEF FirstOf
    <3>3. pc = "judge" /\ GatesPass /\ BrokenOnRecord(Bad)
      BY <1>14 DEF Judge, ProvenInv
    <3>4. Fixed \in fix.plan /\ Fixed # Bad
      BY <3>3 DEF GatesPass, Fixed
    <3>5. /\ r.scope = "remediation" /\ r.sol = Fixed /\ r.corrects = Bad
          /\ r.diagnosed = Case.family /\ m \in r.proving /\ r.mechanism = "verified"
      BY <3>1, <3>2, <3>3 DEF Remediation, Mechanism, GatesPass
    <3>6. m \in store' /\ m.scope = "memory" /\ m.sol = Fixed /\ r \in store'
      BY <1>1, <3>1, <3>2 DEF RecordsOf, Recorded
    <3>7. BrokenOnRecord(Bad)' /\ Case' = Case
      BY <1>2, <3>1, <3>3, CaseKept DEF WithCase
    <3>8. BrokenOnRecord(r.corrects)'
      <4>1. BrokenOnRecord(r.corrects)
        BY <3>3, <3>5
      <4> QED
        BY <1>1, <4>1, StaysOnRecord
    <3>9. Proves(r, m, Case.family)'
      <4>1. m.sol = r.sol /\ r.diagnosed = Case.family' /\ r.sol # r.corrects
        BY <3>4, <3>5, <3>6, <3>7
      <4> QED
        BY <3>5, <3>8, <4>1 DEF Proves
    <3>10. r \in Stored("remediation")' /\ m \in Stored("memory")'
      BY <3>5, <3>6 DEF Stored
    <3> QED
      BY <1>4, <3>1, <3>2, <3>7, <3>9, <3>10 DEF ProvenInv
  <2> QED
    BY <2>1, <2>2
<1>15. CASE KeepOldVersion
  <2>1. /\ pc = "promote" /\ pc' = "promoteWrite" /\ writes' = writes /\ proved' = proved
        /\ store' = store /\ rules' = rules
        /\ OldVersion(Case.family, TRUE) \in history'
    BY <1>15 DEF KeepOldVersion, Goes
  <2>2. BrokenOnRecord(Bad)' /\ Case' = Case
    BY <1>2, <2>1, CaseKept DEF ProvenInv, WithCase
  <2>3. PICK r \in Stored("remediation"), m \in Stored("memory") :
          proved = {m} /\ Proves(r, m, Case.family)
    BY <2>1 DEF ProvenInv
  <2>4. r \in Stored("remediation")' /\ m \in Stored("memory")'
    BY <2>1, <2>3 DEF Stored
  <2>6. Proves(r, m, Case.family)'
    <3>1. BrokenOnRecord(r.corrects)
      BY <2>3 DEF Proves
    <3>2. BrokenOnRecord(r.corrects)'
      BY <1>1, <3>1, StaysOnRecord
    <3> QED
      BY <2>2, <2>3, <3>2 DEF Proves
  <2>5. OldVersion(Case.family, TRUE)' \in history'
    BY <2>1, <2>2 DEF OldVersion
  <2> QED
    BY <1>4, <2>1, <2>2, <2>3, <2>4, <2>5, <2>6 DEF ProvenInv
<1>16. CASE UNCHANGED vars
  BY <1>16 DEF ProvenInv, vars, files, process, bounds, Case, Bad, BrokenOnRecord, Stored, GatesPass,
     FailureRecord, Proves, OldVersion
<1>17. CASE HoldsForClassifier \/ Classify \/ Correct \/ ProposalCharged
  BY <1>6, <1>17 DEF HoldsForClassifier, Classify, Correct, ProposalCharged, Goes
<1>18. CASE Charge
  BY <1>5, <1>6, <1>18 DEF Charge, Goes
<1>19. CASE \/ Launch \/ Return \/ ToBrokenBoot \/ ClassifierRefused \/ DiagnosisRaises
            \/ ProposalRefused \/ GateFails \/ PredictedNotToLoad \/ NoCapacity
            \/ AlreadyInHistory \/ WriteNewVersion \/ Crash
  BY <1>5, <1>19 DEF Launch, Return, ToBrokenBoot, ClassifierRefused, DiagnosisRaises,
     ProposalRefused, GateFails, PredictedNotToLoad, NoCapacity, AlreadyInHistory,
     WriteNewVersion, Crash, CaseOver, Goes, Idle
<1> QED
  BY <1>7, <1>9, <1>10, <1>11, <1>12, <1>13, <1>14, <1>15, <1>16, <1>17, <1>18, <1>19 DEF Next

-----------------------------------------------------------------------------
(* Claims in the files                                                     *)

LEMMA RuleKept ==
  ASSUME NEW f \in Family, RuleIsProven(f), store \subseteq store', history \subseteq history',
         rules'[f].version = rules[f].version, rules'[f].cites = rules[f].cites
  PROVE  RuleIsProven(f)'
<1>1. \A v \in 1..(rules'[f].version - 1) :
        [family |-> f, version |-> v, intact |-> TRUE] \in history'
  BY DEF RuleIsProven
<1>2. ASSUME rules'[f].version > 1
      PROVE  \E r \in Stored("remediation")', m \in Stored("memory")' :
               /\ rules'[f].cites = {m} /\ m \in r.proving /\ m.sol = r.sol
               /\ r.mechanism = "verified" /\ r.diagnosed = f
               /\ r.sol # r.corrects /\ BrokenOnRecord(r.corrects)'
  <2>1. PICK r \in Stored("remediation"), m \in Stored("memory") :
          /\ rules[f].cites = {m} /\ m \in r.proving /\ m.sol = r.sol
          /\ r.mechanism = "verified" /\ r.diagnosed = f
          /\ r.sol # r.corrects /\ BrokenOnRecord(r.corrects)
    BY <1>2 DEF RuleIsProven
  <2>2. r \in Stored("remediation")' /\ m \in Stored("memory")'
    BY <2>1 DEF Stored
  <2>3. BrokenOnRecord(r.corrects)'
    BY <2>1, StaysOnRecord
  <2> QED
    BY <2>1, <2>2, <2>3
<1> QED
  BY <1>1, <1>2 DEF RuleIsProven

LEMMA LabelKept ==
  ASSUME NEW r, LabelIsProven(r), store \subseteq store' PROVE LabelIsProven(r)'
  BY DEF LabelIsProven

(* A record satisfied by the measurements it is proved by, all of them     *)
(* stored.                                                                 *)
LEMMA JudgedLabel ==
  ASSUME NEW s, NEW served, NEW mechanism, NEW m \in RecordsOf(s, "memory"),
         served \in FirstOf(RecordsOf(s, "serving_performance")),
         NEW r,
         r = Remediation(s, mechanism, Request(s, served),
               {m} \cup RecordsOf(s, "task_outcome") \cup RecordsOf(s, "serving_performance"))
  PROVE  LabelIsProven(r)
<1>1. /\ r.sol = s /\ r.request = Request(s, served)
      /\ r.proving = {m} \cup RecordsOf(s, "task_outcome") \cup RecordsOf(s, "serving_performance")
  BY DEF Remediation
<1>2. r.proving \subseteq store /\ \A p \in r.proving : p.sol = r.sol
  BY <1>1 DEF RecordsOf
<1>3. m \in r.proving /\ m.scope = "memory"
  BY <1>1 DEF RecordsOf
<1>4. ASSUME Label(r) = "Fixed"
      PROVE  /\ \E p \in r.proving : p.scope = "serving_performance" /\ p.within
             /\ Cardinality({a.case : a \in {p \in r.proving : p.scope = "task_outcome" /\ p.accepted}})
                  >= QualityFloor
  <2>1. r.request = "satisfied"
    BY <1>4 DEF Label
  <2>2. /\ Cardinality(Accepted(s)) >= QualityFloor
        /\ served # {} /\ \A p \in served : p.within
    BY <1>1, <2>1 DEF Request
  <2>3. PICK p \in RecordsOf(s, "serving_performance") : served = {p}
    BY <2>2 DEF FirstOf
  <2>4. p \in r.proving /\ p.scope = "serving_performance" /\ p.within
    BY <1>1, <2>2, <2>3 DEF RecordsOf
  <2>5. {q \in r.proving : q.scope = "task_outcome" /\ q.accepted}
          = {b \in RecordsOf(s, "task_outcome") : b.accepted}
    BY <1>1 DEF RecordsOf
  <2>6. {a.case : a \in {q \in r.proving : q.scope = "task_outcome" /\ q.accepted}} = Accepted(s)
    BY <2>5 DEF Accepted
  <2> QED
    BY <2>2, <2>4, <2>6
<1> QED
  BY <1>2, <1>3, <1>4 DEF LabelIsProven

LEMMA PromotionNext ==
  ASSUME TypeInv, ProvenInv, PromotionIsProven, [Next]_vars PROVE PromotionIsProven'
<1>1. store \subseteq store' /\ history \subseteq history'
  BY FilesGrow
<1>2. ASSUME NEW f \in Family, rules'[f].intact PROVE RuleIsProven(f)'
  <2>1. CASE /\ rules'[f].intact = rules[f].intact
             /\ rules'[f].version = rules[f].version /\ rules'[f].cites = rules[f].cites
    BY <1>1, <1>2, <2>1, RuleKept DEF PromotionIsProven
  <2>2. CASE rules' = rules
    BY <2>1, <2>2
  <2>3. DOMAIN rules = Family /\ DOMAIN rules[f] = {"version", "cites", "intact"} /\ rules[f].version \in Nat \ {0}
    BY DEF TypeInv
  <2>4. CASE WriteNewVersion
    <3>1. /\ rules' = [rules EXCEPT ![Case.family].version = @ + 1, ![Case.family].cites = proved]
          /\ pc = "promoteWrite"
      BY <2>4 DEF WriteNewVersion
    <3>2. CASE Case.family # f
      BY <2>1, <2>3, <3>1, <3>2
    <3>3. CASE Case.family = f
      <4>1. /\ rules'[f].version = rules[f].version + 1 /\ rules'[f].cites = proved
            /\ rules'[f].intact = rules[f].intact
        BY <2>3, <3>1, <3>3
      <4>2. RuleIsProven(f)
        BY <1>2, <4>1 DEF PromotionIsProven
      <4>3. [family |-> f, version |-> rules[f].version, intact |-> TRUE] \in history
        BY <3>1, <3>3 DEF ProvenInv, OldVersion
      <4>4. \A v \in 1..(rules'[f].version - 1) :
              [family |-> f, version |-> v, intact |-> TRUE] \in history'
        <5> TAKE v \in 1..(rules'[f].version - 1)
        <5>1. v = rules[f].version \/ v \in 1..(rules[f].version - 1)
          BY <2>3, <4>1
        <5> QED
          BY <1>1, <4>2, <4>3, <5>1 DEF RuleIsProven
      <4>5. PICK r \in Stored("remediation"), m \in Stored("memory") :
              proved = {m} /\ Proves(r, m, f)
        BY <3>1, <3>3 DEF ProvenInv, Diagnosed
      <4>6. r \in Stored("remediation")' /\ m \in Stored("memory")' /\ BrokenOnRecord(r.corrects)'
        BY <1>1, <4>5, StaysOnRecord DEF Proves, Stored
      <4> QED
        BY <4>1, <4>4, <4>5, <4>6 DEF RuleIsProven, Proves
    <3> QED
      BY <3>2, <3>3
  <2>5. CASE Crash
    <3>1. CASE rules' = rules
      BY <2>2, <3>1
    <3>2. CASE rules' = [rules EXCEPT ![Case.family].intact = FALSE]
      BY <1>2, <2>1, <2>3, <3>2
    <3> QED
      BY <2>5, <3>1, <3>2 DEF Crash, files
  <2> QED
    BY <2>2, <2>4, <2>5 DEF Next, Launch, Return, ReuseStoredFailure, ToBrokenBoot,
       BrokenBootsHealthy, BrokenFails, BrokenLeavesNoLog, BrokenRaises,
       HoldsForClassifier, ClassifierRefused, Classify, DiagnosisRaises,
       Correct, ProposalCharged, ProposalRefused, Charge,
       GateFails, PredictedNotToLoad, NothingMissing, ToFixedBoot, ToFixed,
       NoCapacity, FixedBootsHealthy, FixedRaises, FixedFails, StoreNext,
       Judge, KeepOldVersion, AlreadyInHistory, Executes, NotEvaluated, Recorded, vars, files
<1>3. ASSUME NEW r, r \in Stored("remediation")' PROVE LabelIsProven(r)'
  <2>1. r \in store' /\ r.scope = "remediation"
    BY <1>3 DEF Stored
  <2>2. CASE r \in store
    <3>1. LabelIsProven(r)
      BY <2>1, <2>2 DEF Stored, PromotionIsProven
    <3> QED
      BY <1>1, <3>1, LabelKept
  <2>3. CASE StoreNext
    <3>1. r \in store \/ (writes # <<>> /\ r = Head(writes))
      BY <2>1, <2>3 DEF StoreNext
    <3>2. PICK S : writes \in Seq(S) /\ \A q \in S : q.scope # "remediation"
      BY DEF ProvenInv, NoRemediation
    <3>3. writes # <<>> => Head(writes) \in S
      BY <3>2
    <3> QED
      BY <2>1, <2>2, <3>1, <3>2, <3>3
  <2>4. CASE NotEvaluated
    <3>1. r \in store \/ r = Remediation(Bad, "not_evaluated", "not_evaluated", {})
      BY <2>1, <2>4 DEF NotEvaluated, Recorded
    <3>2. CASE r = Remediation(Bad, "not_evaluated", "not_evaluated", {})
      BY <3>2 DEF Remediation, Label, LabelIsProven
    <3> QED
      BY <2>2, <3>1, <3>2
  <2>5. CASE Judge
    <3>1. PICK report, served, request :
            /\ report \in FirstOf(RecordsOf(Fixed, "memory"))
            /\ served \in FirstOf(RecordsOf(Fixed, "serving_performance"))
            /\ \/ r \in store
               \/ /\ report = {}
                  /\ r = Remediation(Fixed, Mechanism(Fixed), "not_evaluated", {})
               \/ /\ report # {}
                  /\ r = Remediation(Fixed, Mechanism(Fixed), Request(Fixed, served),
                           report \cup RecordsOf(Fixed, "task_outcome")
                                  \cup RecordsOf(Fixed, "serving_performance"))
      BY <2>1, <2>5 DEF Judge, Recorded
    <3>2. CASE r = Remediation(Fixed, Mechanism(Fixed), "not_evaluated", {})
      BY <3>2 DEF Remediation, Label, LabelIsProven
    <3>3. CASE /\ report # {}
               /\ r = Remediation(Fixed, Mechanism(Fixed), Request(Fixed, served),
                        report \cup RecordsOf(Fixed, "task_outcome")
                               \cup RecordsOf(Fixed, "serving_performance"))
      <4>1. PICK m \in RecordsOf(Fixed, "memory") : report = {m}
        BY <3>1, <3>3 DEF FirstOf
      <4>2. LabelIsProven(r)
        BY <3>1, <3>3, <4>1, JudgedLabel
      <4> QED
        BY <1>1, <4>2, LabelKept
    <3> QED
      BY <2>2, <3>1, <3>2, <3>3
  <2> QED
    BY <2>1, <2>2, <2>3, <2>4, <2>5 DEF Next, Launch, Return, ReuseStoredFailure, ToBrokenBoot,
       BrokenBootsHealthy, BrokenFails, BrokenLeavesNoLog, BrokenRaises,
       HoldsForClassifier, ClassifierRefused, Classify, DiagnosisRaises,
       Correct, ProposalCharged, ProposalRefused, Charge,
       GateFails, PredictedNotToLoad, NothingMissing, ToFixedBoot, ToFixed,
       NoCapacity, FixedBootsHealthy, FixedRaises, FixedFails,
       KeepOldVersion, AlreadyInHistory, WriteNewVersion, Crash, Executes, vars, files
<1> QED
  BY <1>2, <1>3 DEF PromotionIsProven

-----------------------------------------------------------------------------
LEMMA InvNext == ASSUME IInv, [Next]_vars PROVE IInv'
  BY TypeNext, ChargedNext, ProvenNext, PromotionNext DEF IInv

(* The inductive invariant of a process that proves corrections, through   *)
(* its deaths and the starts that follow.                                  *)
THEOREM Invariant == Spec => []IInv
<1>1. IInv /\ [Next]_vars => IInv'
  BY InvNext
<1> QED
  BY InitInv, <1>1, PTL DEF Spec

(* Every paid call of the classifier is charged once through the hold of   *)
(* its diagnosis (remediation.py, run_ledger.py), whatever fails or dies;  *)
(* only the proposal of a base model can go uncharged.                     *)
THEOREM DiagnosisIsCharged == Spec => []ClassifierCharged
<1>1. IInv => ClassifierCharged
  BY DEF IInv, ChargedInv, ClassifierCharged
<1> QED
  BY Invariant, <1>1, PTL

(* Every readable rule file that was promoted, and every remediation       *)
(* labelled Fixed, is backed by records in the store and by the history of *)
(* the rule (remediation.py, rule_repository.py), whatever dies.           *)
THEOREM ClaimsAreBacked == Spec => []PromotionIsProven
<1>1. IInv => PromotionIsProven
  BY DEF IInv
<1> QED
  BY Invariant, <1>1, PTL
=============================================================================
