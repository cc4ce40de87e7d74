---------------------------- MODULE SuiteScoring ----------------------------
(***************************************************************************)
(* The task suite on a booted pod: the deployment checks of suite v3       *)
(* (deployment_checks.py, deployment_facts.py), the exact-match cases of   *)
(* deterministic_scorer.py and the second round _run_task_suite sends.     *)
(*                                                                         *)
(* A case is one request, the needle several: its filler is sized with the *)
(* server's own token counts.  Any request may be refused (4xx) or fail in *)
(* transport (a 5xx, a timeout, an answer of another shape).  An answer is *)
(* a text, of which the scorer's normalisations tell four things, a JSON   *)
(* value, or tool calls.                                                   *)
(***************************************************************************)
EXTENDS Integers, Sequences, SequencesExt

CONSTANTS
    Suites,       \* the suites a pod may be given: sequences of cases
    Deployments,  \* what a plan sets of the engine and its checkpoint offers
    ServedLens,   \* context lengths a server may serve
    Tokenizers,   \* tokens of the empty prompt and, as a fraction, per unit of filler
    Schema,       \* the parameters of the tool, and of the JSON case
    JsonValues,   \* what a server may send for them
    Checks        \* deterministic_checks of the protocol

UnitProbe == 64
NeedleMargin == 16
NeedleAnswer == 512   \* max_tokens of the needle case
Shrinks == 8
NotSet == -1

VARIABLES
    setting,   \* what this suite is run with
    ask,       \* the case in hand and where it stands
    scores     \* per case, the status of each of its attempts

suiteVars == <<setting, ask, scores>>

(***************************************************************************)
(* deployment_facts: what a plan says of the server it starts.             *)
(***************************************************************************)
ToolParser(e) == e.toolParser /\ e.autoTool   \* a parser alone is refused by vLLM

\* An image limit that is not set is vLLM's default, 999.
Vision(e) ==
    /\ e.visionConfig /\ ~e.languageOnly
    /\ e.imageLimit = NotSet \/ e.imageLimit > 0

DeploymentFacts(e) ==
    [maxLen |-> e.maxLen, reasoning |-> e.reasoningParser, thinking |-> e.chat = "thinking",
     tool |-> ToolParser(e), vision |-> Vision(e)]

(***************************************************************************)
(* Exact answers: a text is its word, space inside or before the final dot,*)
(* the dot, and capitals.                                                  *)
(***************************************************************************)
Normalized(check, text) ==
    CASE check = "whitespace" -> [text EXCEPT !.space = IF @ = "before_dot" /\ text.dot THEN @ ELSE "none"]
      [] check = "punctuation" -> [text EXCEPT !.dot = FALSE]
      [] check = "casefold" -> [text EXCEPT !.capitals = FALSE]

Normal(text, checks) == FoldLeft(LAMBDA t, check : Normalized(check, t), text, checks)

Expected == [word |-> "answer", space |-> "none", dot |-> FALSE, capitals |-> FALSE]
NoText == [word |-> "", space |-> "none", dot |-> FALSE, capitals |-> FALSE]

\* The image case folds capitals besides what the protocol declares.
ChecksOf(case) == IF case = "image" THEN Append(Checks, "casefold") ELSE Checks

Exact(case, text) == Normal(text, ChecksOf(case)) = Normal(Expected, ChecksOf(case))

(***************************************************************************)
(* schema_errors: whether a value has none.  The suite's schemas are of two *)
(* levels, an object and its members, and have no arrays.                  *)
(***************************************************************************)
TypeFits(type, value) ==
    type \in {"any", value.type} \/ (type = "number" /\ value.type = "integer")

Fits(value, schema) ==
    /\ TypeFits(schema.type, value)
    /\ schema.enum # {} => value \in schema.enum
    /\ value.type = "object" =>
         /\ schema.required \subseteq DOMAIN value.fields
         /\ schema.closed => DOMAIN value.fields \subseteq DOMAIN schema.properties

Satisfies(value, schema) ==
    /\ Fits(value, schema)
    /\ value.type = "object" =>
         \A key \in DOMAIN schema.properties \cap DOMAIN value.fields :
            Fits(value.fields[key], schema.properties[key])

(***************************************************************************)
(* The judgement of an answer.                                             *)
(***************************************************************************)
Mark(holds) == IF holds THEN "pass" ELSE "fail"

\* _judge_tool_calls: the first call to the expected tool is judged, whatever
\* else was called.
GoodCall(calls) ==
    LET matching == SelectSeq(calls, LAMBDA c : c.tool = "expected")
    IN  /\ matching # <<>>
        /\ matching[1].arguments.type = "object"
        /\ Satisfies(matching[1].arguments, Schema)

Judged(case, answer) ==
    CASE case = "tool" -> Mark(GoodCall(answer.calls))
      [] case = "json" -> Mark(answer.value.type # "text" /\ Satisfies(answer.value, Schema))
      [] case = "reasoning" -> Mark(Exact(case, answer.content) /\ answer.reasoning)
      [] OTHER -> Mark(Exact(case, answer.content))

PlainJudged(answer) == Mark(Exact("plain", answer.content))

\* What a server may answer, as far as the case's check looks at it.
Texts == {NoText, [Expected EXCEPT !.word = "other"]}
         \cup [word : {"answer"}, space : {"none", "before_dot"}, dot : BOOLEAN,
               capitals : BOOLEAN]
Calls == {<<>>} \cup {<<[tool |-> "other", arguments |-> v]>> : v \in JsonValues}
         \cup {<<[tool |-> "expected", arguments |-> v]>> : v \in JsonValues}
         \cup {<<[tool |-> "expected", arguments |-> v], [tool |-> "expected", arguments |-> w]>> :
                 v, w \in JsonValues}

Answers(case) ==
    CASE case = "tool" -> [calls : Calls]
      [] case = "json" -> [value : JsonValues]
      [] OTHER -> [content : Texts, reasoning : BOOLEAN]

(***************************************************************************)
(* The needle's size.                                                      *)
(***************************************************************************)
\* needle_answer_budget: at most a quarter of the context.
AnswerBudget(len) == Max({1, Min({NeedleAnswer, len \div 4})})

\* needle_prompt_budget
PromptBudget(len) == len - AnswerBudget(len) - NeedleMargin

\* /tokenize of the prompt with so many units of filler: a unit may merge with
\* its neighbours, and the first one is not like the others.
Tokens(units) ==
    LET t == setting.tokenizer
    IN  t.base + (t.num * units) \div t.den + (IF units > 0 THEN t.first ELSE 0)

Target == PromptBudget(setting.len)

\* Units that fill the rest of the target at the rate the probe measured.
Units0(rate) == ((Target - Tokens(0)) * UnitProbe) \div rate

ShrunkByRate(units, tokens, rate) ==   \* a bug: never by less than a whole unit
    Max({0, units - ((tokens - Target) * UnitProbe) \div rate})

Shrunk(units, tokens, rate) ==
    Max({0, units - ((tokens - Target) * UnitProbe) \div rate - 1})

\* The filler's unit is longer than what its first one costs more or less, and
\* a context that holds the needle is long beside that.
ASSUME NeedleAssumption ==
    /\ ServedLens \subseteq Nat
    /\ \A t \in Tokenizers :
         /\ t.base \in Nat /\ t.num \in Nat /\ t.den \in Nat \ {0} /\ t.first \in Int
         /\ t.first < t.num \div t.den /\ 0 - t.first < t.num \div t.den
         /\ \A len \in ServedLens : t.base <= PromptBudget(len) => len >= 50 * (3 - 2 * t.first)

(***************************************************************************)
(* The suite.                                                              *)
(***************************************************************************)
NoAsk == [round |-> 1, todo |-> <<>>, step |-> "case", rate |-> 0, units |-> 0, shrinks |-> 0]

Settings == [suite : Suites, engine : Deployments, known : BOOLEAN, len : ServedLens,
             tokenizer : Tokenizers]

SuiteInit ==
    /\ setting \in Settings
    /\ ask = [NoAsk EXCEPT !.todo = setting.suite]
    /\ scores = [c \in ToSet(setting.suite) |-> <<>>]

Case == Head(ask.todo)
Facts == DeploymentFacts(setting.engine)

AskGoes(step) == ask' = [ask EXCEPT !.step = step] /\ UNCHANGED <<setting, scores>>

Scores(status) ==
    /\ scores' = [scores EXCEPT ![Case] = Append(@, status)]
    /\ ask' = [NoAsk EXCEPT !.round = ask.round, !.todo = Tail(ask.todo)]
    /\ UNCHANGED setting

\* A check the plan cannot serve, or of which nothing is known, is skipped.
\* The needle and the JSON case need nothing of the plan.
NoTools     == Case = "tool" /\ ~(setting.known /\ Facts.tool)
NoVision    == Case = "image" /\ ~(setting.known /\ Facts.vision)
NoReasoning == Case = "reasoning" /\ ~(setting.known /\ (Facts.reasoning \/ Facts.thinking))
CannotServe == NoTools \/ NoVision \/ NoReasoning

\* No template and no renderer to write a chat with: no request is sent.
CannotChat == setting.engine.chat = "none"

NothingSent ==
    /\ ask.step = "case" /\ CannotChat
    /\ scores' = [c \in ToSet(setting.suite) |-> <<"failed">>]
    /\ ask' = [ask EXCEPT !.step = "done"]
    /\ UNCHANGED setting

BeginCase ==
    /\ ask.step = "case" /\ ask.todo # <<>> /\ ~CannotChat
    /\ \/ CannotServe /\ Scores("skipped")
       \/ ~CannotServe /\ AskGoes(IF Case = "needle" THEN "count" ELSE "chat")

\* A refusal is a verdict about the deployment; any other failure is of the
\* request.
RequestFails ==
    /\ ask.step \in {"count", "probe", "fill", "chat"} /\ Case # "plain"
    /\ Scores("fail") \/ Scores("failed")

\* A plain case refused is a failed request like any other.
PlainFails == ask.step = "chat" /\ Case = "plain" /\ Scores("failed")

\* The server's context length is compared with the plan's, where it is known,
\* and the needle alone must fit.
Planned == IF setting.known THEN Facts.maxLen ELSE NotSet

CountEmpty ==
    /\ ask.step = "count"
    /\ IF Planned \notin {NotSet, setting.len} \/ Tokens(0) > Target
          THEN Scores("fail") ELSE AskGoes("probe")

CountProbe ==
    /\ ask.step = "probe"
    /\ LET rate == Tokens(UnitProbe) - Tokens(0)
       IN  ask' = [ask EXCEPT !.step = "fill", !.rate = rate, !.units = Units0(rate)]
    /\ UNCHANGED <<setting, scores>>

\* Counted and shrunk until it fits.
CountFilled ==
    /\ ask.step = "fill"
    /\ IF Tokens(ask.units) <= Target \/ ask.units = 0 \/ ask.shrinks = Shrinks
          THEN ask' = [ask EXCEPT !.step = "chat"]
          ELSE ask' = [ask EXCEPT !.units = Shrunk(@, Tokens(@), ask.rate), !.shrinks = @ + 1]
    /\ UNCHANGED <<setting, scores>>

ChatAnswered ==
    /\ ask.step = "chat" /\ Case # "plain"
    /\ \E status \in {Judged(Case, a) : a \in Answers(Case)} : Scores(status)

PlainAnswered ==
    /\ ask.step = "chat" /\ Case = "plain"
    /\ \E status \in {PlainJudged(a) : a \in Answers("plain")} : Scores(status)

\* The second round sends the cases whose request failed once more.
FailedCases == SelectSeq(setting.suite, LAMBDA c : Last(scores[c]) = "failed")

RoundEnds ==
    /\ ask.step = "case" /\ ask.todo = <<>> /\ ~CannotChat
    /\ ask' = IF ask.round = 1 /\ FailedCases # <<>>
              THEN [NoAsk EXCEPT !.round = 2, !.todo = FailedCases]
              ELSE [ask EXCEPT !.step = "done"]
    /\ UNCHANGED <<setting, scores>>

Suite ==
    \/ NothingSent \/ BeginCase \/ RequestFails \/ CountEmpty \/ CountProbe \/ CountFilled
    \/ ChatAnswered \/ PlainAnswered \/ PlainFails \/ RoundEnds

SuiteDone == ask.step = "done"

(***************************************************************************)
(* Properties.                                                             *)
(***************************************************************************)

\* The needle's prompt fills the context whatever the tokenizer: it leaves room
\* for the answer and the margin, and no more than a fiftieth of the context
\* and one unit besides (deployment_checks.py: "so the prompt fills the context
\* whatever the tokenizer").  A prompt too long is refused and recorded as the
\* server's failure, one too short passes without testing anything.
NeedleFillsContext ==
    ask.step = "chat" /\ Case = "needle" =>
        LET tokens == Tokens(ask.units)
        IN  /\ tokens + AnswerBudget(setting.len) + NeedleMargin <= setting.len
            /\ Target - tokens <= setting.len \div 50 + Tokens(1) - Tokens(0)
=============================================================================
