----------------------------- MODULE MCPodLife -----------------------------
EXTENDS PodLife

CONSTANTS m1, m2, dc1, dc2, small

MCServed == <<m1, m2>>
MCRegion == [dc \in {dc1, dc2} |-> 0]
MCGigaBytes == m1 :> 200 @@ m2 :> 300
MCFlavorRam == [f \in {small} |-> 2]

\* Every check, with a plain case for the second round.
MCSuites == {<<"needle">>, <<"tool", "json">>, <<"plain", "image">>, <<"reasoning">>}

\* Plans: everything served; a parser alone, an image limit of zero and a
\* reasoning parser; language only, without a template.
Plan == [maxLen |-> 4096, toolParser |-> TRUE, autoTool |-> TRUE, reasoningParser |-> FALSE,
         chat |-> "thinking", visionConfig |-> TRUE, languageOnly |-> FALSE,
         imageLimit |-> NotSet]
MCDeployments ==
    {Plan,
     [Plan EXCEPT !.maxLen = NotSet, !.autoTool = FALSE, !.imageLimit = 0,
                  !.reasoningParser = TRUE, !.chat = "renderer"],
     [Plan EXCEPT !.languageOnly = TRUE, !.chat = "none"]}

\* The last does not hold the needle, its answer and the margin.
MCServedLens == {32768, 4096, 96}

\* The filler is some twenty words; merges make a rate of a fraction.  A first
\* unit may cost more than the others, or less.
MCTokenizers == [base : {60}, num : {24, 49}, den : {1, 2}, first : {-3, 0, 5}]

\* The tool's parameters and the JSON case's: a closed object of one string.
Str == [type |-> "string", enum |-> {}, required |-> {}, closed |-> FALSE, properties |-> <<>>]
MCSchema == [type |-> "object", enum |-> {}, required |-> {"city"}, closed |-> TRUE,
             properties |-> [city |-> Str]]

Value(type) == [type |-> type, fields |-> <<>>]
Object(fields) == [type |-> "object", fields |-> fields]
MCJsonValues ==
    {Value("text"), Value("string"), Object(<<>>), Object([city |-> Value("string")]),
     Object([city |-> Value("integer")]),
     Object([city |-> Value("string"), country |-> Value("string")])}

MCChecks == <<"whitespace", "punctuation">>
=============================================================================
