---------------------------- MODULE MCOrchestration ----------------------------
(* A small instance of AgentOrchestration: the six agents, a few objectives, *)
(* readings that differ by less and by more than the tolerance.              *)
EXTENDS AgentOrchestration

CONSTANTS sys, kno, res, dev, cod, doc, d1, d2

TheAgents == {sys, kno, res, dev, cod, doc}
TheKinds == [a \in TheAgents |-> CASE a \in {sys, dev} -> "status"
                                   [] a = kno -> "knowledge"
                                   [] a = res -> "research"
                                   [] OTHER -> "prompt"]
TheTasks == TheAgents \cup Direct
TheRows == TheTasks \cup {Parent}
TheOrder == <<sys, kno, res, dev, cod, doc>>

Scored(s) == [a \in TheAgents |-> IF a \in DOMAIN s THEN s[a] ELSE 0]
Objective(scores, bonus, document) ==
  [scores |-> Scored(scores), bonus |-> Scored(bonus), document |-> document]

\* Nothing matches; a document to ask about; the health of the server, and of what
\* is deployed on it, with and without a report; a guide that is the main thing.
TheObjectives ==
  {Objective(<<>>, <<>>, FALSE),
   Objective(<<>>, <<>>, TRUE),
   Objective([a \in {dev} |-> 5], [a \in {sys} |-> 2], FALSE),
   Objective([a \in {dev, sys} |-> 5], [a \in {cod} |-> 2] , FALSE),
   Objective([a \in {dev, sys, doc} |-> 5], [a \in {doc} |-> 3], FALSE),
   Objective([a \in {sys, doc} |-> IF a = doc THEN 7 ELSE 5], [a \in {doc} |-> 3], FALSE)}

Read(c) == [percent |-> [m \in {"cpu", "memory", "system_disk"} |->
                           IF m = "cpu" THEN c ELSE NoValue],
            total |-> [m \in {"memory", "system_disk"} |-> IF m = "memory" THEN 32 ELSE NoValue]]
TheReadings == {Read(10), Read(14)}

Line(form, style, about, values) ==
  [form |-> form, style |-> style, about |-> about, values |-> values]
TheAnswers ==
  {Line("percent", "observation", {"cpu"}, {10}),
   Line("percent", "imperative", {"cpu"}, {20}),
   Line("baseline", "recommendation", {"memory"}, {64}),
   Line("docker_state", "observation", {}, {})}
================================================================================
