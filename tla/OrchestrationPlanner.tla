------------------------- MODULE OrchestrationPlanner -------------------------
(***************************************************************************)
(* How an objective becomes a plan: the router's choice of the lead        *)
(* (agents/router.py), the planner's selection of agents and their roles   *)
(* (agents/orchestration/planner.py), and the dependencies and the mode    *)
(* the executor gives the tasks (agents/orchestration/executor.py).        *)
(*                                                                         *)
(* What the keyword tables make of an objective is a score per agent.  A   *)
(* plan is the sequence of the agents; the task at index i is the task of  *)
(* the i-th agent.                                                         *)
(***************************************************************************)
EXTENDS Integers, Sequences, FiniteSets, SequencesExt

CONSTANTS
  Priority,     \* the registered agents, in the order of the router's table
  Formatter,    \* "documentation-agent"
  General,      \* "coding-agent", for an objective without keywords
  Librarian     \* "knowledge-agent", for an objective about a document

Agents == {Priority[i] : i \in DOMAIN Priority}
Rank(a) == CHOOSE i \in DOMAIN Priority : Priority[i] = a

\* The highest score, the earlier agent at a tie, a default without any match.
Route(scores, document) ==
  IF \A a \in Agents : scores[a] = 0
  THEN IF document THEN Librarian ELSE General
  ELSE CHOOSE a \in Agents : \A b \in Agents \ {a} :
         scores[a] > scores[b] \/ (scores[a] = scores[b] /\ Rank(a) < Rank(b))

\* The planner's own terms add to the router's score; a document adds to the
\* librarian's.
PlannerBonus(a, bonus, document) ==
  bonus[a] + (IF a = Librarian /\ document THEN 8 ELSE 0)

Candidates(scores, bonus, document) ==
  [a \in Agents |-> scores[a] + PlannerBonus(a, bonus, document)]

\* By score, the lead first at a tie, otherwise in the order of the registry.
Before(a, b, candidates, lead) ==
  \/ candidates[a] > candidates[b]
  \/ /\ candidates[a] = candidates[b] /\ a # b
     /\ a = lead \/ (b # lead /\ Rank(a) < Rank(b))

\* Who else the objective calls for.
Wanted(candidates, lead, formatting) ==
  {a \in Agents \ {lead} : candidates[a] > 0 /\ (a = Formatter => formatting)}

\* Those of a set of agents in their order.
Ahead(wanted, a, candidates, lead) ==
  Cardinality({b \in wanted : Before(b, a, candidates, lead)})
Ordered(wanted, candidates, lead) ==
  [k \in 1 .. Cardinality(wanted) |-> CHOOSE a \in wanted : Ahead(wanted, a, candidates, lead) = k - 1]

\* The loop looks at the limit only after it added an agent.
Taken(candidates, lead, formatting, limit) ==
  LET wanted == Wanted(candidates, lead, formatting)
      room == IF limit > 1 THEN limit - 1 ELSE 1
  IN  <<lead>> \o SubSeq(Ordered(wanted, candidates, lead), 1,
                         IF Cardinality(wanted) < room THEN Cardinality(wanted) ELSE room)

\* A formatter the objective asks for takes the last place when there is no room.
WithFormatter(taken, asked, limit) ==
  IF ~asked \/ Contains(taken, Formatter) THEN taken
  ELSE IF Len(taken) >= limit THEN [taken EXCEPT ![Len(taken)] = Formatter]
  ELSE Append(taken, Formatter)

\* Cut to the limit, the formatter moved to the end.
SelectAgents(candidates, lead, formatting, asked, limit) ==
  LET taken == WithFormatter(Taken(candidates, lead, formatting, limit),
                             formatting /\ asked, limit)
      cut == SubSeq(taken, 1, IF Len(taken) < limit THEN Len(taken) ELSE limit)
  IN  IF Contains(cut, Formatter) /\ Len(cut) > 1
      THEN Append(RemoveFirst(cut, Formatter), Formatter)
      ELSE cut

TaskRole(plan, i) ==
  IF i = 1 THEN "lead" ELSE IF plan[i] = Formatter THEN "formatter" ELSE "specialist"

Plan(scores, bonus, document, formatting, limit) ==
  SelectAgents(Candidates(scores, bonus, document), Route(scores, document),
               formatting, bonus[Formatter] > 0, limit)

DependsOnLead(plan, i) == IF TaskRole(plan, i) = "lead" THEN {} ELSE {1}

\* _prepare_execution_plan: everybody waits for the lead, the formatter for all.
DependsOn(plan, i) ==
  CASE TaskRole(plan, i) = "lead"       -> {}
    [] TaskRole(plan, i) = "formatter"  ->
         {j \in DOMAIN plan : TaskRole(plan, j) # "formatter"}
    [] TaskRole(plan, i) = "specialist" -> {1}
==============================================================================
