-------------------------- MODULE AgentOrchestration --------------------------
(***************************************************************************)
(* The open agent API: an orchestration that plans an objective, runs its  *)
(* agents batch by batch, synthesizes and validates an answer and stores   *)
(* the run (agents/orchestration/, history/orchestration_repository.py),   *)
(* beside requests for a single agent (agents/service.py), all of them     *)
(* coroutines of the process AgentRuntime describes.                       *)
(*                                                                         *)
(* One orchestration is followed; its child tasks are named by their       *)
(* agents.  The other requests are the members of Direct.                  *)
(***************************************************************************)
EXTENDS AgentRuntime

CONSTANTS
  Direct,                                   \* requests for one agent
  Parent,                                   \* the orchestration's ledger row
  Priority, Formatter, General, Librarian,  \* see OrchestrationPlanner
  NoValue,                                  \* see EvidenceValidator
  Objectives,    \* the objectives tried: their scores, bonuses and document (a bound)
  Limits,        \* the values of max_agents tried (a bound)
  Asked,         \* the agents direct requests are for (a bound)
  Reading,       \* what the status tool may deliver (a bound)
  Answer         \* the lines answers are made of (a bound)

Planner == INSTANCE OrchestrationPlanner
Validator == INSTANCE EvidenceValidator

\* Every agent is registered once; objectives score the registered agents.
ASSUME RegistryAssumption ==
  /\ Priority \in Seq(Agent) /\ Planner!Agents = Agent
  /\ \A i, j \in DOMAIN Priority : Priority[i] = Priority[j] => i = j
  /\ {Formatter, General, Librarian} \subseteq Agent
  /\ \A o \in Objectives : /\ o.scores \in [Agent -> Nat] /\ o.bonus \in [Agent -> Nat]
                            /\ o.document \in BOOLEAN

ASSUME AgentOrchestrationAssumption ==
  /\ Task = Agent \cup Direct /\ Row = Task \cup {Parent}
  /\ Parent \notin Task /\ Direct \cap Agent = {}
  /\ Limits \subseteq 1 .. 6 /\ Asked \subseteq Agent
  /\ \A line \in Answer : line.form \in Validator!Forms /\ line.style \in Validator!Styles

\* Every reading is of this machine: what one measures, the others do (collectors/system.py).
ASSUME ReadingAssumption ==
  \A r, s \in Reading, m \in Validator!Metrics :
    r.percent[m] = NoValue <=> s.percent[m] = NoValue

VARIABLES
  phase,      \* where the orchestration is
  plan,       \* its agents, the task of plan[i] being task number i
  batch,      \* the tasks gathered at the moment
  results,    \* completed_results: the tasks whose result is in
  error,      \* orchestration_error
  measured,   \* what the tools of the children delivered
  published,  \* the final answer of the response, when it is a synthesized one
  quoted,     \* the agents whose raw answers are the final answer otherwise
  stored,     \* orchestration_runs.status
  via,        \* how a direct request came in
  served,     \* what its client has got
  kept        \* agent_runs: the direct runs in the history

orchestration == <<phase, plan, batch, results, error, published, quoted, stored>>
requests == <<via, served, kept>>
vars == <<runtimeVars, orchestration, measured, requests>>

Phases == {"idle", "batch", "synthesis", "repair", "closing", "saving",
           "answered", "refused", "dead"}
Errors == {"none", "deadlock", "child", "synthesis"}
Vias == {"none", "run", "stream", "chat"}
Servings == {"idle", "running", "shown", "done", "error", "gone", "dead"}

\* Type correctness of both layers.
TypeOK ==
  /\ RuntimeTypeOK
  /\ phase \in Phases
  /\ plan \in Seq(Agent)
  /\ batch \subseteq Agent /\ results \subseteq Agent
  /\ error \in Errors
  /\ \A line \in published : line.form \in Validator!Forms /\ line.style \in Validator!Styles
  /\ quoted \subseteq Agent
  /\ stored \in {"none", "completed", "failed"}
  /\ via \in [Direct -> Vias] /\ served \in [Direct -> Servings]
  /\ kept \subseteq Direct

Init ==
  /\ RuntimeInit
  /\ phase = "idle" /\ plan = <<>> /\ batch = {} /\ results = {}
  /\ error = "none"
  /\ measured = [a \in Agent |-> Validator!Unknown]
  /\ published = {} /\ quoted = {} /\ stored = "none"
  /\ via = [d \in Direct |-> "none"]
  /\ served = [d \in Direct |-> "idle"]
  /\ kept = {}

-------------------------------------------------------------------------------
(* The orchestration.                                                      *)

Children == {plan[i] : i \in DOMAIN plan}
Number(a) == CHOOSE i \in DOMAIN plan : plan[i] = a
Needs(a) == {plan[j] : j \in Planner!DependsOn(plan, Number(a))}
Pending == Children \ results
Ready == {a \in Pending : Needs(a) \subseteq results}

\* OrchestrationService.run: the plan and the running row of the orchestration.
Request ==
  /\ phase = "idle"
  /\ \E o \in Objectives, formatting \in BOOLEAN, limit \in Limits :
       plan' = Planner!Plan(o.scores, o.bonus, o.document, formatting, limit)
  /\ StartRow(Parent)
  /\ phase' = "batch"
  /\ UNCHANGED <<process, runs, active, beat, lostBeat, batch, results, error,
                 measured, published, quoted, stored, requests>>

\* _build_fallback_answer, without a synthesis: the formatter's answer, or those of
\* everybody who is done and did not answer with nothing; neither is validated.
Fallback(given) ==
  \E spoke \in SUBSET {a \in given : outcome[a] = "completed"} :
    quoted' = IF \E a \in spoke : Planner!TaskRole(plan, Number(a)) = "formatter"
              THEN {Formatter} ELSE spoke

\* The next ready tasks are gathered; without one the run ends.
Dispatch ==
  /\ phase = "batch" /\ batch = {} /\ Pending # {}
  /\ IF Ready = {}
     THEN error' = "deadlock" /\ phase' = "closing" /\ Fallback(results) /\ UNCHANGED batch
     ELSE batch' = Ready /\ UNCHANGED <<error, phase, quoted>>
  /\ UNCHANGED <<runtimeVars, plan, results, measured, published, stored, requests>>

\* A child request is manual and carries neither attachments nor public research.
StartChild(a) ==
  /\ phase = "batch" /\ a \in batch
  /\ Start(a, a, FALSE, FALSE)
  /\ UNCHANGED <<orchestration, measured, requests>>

\* A tool of a child delivers a reading with its success.
ChildReturns(a) ==
  /\ Returns(a)
  /\ IF Calling(a, "status") /\ stage'[a] = "running"
     THEN \E r \in Reading : measured' = [measured EXCEPT ![a] = r]
     ELSE UNCHANGED measured
  /\ UNCHANGED <<orchestration, requests>>

\* All results of the batch are taken, then a failure ends the loop.
GatheredAnswers == \A a \in batch : stage[a] = "ended" /\ outcome[a] # "raised"
Gathered == \A a \in batch : stage[a] = "ended"
BrokenEntirely == \A a \in batch : outcome[a] # "completed"
Broken == \E a \in batch : outcome[a] # "completed"

Gather ==
  /\ phase = "batch" /\ batch # {} /\ Gathered
  /\ results' = results \cup batch
  /\ batch' = {}
  /\ IF Broken
     THEN error' = "child" /\ phase' = "closing" /\ Fallback(results')
     ELSE /\ phase' = IF Children \subseteq results' THEN "synthesis" ELSE "batch"
          /\ UNCHANGED <<error, quoted>>
  /\ UNCHANGED <<runtimeVars, plan, measured, published, stored, requests>>

\* The tool steps of the results, by the number of their task.  A status agent has
\* one with a reading, the others theirs without.
ToolSteps ==
  [i \in {i \in DOMAIN plan : plan[i] \in results /\ Kind[plan[i]] # "prompt"} |->
     [tool |-> Kind[plan[i]], facts |-> measured[plan[i]]]]
Evidence == Validator!Snapshot(ToolSteps)

\* The model answers, and the answer is checked; a rejected one is repaired once.
Synthesize ==
  /\ phase = "synthesis"
  /\ \/ \E answer \in SUBSET Answer :
          IF Validator!Passed(answer, Evidence)
          THEN published' = answer /\ phase' = "closing" /\ UNCHANGED error
          ELSE phase' = "repair" /\ UNCHANGED <<published, error>>
     \/ error' = "synthesis" /\ phase' = "closing" /\ UNCHANGED published
  /\ UNCHANGED <<runtimeVars, plan, batch, results, measured, quoted, stored, requests>>

\* The repaired answer may quote the evidence summary it is given.
Repair ==
  /\ phase = "repair"
  /\ \/ \E lines \in SUBSET Answer, summary \in {{}, Validator!Summary(Evidence)} :
          LET answer == lines \cup summary IN
          IF Validator!Passed(answer, Evidence)
          THEN published' = answer /\ UNCHANGED error
          ELSE error' = "synthesis" /\ UNCHANGED published
     \/ error' = "synthesis" /\ UNCHANGED published
  /\ phase' = "closing"
  /\ UNCHANGED <<runtimeVars, plan, batch, results, measured, quoted, stored, requests>>

\* The row is finished before the run is stored.
RunStatus == IF error = "none" THEN "completed" ELSE "failed"
FinishParent ==
  /\ phase = "closing"
  /\ WriteRow(Parent, RunStatus)
  /\ phase' = "saving"
  /\ UNCHANGED <<process, runs, active, beat, lostBeat, plan, batch, results, error,
                 measured, published, quoted, stored, requests>>

\* The run and its task rows in one transaction, or an error to the client.
Save ==
  /\ phase = "saving"
  /\ \/ stored' = RunStatus /\ phase' = "answered"
     \/ phase' = "refused" /\ UNCHANGED stored
  /\ UNCHANGED <<runtimeVars, plan, batch, results, error, measured,
                 published, quoted, requests>>

-------------------------------------------------------------------------------
(* Requests for one agent.                                                 *)

\* _validate_research_scope.
InScope(a, smart, context, source) ==
  /\ source # "none" => Kind[a] = "research"
  /\ source = "query" => ~smart /\ ~context

\* resolve_request, and the run it starts; the chat runs the agent as it is.
Ask(d) ==
  /\ served[d] = "idle"
  /\ \E a \in Asked, smart, context \in BOOLEAN, source \in {"none", "urls", "query"},
        v \in Vias \ {"none"} :
       /\ InScope(a, smart, context, source)
       /\ via' = [via EXCEPT ![d] = v]
       /\ LET web == source # "none" IN
          IF v = "chat" THEN StartPlain(d, a, context, web) ELSE Start(d, a, context, web)
  /\ served' = [served EXCEPT ![d] = "running"]
  /\ UNCHANGED <<orchestration, measured, kept>>

DirectReturns(d) == Returns(d) /\ UNCHANGED <<orchestration, measured, requests>>
Leaves(t) == Leave(t) /\ UNCHANGED <<orchestration, measured, requests>>

Serve(d, s) == served' = [served EXCEPT ![d] = s]

\* A stream sends the steps and the answer before it stores the run.
Show(d) ==
  /\ served[d] = "running" /\ via[d] \in {"stream", "chat"}
  /\ stage[d] = "ended" /\ outcome[d] \in {"completed", "failed"}
  /\ Serve(d, "shown")
  /\ UNCHANGED <<runtimeVars, orchestration, measured, via, kept>>

Keep(d) ==
  /\ \/ served[d] = "shown"
     \/ served[d] = "running" /\ via[d] = "run" /\ stage[d] = "ended"
        /\ outcome[d] \in {"completed", "failed"}
  /\ \/ kept' = kept \cup {d} /\ Serve(d, "done")
     \/ Serve(d, "error") /\ UNCHANGED kept
  /\ UNCHANGED <<runtimeVars, orchestration, measured, via>>

\* The run raised: an error response, or an error event.
Fail(d) ==
  /\ served[d] = "running" /\ stage[d] = "ended" /\ outcome[d] = "raised"
  /\ Serve(d, "error")
  /\ UNCHANGED <<runtimeVars, orchestration, measured, via, kept>>

\* The client of a stream leaves, during the run or between two events.
Disconnect(d) ==
  /\ served[d] \in {"running", "shown"} /\ via[d] \in {"stream", "chat"}
  /\ Serve(d, "gone")
  /\ \/ Cancelled(d)
     \/ stage[d] = "ended" /\ UNCHANGED runtimeVars
  /\ UNCHANGED <<orchestration, measured, via, kept>>

-------------------------------------------------------------------------------

Crash ==
  /\ RuntimeCrash
  /\ phase' = IF phase \in {"idle", "answered", "refused"} THEN phase ELSE "dead"
  /\ batch' = {}
  /\ served' = [d \in Direct |->
                  IF served[d] \in {"running", "shown"} THEN "dead" ELSE served[d]]
  /\ UNCHANGED <<plan, results, error, measured, published, quoted, stored, via, kept>>

Pulse == Interval /\ UNCHANGED <<orchestration, measured, requests>>

Orchestrates == Dispatch \/ Gather \/ Synthesize \/ Repair \/ FinishParent \/ Save
Serves(d) == DirectReturns(d) \/ Show(d) \/ Keep(d) \/ Fail(d)

Next ==
  \/ Request \/ Orchestrates \/ Pulse \/ Crash
  \/ \E a \in Agent : StartChild(a) \/ ChildReturns(a)
  \/ \E d \in Direct : Ask(d) \/ Serves(d) \/ Disconnect(d)
  \/ \E t \in Task : Leaves(t)

\* The event loop goes on, and every call of a tool or of the model has a timeout.
Fairness ==
  /\ WF_vars(Orchestrates)
  /\ \A a \in Agent : WF_vars(StartChild(a)) /\ WF_vars(ChildReturns(a))
  /\ \A d \in Direct : WF_vars(Serves(d))
  /\ \A t \in Task : WF_vars(Leaves(t))

Spec == Init /\ [][Next]_vars /\ Fairness

-------------------------------------------------------------------------------
(* Properties.                                                             *)

\* A child runs only on finished work: a specialist on the result of the lead, the
\* formatter on everybody's; and the tasks of a plan never wait for each other in
\* a circle, so that no orchestration is given up for a deadlock (planner.py, the
\* formatter that is moved to the end; executor.py, the ready list, the break after
\* a failed batch).
PlansAreExecutable ==
  /\ \A i, j \in DOMAIN plan :
       stage[plan[i]] # "idle" /\ j # i /\ (j = 1 \/ plan[i] = Formatter) =>
         stage[plan[j]] = "ended" /\ outcome[plan[j]] = "completed"
  /\ error # "deadlock"

\* A completed orchestration has completed children only, its row is open only
\* while it goes on, and the stored run says the same, unless the process died or
\* a write was lost.
OrchestrationIsRecorded ==
  /\ ledger[Parent] = "completed" => \A a \in Children : outcome[a] = "completed"
  /\ Parent \notin lostRow =>
       /\ ledger[Parent] \in Open => phase \notin {"idle", "saving", "answered", "refused"}
       /\ stored # "none" => ledger[Parent] = stored

\* A row that says running is of a run that goes on, unless its process died or a
\* write was lost; a finished row says how the run ended.
RunsAreRecorded ==
  \A t \in Task \ lostRow :
    /\ ledger[t] \in Open => stage[t] \in {"running", "dead"}
    /\ ledger[t] \in Settled => ledger[t] = RowOf(outcome[t])
    /\ stage[t] \in {"ending", "ended"} /\ t \notin plain => ledger[t] \in Settled

\* The ledger and the stored runs tell what happened, to single runs and to
\* orchestrations, whatever was lost on the way (runtime_instrumentation.py,
\* orchestration/service.py, orchestration_repository.py).
LedgerIsTrue == TypeOK /\ OrchestrationIsRecorded /\ RunsAreRecorded

\* A synthesized answer is published only when every agent of the plan did its
\* part, and what it observes about a metric is what the tools last measured,
\* whether it was repaired or not (synthesizer.py, validator.py).  The fallback of
\* a run without a synthesis is nobody's who failed and never formatted, since a
\* formatter that is done leaves nothing to fall back from; it is never mixed with
\* a synthesized answer, and neither the row nor the history of such a run says
\* completed (executor.py, orchestration/service.py, orchestration_repository.py).
PublishedIsSupported ==
  /\ published # {} =>
       /\ error = "none" /\ quoted = {}
       /\ \A a \in Children : outcome[a] = "completed"
       /\ \A line \in published, m \in Validator!Metrics :
            LET read == {i \in DOMAIN plan : measured[plan[i]].percent[m] # NoValue}
                last == CHOOSE i \in read : \A j \in read : j <= i
            IN  line.form = "percent" /\ line.style = "observation"
                /\ m \in line.about /\ read # {} =>
                  \A v \in line.values :
                    Validator!Distance(v, measured[plan[last]].percent[m]) <= 1
  /\ \A a \in quoted : outcome[a] = "completed" /\ a \in results \ {Formatter}
  /\ quoted # {} => error # "none" /\ "completed" \notin {stored, ledger[Parent]}

\* As long as heartbeats are written, an agent with a task is seen busy, also
\* when another task of the agent has just ended; an agent seen busy or offline
\* without a task was left so by a process that died (truth_service.py).
BusyIsVisible ==
  \A a \in Agent \ lostBeat :
    /\ active[a] # <<>> => RuntimeStatus(a) = "busy"
    /\ active[a] = <<>> /\ RuntimeStatus(a) # "available" => beat[a].process # process

\* An orchestration is answered, stored or not, unless the process dies.
OrchestrationEnds == phase = "batch" ~> phase \in {"answered", "refused", "dead"}
==============================================================================
