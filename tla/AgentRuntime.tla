----------------------------- MODULE AgentRuntime -----------------------------
(***************************************************************************)
(* Agent runs inside the backend process: the calls an agent's handler     *)
(* makes (agents/executor.py, agents/research_executor.py), the            *)
(* instrumentation around them (agents/runtime_instrumentation.py), the    *)
(* task ledger and the heartbeats it writes (agents/truth_repository.py)   *)
(* and what the truth service reads out of them (agents/truth_service.py). *)
(*                                                                         *)
(* The process runs one event loop: whatever lies between two awaits is    *)
(* one step.  Awaited are the tools, the model, and the end of the         *)
(* heartbeat loop.                                                         *)
(***************************************************************************)
EXTENDS Integers, Sequences, FiniteSets, SequencesExt

CONSTANTS
  Agent,
  Kind,          \* the handler of an agent
  Task,
  Row,           \* the tasks with a ledger row: Task and perhaps others
  NoAgent, NoTask,
  TTL,           \* heartbeat_ttl_seconds, in heartbeat intervals
  MaxProcess,    \* how many processes there may be, one after the other (a bound)
  MaxLost,       \* how many rows and heartbeats may be out of date at once (a bound)
  Faults         \* what may go wrong

(* "row", "beat": a ledger or heartbeat write raises, which is logged and   *)
(* ignored.  "crash": the process dies and is started again.                *)
ASSUME AgentRuntimeAssumption ==
  /\ IsFiniteSet(Agent)
  /\ Kind \in [Agent -> {"status", "knowledge", "research", "prompt"}]
  /\ Task \subseteq Row
  /\ TTL \in Nat \ {0} /\ MaxProcess \in Nat \ {0} /\ MaxLost \in Nat
  /\ Faults \subseteq {"row", "beat", "crash"}

VARIABLES
  process,    \* the number of the live process
  agentOf,    \* the agent of a task
  plain,      \* tasks run without instrumentation
  calls,      \* the calls the handler of a task still has to make
  found,      \* tasks whose knowledge search found sources
  stage,      \* where the run of a task is
  outcome,    \* how it ended
  active,     \* _active_tasks: the tasks of an agent, in the order they started
  ledger,     \* task_ledger.status
  lostRow,    \* rows whose last write failed
  beat,       \* the latest row of agent_runtime_heartbeats of an agent
  lostBeat    \* agents whose last heartbeat write failed

runs == <<agentOf, plain, calls, found, stage, outcome>>
truth == <<ledger, lostRow, beat, lostBeat>>
runtimeVars == <<process, runs, active, truth>>

Open == {"created", "assigned", "running"}
Settled == {"completed", "failed", "cancelled"}
LedgerStatus == Open \cup Settled
Stages == {"idle", "running", "ending", "ended", "dead"}
Outcomes == {"none", "completed", "failed", "raised", "cancelled"}
Calls == {"status", "ask", "search", "web", "chat"}
Beats == [status : {"none", "available", "busy"}, task : Task \cup {NoTask},
          process : 0 .. MaxProcess, age : 0 .. TTL + 1]
NoBeat == [status |-> "none", task |-> NoTask, process |-> 0, age |-> 0]

RuntimeTypeOK ==
  /\ process \in 1 .. MaxProcess
  /\ agentOf \in [Task -> Agent \cup {NoAgent}]
  /\ plain \subseteq Task /\ found \subseteq Task
  /\ DOMAIN calls = Task /\ \A t \in Task : calls[t] \in Seq(Calls)
  /\ stage \in [Task -> Stages]
  /\ outcome \in [Task -> Outcomes]
  /\ DOMAIN active = Agent /\ \A a \in Agent : active[a] \in Seq(Task)
  /\ ledger \in [Row -> LedgerStatus \cup {"none"}]
  /\ lostRow \subseteq Row
  /\ beat \in [Agent -> Beats]
  /\ lostBeat \subseteq Agent

RuntimeInit ==
  /\ process = 1
  /\ agentOf = [t \in Task |-> NoAgent]
  /\ plain = {} /\ found = {}
  /\ calls = [t \in Task |-> <<>>]
  /\ stage = [t \in Task |-> "idle"]
  /\ outcome = [t \in Task |-> "none"]
  /\ active = [a \in Agent |-> <<>>]
  /\ ledger = [r \in Row |-> "none"]
  /\ lostRow = {} /\ lostBeat = {}
  /\ beat = [a \in Agent |-> NoBeat]

-------------------------------------------------------------------------------
(* The ledger and the heartbeats.                                          *)

MayLose(kind) ==
  kind \in Faults /\ Cardinality(lostRow) + Cardinality(lostBeat) < MaxLost

\* _write_task: the row is replaced, or the write is lost.
WriteRow(r, status) ==
  \/ ledger' = [ledger EXCEPT ![r] = status] /\ lostRow' = lostRow \ {r}
  \/ MayLose("row") /\ UNCHANGED ledger /\ lostRow' = lostRow \cup {r}

\* start_task writes the row three times, each write for itself.
StartRow(r) ==
  \/ ledger' = [ledger EXCEPT ![r] = "running"] /\ lostRow' = lostRow \ {r}
  \/ /\ MayLose("row")
     /\ \E s \in {ledger[r], "created", "assigned"} : ledger' = [ledger EXCEPT ![r] = s]
     /\ lostRow' = lostRow \cup {r}

\* _refresh_agent_heartbeat reports the task that started last, or none.
Report(tasks) ==
  [status |-> IF tasks = <<>> THEN "available" ELSE "busy",
   task |-> IF tasks = <<>> THEN NoTask ELSE Last(tasks),
   process |-> process, age |-> 0]

RecordBeat(a, tasks) ==
  \/ beat' = [beat EXCEPT ![a] = Report(tasks)] /\ lostBeat' = lostBeat \ {a}
  \/ MayLose("beat") /\ UNCHANGED beat /\ lostBeat' = lostBeat \cup {a}

\* _activate_task and _deactivate_task.
Activate(t, a) ==
  /\ active' = [active EXCEPT ![a] = Append(@, t)]
  /\ RecordBeat(a, active'[a])
DeactivateAll(t, a) ==
  /\ active' = [active EXCEPT ![a] = RemoveFirst(@, t)]
  /\ RecordBeat(a, <<>>)
Deactivate(t, a) ==
  /\ active' = [active EXCEPT ![a] = RemoveFirst(@, t)]
  /\ RecordBeat(a, active'[a])

\* What _build_agent_state answers for an enabled agent.
ReadyState == "available"
RuntimeStatus(a) ==
  IF beat[a].status = "none" THEN ReadyState
  ELSE IF beat[a].age > TTL
       THEN IF beat[a].status = "busy" THEN "offline" ELSE ReadyState
       ELSE beat[a].status

-------------------------------------------------------------------------------
(* What the handlers call, one after the other.                            *)

StatusCalls == <<"status", "chat">>
PromptCalls == <<"chat">>
KnowledgeCalls(context) == IF context THEN PromptCalls ELSE <<"ask">>
ResearchCalls(context, web) ==
  IF context /\ ~web THEN PromptCalls
  ELSE IF web THEN <<"search", "web", "chat">> ELSE <<"search", "chat">>
HandlerCalls(a, context, web) ==
  CASE Kind[a] = "status"    -> StatusCalls
    [] Kind[a] = "prompt"    -> PromptCalls
    [] Kind[a] = "knowledge" -> KnowledgeCalls(context)
    [] Kind[a] = "research"  -> ResearchCalls(context, web)

\* InstrumentedAgentExecutor.run up to the first call of the handler.
Start(t, a, context, web) ==
  /\ stage[t] = "idle"
  /\ stage' = [stage EXCEPT ![t] = "running"]
  /\ agentOf' = [agentOf EXCEPT ![t] = a]
  /\ calls' = [calls EXCEPT ![t] = HandlerCalls(a, context, web)]
  /\ StartRow(t)
  /\ Activate(t, a)
  /\ UNCHANGED <<process, plain, found, outcome>>

\* The handler without the instrumentation around it, as the chat uses it.
StartPlain(t, a, context, web) ==
  /\ stage[t] = "idle"
  /\ stage' = [stage EXCEPT ![t] = "running"]
  /\ agentOf' = [agentOf EXCEPT ![t] = a]
  /\ calls' = [calls EXCEPT ![t] = HandlerCalls(a, context, web)]
  /\ plain' = plain \cup {t}
  /\ UNCHANGED <<process, found, outcome, active, truth>>

\* The handler returned or raised: the row is finished before the heartbeat
\* loop is awaited.
RowOf(o) == IF o = "raised" THEN "failed" ELSE o
End(t, o) ==
  /\ outcome' = [outcome EXCEPT ![t] = o]
  /\ calls' = [calls EXCEPT ![t] = <<>>]
  /\ IF t \in plain
     THEN stage' = [stage EXCEPT ![t] = "ended"] /\ UNCHANGED truth
     ELSE /\ stage' = [stage EXCEPT ![t] = "ending"]
          /\ WriteRow(t, RowOf(o)) /\ UNCHANGED <<beat, lostBeat>>
  /\ UNCHANGED <<process, agentOf, plain, found, active>>

Continue(t) ==
  /\ calls' = [calls EXCEPT ![t] = Tail(@)]
  /\ UNCHANGED <<process, agentOf, plain, stage, outcome, active, truth>>

Calling(t, c) == stage[t] = "running" /\ calls[t] # <<>> /\ Head(calls[t]) = c

\* A tool that fails ends the run with its error as the answer, ...
StatusReturns(t, ok) ==
  /\ Calling(t, "status")
  /\ IF ok THEN Continue(t) /\ UNCHANGED found ELSE End(t, "failed")

AskReturns(t, ok) ==
  /\ Calling(t, "ask")
  /\ End(t, IF ok THEN "completed" ELSE "failed")

\* ... but a failed search is made up for by the public web, and a failed
\* retrieval by what the search found.
SearchReturns(t, ok, sources) ==
  /\ Calling(t, "search")
  /\ IF ok \/ calls[t][2] = "web"
     THEN Continue(t) /\ found' = IF ok /\ sources THEN found \cup {t} ELSE found
     ELSE End(t, "failed")

WebReturns(t, ok) ==
  /\ Calling(t, "web")
  /\ IF ok \/ t \in found THEN Continue(t) /\ UNCHANGED found ELSE End(t, "failed")

\* The model's answer is the last thing.
ChatReturns(t) == Calling(t, "chat") /\ End(t, "completed")

\* A call that raises ends the run with the exception.
Raises(t) == stage[t] = "running" /\ End(t, "raised")

\* The client of a streamed run is gone: CancelledError at the pending call.
CancelledUnseen(t) ==
  /\ stage[t] = "running"
  /\ stage' = [stage EXCEPT ![t] = "ending"] /\ outcome' = [outcome EXCEPT ![t] = "cancelled"]
  /\ calls' = [calls EXCEPT ![t] = <<>>]
  /\ UNCHANGED <<process, agentOf, plain, found, active, truth>>
Cancelled(t) == stage[t] = "running" /\ End(t, "cancelled")

\* The finally block, once the heartbeat loop has ended.
Leave(t) ==
  /\ stage[t] = "ending"
  /\ stage' = [stage EXCEPT ![t] = "ended"]
  /\ Deactivate(t, agentOf[t])
  /\ UNCHANGED <<process, agentOf, plain, calls, found, outcome, ledger, lostRow>>

\* One interval: the loops of the busy agents write, everything else ages.
Interval ==
  /\ \E silent \in SUBSET {a \in Agent : active[a] # <<>>} :
       /\ silent # {} => MayLose("beat") /\ Cardinality(silent) = 1
       /\ beat' = [a \in Agent |->
            IF active[a] # <<>> /\ a \notin silent THEN Report(active[a])
            ELSE IF beat[a].status = "none" \/ beat[a].age > TTL THEN beat[a]
            ELSE [beat[a] EXCEPT !.age = @ + 1]]
       /\ lostBeat' = (lostBeat \ {a \in Agent : active[a] # <<>>}) \cup silent
  /\ UNCHANGED <<process, runs, active, ledger, lostRow>>

\* What was in memory is gone; ledger and heartbeats stay as they are, and
\* nothing goes over them when the next process starts.
RuntimeCrash ==
  /\ "crash" \in Faults /\ process < MaxProcess
  /\ process' = process + 1
  /\ stage' = [t \in Task |-> IF stage[t] \in {"idle", "ended"} THEN stage[t] ELSE "dead"]
  /\ calls' = [t \in Task |-> <<>>]
  /\ active' = [a \in Agent |-> <<>>]
  /\ UNCHANGED <<agentOf, plain, found, outcome, truth>>

Returns(t) ==
  \/ ChatReturns(t) \/ Raises(t)
  \/ \E ok \in BOOLEAN : \/ StatusReturns(t, ok) \/ AskReturns(t, ok) \/ WebReturns(t, ok)
                         \/ \E sources \in BOOLEAN : SearchReturns(t, ok, sources)
==============================================================================
