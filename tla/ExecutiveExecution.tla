------------------------- MODULE ExecutiveExecution -------------------------
(***************************************************************************)
(* The owner-triggered execution core of the Executive Office: admission   *)
(* and reservation, the start claim, the runner that dispatches delegated  *)
(* child tasks to agents, cancellation before and during a run, and the    *)
(* owner's recovery of an interrupted run.                                 *)
(*                                                                         *)
(* The backend is one process with one event loop.  Every SQLite           *)
(* transaction is one step.  HTTP handlers are coroutines over synchronous *)
(* services, so a handler keeps the loop until its next await: the only    *)
(* await of an execution is the call of the agent.  The Telegram router    *)
(* runs in a worker thread, so a cancellation request may fall between any *)
(* two transactions, and the process may die between any two.              *)
(***************************************************************************)
EXTENDS Naturals

CONSTANTS
  Task,          \* delegated child tasks
  Delegation,    \* delegations; each owns one parent task
  Agent,         \* machine agents
  Execution,     \* execution ids: a hash of delegation and idempotency key
  ControlKey,    \* idempotency keys of cancel and recover requests
  DelegationOf,  \* the delegation of a task and of an execution id
  AgentOf,       \* the single machine agent a child task is assigned to
  NoTask, NoExecution,
  Faults         \* the failures the environment may produce, see below

(* "crash": the process dies and is restarted.  "ledger": a task-ledger     *)
(* write of the runtime instrumentation raises and is suppressed.           *)
(* "heartbeat": the same for heartbeat writes, or a stall of the loop long  *)
(* enough for one to go stale.  "other_run": the same agent is also run     *)
(* through the ordinary agent API, whose heartbeat has the same key.        *)
ASSUME ExecutionAssumption ==
  /\ \A x \in Task \cup Execution : DelegationOf[x] \in Delegation
  /\ AgentOf \in [Task -> Agent]
  /\ NoTask \notin Task
  /\ NoExecution \notin Execution
  /\ Faults \subseteq {"crash", "ledger", "heartbeat", "other_run"}

VARIABLES
  task,          \* task_ledger.status of each child
  parent,        \* task_ledger.status of each delegation's parent task
  state,         \* executive_execution_records.state
  children,      \* the selected child tasks of an execution
  held,          \* the execution's reservations are not released
  start,         \* executive_execution_starts.status
  cancellation,  \* executive_execution_cancellations.state
  control,       \* executive_execution_controls: the execution answered for
  beat,          \* the newest heartbeat of each agent, as the truth reads it
  aged,          \* the start claim is older than the recovery grace window
  pc,            \* where the coroutine running an execution is
  cur,           \* the child whose agent the coroutine awaits
  todo,          \* the children the coroutine has not reached
  failed,        \* some result so far is a failure
  recovery,      \* the cancellation-aware recovery in progress, if any
  runs           \* history: how often each child was handed to its agent

durable == <<task, parent, state, children, held, start, cancellation, control>>
runner  == <<pc, cur, todo, failed>>
vars    == <<durable, beat, aged, runner, recovery, runs>>

TaskStatus ==
  {"assigned", "queued", "running", "completed", "failed", "cancelled", "manual_review"}
ParentStatus == {"planned", "completed", "manual_review"}
Outcome == {"completed", "failed", "cancelled", "manual_review"}
Phase == {"none", "answered", "reserved", "running"} \cup Outcome
Pending == {"requested", "observed"}
Leaving == {"returned", "raised", "left"}    \* the child's task row is final
Awaiting == {"working"} \cup Leaving

TypeOK ==
  /\ task \in [Task -> TaskStatus]
  /\ parent \in [Delegation -> ParentStatus]
  /\ state \in [Execution -> Phase]
  /\ children \in [Execution -> SUBSET Task]
  /\ held \in [Execution -> BOOLEAN]
  /\ start \in [Execution -> {"none", "claimed"} \cup Outcome]
  /\ cancellation \in [Execution -> {"none", "resolved"} \cup Pending]
  /\ control \in [ControlKey -> Execution \cup {NoExecution}]
  /\ beat \in [Agent -> Task \cup {"idle", "other", "stale"}]
  /\ aged \in [Execution -> BOOLEAN]
  /\ pc \in [Execution -> {"none", "checking", "loop", "observing", "observed",
                           "acknowledged", "review", "reviewing", "finishing"} \cup Awaiting]
  /\ cur \in [Execution -> Task \cup {NoTask}]
  /\ todo \in [Execution -> SUBSET Task]
  /\ failed \in [Execution -> BOOLEAN]
  /\ recovery \in SUBSET [execution : Execution, key : ControlKey,
                          step : {"finalize", "record"}]
  /\ runs \in [Task -> Nat]

Init ==
  /\ task = [t \in Task |-> "assigned"]
  /\ parent = [d \in Delegation |-> "planned"]
  /\ state = [e \in Execution |-> "none"]
  /\ children = [e \in Execution |-> {}]
  /\ held = [e \in Execution |-> FALSE]
  /\ start = [e \in Execution |-> "none"]
  /\ cancellation = [e \in Execution |-> "none"]
  /\ control = [k \in ControlKey |-> NoExecution]
  /\ beat = [a \in Agent |-> "idle"]
  /\ aged = [e \in Execution |-> FALSE]
  /\ pc = [e \in Execution |-> "none"]
  /\ cur = [e \in Execution |-> NoTask]
  /\ todo = [e \in Execution |-> {}]
  /\ failed = [e \in Execution |-> FALSE]
  /\ recovery = {}
  /\ runs = [t \in Task |-> 0]

-----------------------------------------------------------------------------
(* What the handlers read.                                                 *)

\* No coroutine is between two awaits: another handler may run.
LoopFree == recovery = {} /\ \A e \in Execution : pc[e] \in {"none"} \cup Awaiting

AgentsOf(e) == {AgentOf[t] : t \in children[e]}
\* (fault: active reservations are not consulted)
NoReservedAgents == {}
ReservedAgents == UNION {AgentsOf(e) : e \in {f \in Execution : held[f]}}
ChildrenOf(d) == {t \in Task : DelegationOf[t] = d}

\* (fault: a late writer does not check)
ActiveAlways(e) == TRUE
\* The record and the claim both still say that the execution runs.
Active(e) == state[e] = "running" /\ start[e] = "claimed"

\* A worker accepts work only when the truth service reports it available.
Available(a) == beat[a] = "idle"

\* (fault: recovery ignores heartbeats)
NeverFresh(e) == FALSE
\* A fresh busy heartbeat still names a selected task.
FreshActive(e) == \E t \in children[e] : beat[AgentOf[t]] = t

\* What a suppressed instrumentation write may leave behind.
Written(fault, new, old) == {new} \cup IF fault \in Faults THEN {old} ELSE {}

-----------------------------------------------------------------------------
(* What the transactions write.                                            *)

\* (fault: queued children are forgotten)
CancelQueuedAway(e, from) ==
  task' = [t \in Task |-> IF t \in children[e] /\ task[t] \in from \ {"queued"}
                          THEN "cancelled" ELSE task[t]]
\* (fault: finished children are rewritten)
CancelEveryChild(e, from) ==
  task' = [t \in Task |-> IF t \in children[e] THEN "cancelled" ELSE task[t]]
\* Every child whose status is among from, and no other.
CancelChildren(e, from) ==
  task' = [t \in Task |-> IF t \in children[e] /\ task[t] \in from
                          THEN "cancelled" ELSE task[t]]

\* (fault: reservations are not released)
SettleKeepingReservations(e, outcome) ==
  /\ state' = [state EXCEPT ![e] = outcome]
  /\ start' = [start EXCEPT ![e] = outcome]
  /\ UNCHANGED held
\* Record, claim and reservations reach their outcome together.
Settle(e, outcome) ==
  /\ state' = [state EXCEPT ![e] = outcome]
  /\ start' = [start EXCEPT ![e] = outcome]
  /\ held' = [held EXCEPT ![e] = FALSE]

ReviewedParent(e) == parent' = [parent EXCEPT ![DelegationOf[e]] = "manual_review"]

-----------------------------------------------------------------------------
(* Admission.                                                              *)

\* The selection names children of the delegation; it is looked at again inside
\* the transaction that reserves.
Delegated(e, S) == S # {} /\ \A t \in S : DelegationOf[t] = DelegationOf[e]

\* (fault: a child is admitted whatever its status)
StillPlanned(e, S) == parent[DelegationOf[e]] = "planned"
\* Neither the parent nor a selected child has gone on since the delegation.
StillAssigned(e, S) ==
  parent[DelegationOf[e]] = "planned" /\ \A t \in S : task[t] = "assigned"

\* Every selected child has a worker of its own, which is neither busy nor reserved.
WorkersFree(S) ==
  /\ \A t \in S : Available(AgentOf[t]) /\ AgentOf[t] \notin ReservedAgents
  /\ \A t, u \in S : AgentOf[t] = AgentOf[u] => t = u

\* The gate every selected child, its worker and its parent must pass.
Admissible(e, S) == Delegated(e, S) /\ StillAssigned(e, S) /\ WorkersFree(S)

\* admit and reserve_and_queue: record, reservations and queued children at once.
Reserve(e, S) ==
  /\ LoopFree
  /\ state[e] = "none"
  /\ Admissible(e, S)
  /\ state' = [state EXCEPT ![e] = "reserved"]
  /\ children' = [children EXCEPT ![e] = S]
  /\ held' = [held EXCEPT ![e] = TRUE]
  /\ task' = [t \in Task |-> IF t \in S THEN "queued" ELSE task[t]]
  /\ UNCHANGED <<parent, start, cancellation, control, beat, aged, runner, recovery, runs>>

\* A rejection, or a validation-only answer, is stored under the same key.
AnswerAdmission(e) ==
  /\ LoopFree
  /\ state[e] = "none"
  /\ state' = [state EXCEPT ![e] = "answered"]
  /\ UNCHANGED <<task, parent, children, held, start, cancellation, control,
                 beat, aged, runner, recovery, runs>>

-----------------------------------------------------------------------------
(* The start of an execution and its runner.                               *)

Go(e, from, to) == pc[e] = from /\ pc' = [pc EXCEPT ![e] = to]

QueuedWhole(e) == held[e] /\ \A t \in children[e] : task[t] = "queued"

\* What a start and a cancellation before it find in their transaction: the
\* record, its reservations and its children as they were reserved.
StillReserved(e) == state[e] = "reserved" /\ start[e] = "none" /\ QueuedWhole(e)

\* One start wins the whole reservation.
Claim(e) ==
  /\ LoopFree
  /\ StillReserved(e)
  /\ start' = [start EXCEPT ![e] = "claimed"]
  /\ state' = [state EXCEPT ![e] = "running"]
  /\ aged' = [aged EXCEPT ![e] = FALSE]
  /\ Go(e, "none", "checking")
  /\ todo' = [todo EXCEPT ![e] = children[e]]
  /\ failed' = [failed EXCEPT ![e] = FALSE]
  /\ UNCHANGED <<task, parent, children, held, cancellation, control, beat,
                 cur, recovery, runs>>

\* The workers are checked once more after the claim committed.
CheckWorkers(e) ==
  /\ \/ (\A a \in AgentsOf(e) : Available(a)) /\ Go(e, "checking", "loop")
     \/ (\E a \in AgentsOf(e) : ~Available(a)) /\ Go(e, "checking", "review")
  /\ UNCHANGED <<durable, beat, aged, cur, todo, failed, recovery, runs>>

\* Hand the next queued child to its agent, and await it.
Dispatch(e, t) ==
  /\ Go(e, "loop", "working")
  /\ t \in todo[e]
  /\ cancellation[e] \notin Pending
  /\ task[t] = "queued"
  /\ \E s \in Written("ledger", "running", task[t]) : task' = [task EXCEPT ![t] = s]
  /\ \E b \in Written("heartbeat", t, beat[AgentOf[t]]) :
        beat' = [beat EXCEPT ![AgentOf[t]] = b]
  /\ cur' = [cur EXCEPT ![e] = t]
  /\ todo' = [todo EXCEPT ![e] = @ \ {t}]
  /\ runs' = [runs EXCEPT ![t] = @ + 1]
  /\ UNCHANGED <<parent, state, children, held, start, cancellation, control,
                 aged, failed, recovery>>

\* A child that is no longer queued is not run: the runner refuses it.
Refuse(e, t) ==
  /\ Go(e, "loop", "review")
  /\ t \in todo[e]
  /\ cancellation[e] \notin Pending
  /\ task[t] # "queued"
  /\ UNCHANGED <<durable, beat, aged, cur, todo, failed, recovery, runs>>

\* The awaited agent ends: its task row is written first ...
ChildEnds(e, status, to) ==
  /\ LoopFree
  /\ Go(e, "working", to)
  /\ \E s \in Written("ledger", status, task[cur[e]]) :
        task' = [task EXCEPT ![cur[e]] = s]
  /\ UNCHANGED <<parent, state, children, held, start, cancellation, control, beat,
                 aged, cur, todo, recovery, runs>>

ChildReturns(e) ==
  \E status \in {"completed", "failed"} :
    /\ ChildEnds(e, status, "returned")
    /\ failed' = [failed EXCEPT ![e] = @ \/ status = "failed"]

ChildRaises(e) == ChildEnds(e, "failed", "raised") /\ UNCHANGED failed

\* A cancellation check inside the child runtime sees the owner's request.
ChildCancelled(e) ==
  /\ cancellation[e] \in Pending
  /\ ChildEnds(e, "cancelled", "left")
  /\ UNCHANGED failed

\* ... then, the heartbeat loop having been awaited, its agent is idle again
\* and the coroutine goes on.
Deactivate(e) ==
  /\ LoopFree
  /\ \/ Go(e, "returned", "loop")
     \/ Go(e, "raised", "review")
     \/ Go(e, "left", "observing")
  /\ \E b \in Written("heartbeat", "idle", beat[AgentOf[cur[e]]]) :
        beat' = [beat EXCEPT ![AgentOf[cur[e]]] = b]
  /\ cur' = [cur EXCEPT ![e] = NoTask]
  /\ UNCHANGED <<durable, aged, todo, failed, recovery, runs>>

\* The request is acknowledged: at the checkpoint before the next child, or
\* after the child left cooperatively.
Observe(e) ==
  /\ \/ Go(e, "loop", "observed") /\ todo[e] # {}
     \/ Go(e, "observing", "acknowledged")
  /\ cancellation[e] \in Pending
  /\ cancellation' = [cancellation EXCEPT ![e] = "observed"]
  /\ UNCHANGED <<task, parent, state, children, held, start, control, beat, aged,
                 cur, todo, failed, recovery, runs>>

\* finalize_observed: one transaction over every table.  Only children that
\* were never started are cancelled here.
CanFinalize(e) == cancellation[e] = "observed" /\ Active(e)

FinalizeObserved(e) ==
  /\ CanFinalize(e)
  /\ Settle(e, "cancelled")
  /\ cancellation' = [cancellation EXCEPT ![e] = "resolved"]
  /\ ReviewedParent(e)
  /\ CancelChildren(e, {"assigned", "queued"})
  /\ UNCHANGED <<children, beat, aged, cur, todo, failed, runs>>

FinalizeCancellation(e) ==
  /\ FinalizeObserved(e)
  /\ Go(e, "observed", "none") \/ Go(e, "acknowledged", "none")
  /\ UNCHANGED <<control, recovery>>

\* A recovery settled the execution first: mark_observed or finalize_observed raises.
\* At a checkpoint the conflict is an ambiguous failure like any other; raised while
\* the child's departure is handled it ends the coroutine, and nothing is written.
CancellationConflict(e) ==
  /\ \/ Go(e, "observed", "review") /\ ~CanFinalize(e)
     \/ Go(e, "acknowledged", "none") /\ ~CanFinalize(e)
     \/ Go(e, "observing", "none") /\ cancellation[e] \notin Pending
  /\ UNCHANGED <<durable, beat, aged, cur, todo, failed, recovery, runs>>

\* An ambiguous failure quarantines the execution: the parent first ...
ReviewParent(e) ==
  /\ Go(e, "review", "reviewing")
  /\ ReviewedParent(e)
  /\ UNCHANGED <<task, state, children, held, start, cancellation, control,
                 beat, aged, cur, todo, failed, recovery, runs>>

\* (fault: the claim is not updated)
MarkRecordOnly(e) ==
  /\ Go(e, "reviewing", "none")
  /\ state' = [state EXCEPT ![e] = IF @ = "running" THEN "manual_review" ELSE @]
  /\ UNCHANGED <<task, parent, children, held, start, cancellation, control,
                 beat, aged, cur, todo, failed, recovery, runs>>
\* ... then, in a second transaction, the record and the claim.
MarkManualReview(e) ==
  /\ Go(e, "reviewing", "none")
  /\ IF start[e] = "claimed"
     THEN /\ start' = [start EXCEPT ![e] = "manual_review"]
          /\ state' = [state EXCEPT ![e] = IF @ = "running" THEN "manual_review" ELSE @]
     ELSE UNCHANGED <<start, state>>
  /\ UNCHANGED <<task, parent, children, held, cancellation, control,
                 beat, aged, cur, todo, failed, recovery, runs>>

\* After the last child the parent is recomputed from every delegated child ...
ReconciledParent(d) ==
  IF \A t \in ChildrenOf(d) : task[t] = "completed" THEN "completed"
  ELSE IF \E t \in ChildrenOf(d) : task[t] \in {"failed", "cancelled", "manual_review"}
  THEN "manual_review" ELSE "planned"

ReconcileParent(e) ==
  /\ Go(e, "loop", "finishing")
  /\ todo[e] = {}
  /\ parent' = [parent EXCEPT ![DelegationOf[e]] = ReconciledParent(DelegationOf[e])]
  /\ UNCHANGED <<task, state, children, held, start, cancellation, control,
                 beat, aged, cur, todo, failed, recovery, runs>>

\* (fault: a failed child is forgotten)
OutcomeIgnoringFailures(e) == "completed"
RunOutcome(e) == IF failed[e] THEN "failed" ELSE "completed"

\* ... and the execution is settled in a transaction of its own.
Complete(e) ==
  /\ Go(e, "finishing", "none")
  /\ IF Active(e) THEN Settle(e, RunOutcome(e)) ELSE UNCHANGED <<state, start, held>>
  /\ UNCHANGED <<task, parent, children, cancellation, control,
                 beat, aged, cur, todo, failed, recovery, runs>>

-----------------------------------------------------------------------------
(* The owner's controls.                                                   *)

Cancellable(e) == state[e] = "running" /\ cancellation[e] = "none"

\* Over HTTP or from the Telegram thread: at any point of a running execution.
RequestCancellation(e) ==
  /\ Cancellable(e)
  /\ cancellation' = [cancellation EXCEPT ![e] = "requested"]
  /\ UNCHANGED <<task, parent, state, children, held, start, control,
                 beat, aged, runner, recovery, runs>>

Unused(k) == control[k] = NoExecution
Answer(e, k) == control' = [control EXCEPT ![k] = e]

\* Cancellation before the start claim.
CancelReserved(e, k) ==
  /\ LoopFree
  /\ Unused(k) /\ Answer(e, k)
  /\ StillReserved(e)
  /\ CancelChildren(e, {"queued"})
  /\ held' = [held EXCEPT ![e] = FALSE]
  /\ state' = [state EXCEPT ![e] = "cancelled"]
  /\ ReviewedParent(e)
  /\ UNCHANGED <<children, start, cancellation, beat, aged, runner, recovery, runs>>

\* A deferred, refused or needless control is answered, stored, and does nothing.
AnswerControl(e, k) ==
  /\ LoopFree
  /\ Unused(k) /\ Answer(e, k)
  /\ UNCHANGED <<task, parent, state, children, held, start, cancellation,
                 beat, aged, runner, recovery, runs>>

\* Recovery of a running execution may act: no fresh heartbeat, grace elapsed.
Interrupted(e) == state[e] = "running" /\ ~FreshActive(e) /\ aged[e]

\* Acceptance evidence is stored with the answer of a settled start only, so no
\* interrupted execution is found completed.
RecoveryOutcome(e) ==
  IF /\ \A t \in children[e] : task[t] \in {"completed", "failed"}
     /\ \E t \in children[e] : task[t] = "failed"
  THEN "failed" ELSE "manual_review"

\* What a recovery that cannot tell the outcome hands to the owner's review.
Frozen(e) ==
  IF RecoveryOutcome(e) = "failed" THEN {}
  ELSE {t \in children[e] : task[t] \in {"assigned", "queued", "running"}}

FinalizeRecovery(e, k, outcome, frozen) ==
  /\ Unused(k) /\ Answer(e, k)
  /\ Settle(e, outcome)
  /\ ReviewedParent(e)
  /\ task' = [t \in Task |-> IF t \in frozen THEN "manual_review" ELSE task[t]]
  /\ UNCHANGED <<children, beat, aged, runner, recovery, runs>>

\* The interrupted execution is settled from the ledger, or frozen.  A request
\* for its cancellation may still come in after it was looked for.
RecoverInterrupted(e, k) ==
  /\ LoopFree
  /\ Interrupted(e)
  /\ cancellation[e] \notin Pending
  /\ \/ UNCHANGED cancellation
     \/ /\ cancellation[e] = "none"
        /\ cancellation' = [cancellation EXCEPT ![e] = "requested"]
  /\ FinalizeRecovery(e, k, RecoveryOutcome(e), Frozen(e))

\* Recovery of a quarantined execution only gives its reservations back.
RecoverQuarantined(e, k) ==
  /\ LoopFree
  /\ state[e] = "manual_review"
  /\ held[e]
  /\ FinalizeRecovery(e, k, "manual_review", {})
  /\ UNCHANGED cancellation

\* With a pending cancellation the cancellation-aware service acts first:
\* three transactions, and the key is looked at only by the last one.
BeginCancelledRecovery(e, k) ==
  /\ LoopFree
  /\ Interrupted(e)
  /\ cancellation[e] \in Pending
  /\ cancellation' = [cancellation EXCEPT ![e] = "observed"]
  /\ recovery' = {[execution |-> e, key |-> k, step |-> "finalize"]}
  /\ UNCHANGED <<task, parent, state, children, held, start, control,
                 beat, aged, runner, runs>>

FinalizeCancelledRecovery ==
  \E r \in recovery :
    /\ r.step = "finalize"
    /\ FinalizeObserved(r.execution)
    /\ recovery' = {[r EXCEPT !.step = "record"]}
    /\ UNCHANGED <<control, pc>>

RecordCancelledRecovery ==
  \E r \in recovery :
    /\ r.step = "record"
    /\ IF Unused(r.key) THEN Answer(r.execution, r.key) ELSE UNCHANGED control
    /\ recovery' = {}
    /\ UNCHANGED <<task, parent, state, children, held, start, cancellation,
                   beat, aged, runner, runs>>

-----------------------------------------------------------------------------
(* Time, heartbeats and failures.                                          *)

\* The heartbeat loop of a live child writes every thirty seconds.
Heartbeat(e) ==
  /\ LoopFree
  /\ pc[e] = "working"
  /\ beat' = [beat EXCEPT ![AgentOf[cur[e]]] = cur[e]]
  /\ UNCHANGED <<durable, aged, runner, recovery, runs>>

\* Ninety seconds without a newer one: a busy worker is read as offline.
GoStale(a) ==
  /\ beat[a] \in Task \cup {"other"}
  /\ "heartbeat" \in Faults
     \/ \A e \in Execution : ~(pc[e] \in Awaiting /\ cur[e] = beat[a])
  /\ beat' = [beat EXCEPT ![a] = "stale"]
  /\ UNCHANGED <<durable, aged, runner, recovery, runs>>

AgeClaim(e) ==
  /\ start[e] = "claimed"
  /\ ~aged[e]
  /\ aged' = [aged EXCEPT ![e] = TRUE]
  /\ UNCHANGED <<durable, beat, runner, recovery, runs>>

\* Another executor of this process runs the agent: same heartbeat row.
OtherRun(a) ==
  /\ LoopFree
  /\ "other_run" \in Faults
  /\ \E b \in {"idle", "other"} : beat' = [beat EXCEPT ![a] = b]
  /\ UNCHANGED <<durable, aged, runner, recovery, runs>>

Forget ==
  /\ pc' = [e \in Execution |-> "none"]
  /\ cur' = [e \in Execution |-> NoTask]
  /\ todo' = [e \in Execution |-> {}]
  /\ failed' = [e \in Execution |-> FALSE]
  /\ recovery' = {}

\* The process dies and is started again: the tables stay, coroutines are gone.
Crash ==
  /\ "crash" \in Faults
  /\ Forget
  /\ UNCHANGED <<durable, beat, aged, runs>>

\* A forced stop cancels the awaiting coroutines: the instrumentation still
\* marks the children, the execution is not settled.  (A coroutine that is
\* leaving its child swallows the cancellation and goes on to its next await.)
Interrupt ==
  LET stopped == {e \in Execution : pc[e] = "working"} IN
  /\ "crash" \in Faults
  /\ LoopFree
  /\ \A e \in Execution : pc[e] \notin Leaving
  /\ Forget
  /\ task' = [t \in Task |-> IF \E e \in stopped : cur[e] = t THEN "cancelled" ELSE task[t]]
  /\ beat' = [a \in Agent |-> IF \E e \in stopped : AgentOf[cur[e]] = a THEN "idle" ELSE beat[a]]
  /\ UNCHANGED <<parent, state, children, held, start, cancellation, control, aged, runs>>

-----------------------------------------------------------------------------
RunnerStep(e) ==
  \/ CheckWorkers(e) \/ ChildReturns(e) \/ ChildRaises(e) \/ ChildCancelled(e)
  \/ Deactivate(e)
  \/ \E t \in Task : Dispatch(e, t) \/ Refuse(e, t)
  \/ Observe(e) \/ FinalizeCancellation(e) \/ CancellationConflict(e)
  \/ ReviewParent(e) \/ MarkManualReview(e)
  \/ ReconcileParent(e) \/ Complete(e)

OwnerStep(e) ==
  \/ \E S \in SUBSET Task : Reserve(e, S)
  \/ AnswerAdmission(e) \/ Claim(e) \/ RequestCancellation(e)
  \/ \E k \in ControlKey :
        \/ CancelReserved(e, k) \/ AnswerControl(e, k)
        \/ RecoverInterrupted(e, k) \/ RecoverQuarantined(e, k)
        \/ BeginCancelledRecovery(e, k)

EnvironmentStep ==
  \/ \E e \in Execution : Heartbeat(e) \/ AgeClaim(e)
  \/ \E a \in Agent : GoStale(a) \/ OtherRun(a)
  \/ Crash \/ Interrupt

Next ==
  \/ \E e \in Execution : RunnerStep(e) \/ OwnerStep(e)
  \/ FinalizeCancelledRecovery \/ RecordCancelledRecovery
  \/ EnvironmentStep

Spec == Init /\ [][Next]_vars

(* Once claimed, a coroutine is scheduled by the event loop and its agent   *)
(* call returns, raises or leaves: transports and model calls have timeouts.*)
(* A recovery handler does not await: once begun it runs to its end.        *)
FairSpec ==
  /\ Spec
  /\ \A e \in Execution : WF_vars(RunnerStep(e))
  /\ WF_vars(FinalizeCancelledRecovery \/ RecordCancelledRecovery)

-----------------------------------------------------------------------------
(* What the execution core promises.                                       *)

\* No sequence of starts, retries, crashes and recoveries hands a child task
\* to its agent twice.
NoReplay == \A t \in Task : runs[t] <= 1

\* A machine agent is reserved for at most one execution.
ReservationsExclusive ==
  \A e, f \in Execution :
    held[e] /\ held[f] /\ e # f => AgentsOf(e) \cap AgentsOf(f) = {}

\* The execution record and its start claim tell the same story, whichever of
\* runner, reconciler and recovery wrote last.
ClaimAgrees ==
  \A e \in Execution :
    /\ start[e] = "claimed" <=> state[e] = "running"
    /\ start[e] \in Outcome => state[e] = start[e]
    /\ state[e] \in Outcome /\ start[e] = "none" => state[e] = "cancelled"

\* A reserved execution is intact: it can still be claimed or cancelled whole.
ReservedIntact ==
  \A e \in Execution : state[e] = "reserved" =>
    /\ held[e] /\ start[e] = "none"
    /\ \A t \in children[e] : task[t] = "queued" /\ runs[t] = 0

\* Work cancelled before the start claim never reached an agent.
CancelledBeforeStartNeverRan ==
  \A e \in Execution : state[e] = "cancelled" /\ start[e] = "none" =>
    \A t \in children[e] : task[t] = "cancelled" /\ runs[t] = 0

\* A reservation is whole until it is claimed: nothing of it has run, and what is
\* cancelled before the claim never will have (cancel_reserved, claim).
ReservationIsWhole == ReservedIntact /\ CancelledBeforeStartNeverRan

\* A settled execution holds no reservation; a running one holds all of them.
ReservationsFollowState ==
  \A e \in Execution :
    /\ state[e] \in {"completed", "failed", "cancelled"} => ~held[e]
    /\ state[e] \in {"reserved", "running"} => held[e]

\* The parent is completed only when every delegated child is completed.
ParentCompletedSound ==
  \A d \in Delegation : parent[d] = "completed" =>
    \A t \in ChildrenOf(d) : task[t] = "completed"

\* A cancellation is resolved exactly when its execution was cancelled while
\* running.
ResolvedMeansCancelled ==
  \A e \in Execution :
    cancellation[e] = "resolved" <=> state[e] = "cancelled" /\ start[e] = "cancelled"

\* The lease of the agents, in all the tables that tell of it (execution_repository.py,
\* execution_start_repository.py, execution_cancellation_repository.py): the record
\* and the claim agree, no agent is leased twice, a settled execution leases none,
\* and its cancellation is resolved if that is how it was settled; tables, heartbeats
\* and coroutines keep to their types.
LeaseConsistent ==
  /\ TypeOK
  /\ ClaimAgrees
  /\ ReservationsExclusive
  /\ ReservationsFollowState
  /\ ResolvedMeansCancelled

\* Whoever acknowledged a cancellation can settle it: with reliable heartbeats and
\* nobody else running the agents, the reconciler meets no conflict.
ObservedCanFinalize ==
  /\ \A e \in Execution : pc[e] \in {"observed", "acknowledged"} => CanFinalize(e)
  /\ \A r \in recovery : r.step = "finalize" => CanFinalize(r.execution)

\* While a coroutine runs an execution nobody else settles it or takes its
\* agents, as long as heartbeats are reliable and nothing else runs the agents.
RunnerOwnsExecution ==
  \A e \in Execution : pc[e] # "none" => state[e] = "running" /\ held[e]

\* No owner's control and no recovery comes between a live coroutine and its
\* execution, nor between an acknowledged cancellation and its end.
RunnerIsUndisturbed == RunnerOwnsExecution /\ ObservedCanFinalize

\* A completed execution has every selected child completed.
CompletedMeansChildrenCompleted ==
  \A e \in Execution : state[e] = "completed" =>
    \A t \in children[e] : task[t] = "completed"

\* Completed means done: of a parent task all delegated children, of an execution
\* all selected ones, whatever failed on the way (execution_completion_service.py).
CompletionIsTrue == ParentCompletedSound /\ CompletedMeansChildrenCompleted

\* A cancelled execution leaves no child queued or running.
CancelledLeavesNoWork ==
  \A e \in Execution : state[e] = "cancelled" =>
    \A t \in children[e] : task[t] \notin {"assigned", "queued", "running"}

\* An outcome is final: neither recovery nor a late runner rewrites it.
OutcomeIsFinal ==
  [][\A e \in Execution : state[e] \in Outcome => state'[e] = state[e]]_vars

\* Once an execution has its outcome, no child of it is handed to an agent, even
\* by a coroutine that outlived the recovery of its execution.
NothingRunsOnceSettled ==
  [][\A e \in Execution : state[e] \in Outcome =>
       \A t \in children[e] : runs'[t] = runs[t]]_vars

\* What is settled stays settled, in the record and in what still runs.
SettledIsSettled == OutcomeIsFinal /\ NothingRunsOnceSettled

\* The terminal status of a child is never rewritten by a late write.
ChildOutcomeIsFinal ==
  [][\A t \in Task : task[t] \in Outcome => task'[t] = task[t]]_vars

\* Seen from outside, an execution is an exclusive lease of its agents.
Lifecycle == INSTANCE ReservationLifecycle WITH
  phase <- state,
  locked <- [e \in Execution |-> IF held[e] THEN AgentsOf(e) ELSE {}]

\* Every behaviour, faults included, is a behaviour of that lease.
RefinesLifecycle == Lifecycle!LifecycleSpec

\* A coroutine does not go away before its execution is settled or quarantined,
\* unless the process dies or is stopped under it; and it does go away
\* (execution_start_service.py).
ClaimIsSettled ==
  /\ \A e \in Execution : pc[e] # "none" ~> pc[e] = "none"
  /\ [][\A e \in Execution :
           pc[e] # "none" /\ pc'[e] = "none" =>
             start'[e] # "claimed" \/ Crash \/ Interrupt]_vars
=============================================================================
