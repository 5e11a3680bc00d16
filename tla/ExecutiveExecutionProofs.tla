---------------------- MODULE ExecutiveExecutionProofs ----------------------
(***************************************************************************)
(* Machine-checked proofs about ExecutiveExecution, for every set of tasks, *)
(* agents, executions and keys, every assignment of tasks to agents, and    *)
(* every set of faults, but for three theorems at the end that say which    *)
(* faults they exclude.                                                     *)
(***************************************************************************)
EXTENDS ExecutiveExecution, TLAPS

-----------------------------------------------------------------------------
(* The inductive invariant.                                                *)

\* The coroutine awaits a child of the execution it runs.
CurIsSelected == \A e \in Execution : pc[e] \in Awaiting => cur[e] \in children[e]

\* Nothing is left to run of an execution that was never claimed.
NothingBeforeClaim == \A e \in Execution : start[e] = "none" => todo[e] = {} /\ pc[e] = "none"

TodoSelected == \A e \in Execution : todo[e] \subseteq children[e]

NoChildrenBeforeReserve ==
  \A e \in Execution : state[e] \in {"none", "answered"} => children[e] = {}

\* A child task belongs to at most one execution, for good.
ChildrenDisjoint ==
  \A e, f \in Execution : e # f => children[e] \cap children[f] = {}

\* A selected child is never again what admission looks for.
SelectedIsTaken == \A e \in Execution : \A t \in children[e] : task[t] # "assigned"

\* A child that ran was selected by a claimed execution, and is behind it.
RunsAccounted ==
  \A t \in Task :
    /\ runs[t] \in {0, 1}
    /\ runs[t] = 1 => \E e \in Execution :
          t \in children[e] /\ start[e] # "none" /\ t \notin todo[e]

HistoryInv ==
  /\ TypeOK
  /\ CurIsSelected
  /\ NothingBeforeClaim
  /\ TodoSelected
  /\ NoChildrenBeforeReserve
  /\ ChildrenDisjoint
  /\ SelectedIsTaken
  /\ RunsAccounted

-----------------------------------------------------------------------------
(* Types.                                                                  *)

\* Every step of a runner keeps the types.
LEMMA RunnerKeepsTypes ==
  ASSUME TypeOK, CurIsSelected, NEW e \in Execution, RunnerStep(e)
  PROVE  TypeOK'
<1> USE ExecutionAssumption DEF TypeOK, durable, runner, Go, Written, Awaiting, Leaving
<1>1. CASE CheckWorkers(e) BY <1>1 DEF CheckWorkers
<1>2. CASE ChildReturns(e)
  BY <1>2 DEF ChildReturns, ChildEnds, CurIsSelected, TaskStatus
<1>3. CASE ChildRaises(e)
  BY <1>3 DEF ChildRaises, ChildEnds, CurIsSelected, TaskStatus
<1>4. CASE ChildCancelled(e)
  BY <1>4 DEF ChildCancelled, ChildEnds, CurIsSelected, TaskStatus
<1>5. ASSUME NEW t \in Task, Dispatch(e, t) PROVE TypeOK'
  BY <1>5 DEF Dispatch, TaskStatus
<1>6. ASSUME NEW t \in Task, Refuse(e, t) PROVE TypeOK'
  BY <1>6 DEF Refuse
<1>7. CASE Observe(e) BY <1>7 DEF Observe, Pending
<1>8. CASE FinalizeCancellation(e)
  BY <1>8 DEF FinalizeCancellation, FinalizeObserved, Settle, ReviewedParent,
              CancelChildren, TaskStatus, ParentStatus, Phase, Outcome
<1>9. CASE ReviewParent(e) BY <1>9 DEF ReviewParent, ReviewedParent, ParentStatus
<1>10. CASE MarkManualReview(e) BY <1>10 DEF MarkManualReview, Phase, Outcome
<1>11. CASE ReconcileParent(e)
  BY <1>11 DEF ReconcileParent, ReconciledParent, ParentStatus
<1>12. CASE Complete(e)
  <2>1. CASE Active(e)
    <3>1. RunOutcome(e) \in Outcome BY DEF RunOutcome, Outcome
    <3>2. /\ state' = [state EXCEPT ![e] = RunOutcome(e)]
          /\ start' = [start EXCEPT ![e] = RunOutcome(e)]
          /\ held' = [held EXCEPT ![e] = FALSE]
      BY <1>12, <2>1 DEF Complete, Settle
    <3>3. /\ state' \in [Execution -> Phase]
          /\ start' \in [Execution -> {"none", "claimed"} \cup Outcome]
          /\ held' \in [Execution -> BOOLEAN]
      BY <3>1, <3>2 DEF Phase
    <3> QED BY <1>12, <3>3 DEF Complete
  <2>2. CASE ~Active(e) BY <1>12, <2>2 DEF Complete
  <2> QED BY <2>1, <2>2
<1>13. CASE Deactivate(e)
  <2>1. cur[e] \in Task BY <1>13 DEF Deactivate, CurIsSelected, Awaiting, Leaving
  <2>2. beat' \in [Agent -> Task \cup {"idle", "other", "stale"}]
    BY <1>13, <2>1 DEF Deactivate
  <2>3. pc' \in [Execution -> {"none", "checking", "loop", "observing", "observed",
                              "acknowledged",
                              "review", "reviewing", "finishing"} \cup Awaiting]
    BY <1>13 DEF Deactivate
  <2>4. cur' \in [Execution -> Task \cup {NoTask}] BY <1>13 DEF Deactivate
  <2> QED BY <1>13, <2>2, <2>3, <2>4 DEF Deactivate
<1>14. CASE CancellationConflict(e) BY <1>14 DEF CancellationConflict
<1> QED
  BY <1>1, <1>2, <1>3, <1>4, <1>5, <1>6, <1>7, <1>8, <1>9, <1>10, <1>11, <1>12,
     <1>13, <1>14 DEF RunnerStep

\* So does every request of the owner.
LEMMA OwnerKeepsTypes ==
  ASSUME TypeOK, NEW e \in Execution, OwnerStep(e)
  PROVE  TypeOK'
<1> USE ExecutionAssumption DEF TypeOK, durable, runner, Go
<1>1. ASSUME NEW S \in SUBSET Task, Reserve(e, S) PROVE TypeOK'
  BY <1>1 DEF Reserve, TaskStatus, Phase
<1>2. CASE AnswerAdmission(e) BY <1>2 DEF AnswerAdmission, Phase
<1>3. CASE Claim(e) BY <1>3 DEF Claim, StillReserved, QueuedWhole, Phase
<1>4. CASE RequestCancellation(e) BY <1>4 DEF RequestCancellation, Cancellable, Pending
<1>5. ASSUME NEW k \in ControlKey, CancelReserved(e, k) PROVE TypeOK'
  BY <1>5 DEF CancelReserved, StillReserved, QueuedWhole, Answer, CancelChildren,
       ReviewedParent,
              TaskStatus, ParentStatus, Phase, Outcome
<1>6. ASSUME NEW k \in ControlKey, AnswerControl(e, k) PROVE TypeOK'
  BY <1>6 DEF AnswerControl, Answer
<1>7. ASSUME NEW k \in ControlKey, NEW outcome \in Outcome, NEW frozen,
             FinalizeRecovery(e, k, outcome, frozen),
             cancellation' \in [Execution -> {"none", "resolved"} \cup Pending]
      PROVE  TypeOK'
  BY <1>7 DEF FinalizeRecovery, Answer, Settle, ReviewedParent, TaskStatus,
              ParentStatus, Phase
<1>8. ASSUME NEW k \in ControlKey, RecoverInterrupted(e, k) PROVE TypeOK'
  <2>1. RecoveryOutcome(e) \in Outcome BY DEF RecoveryOutcome, Outcome
  <2> QED BY <1>7, <1>8, <2>1 DEF RecoverInterrupted, Frozen, Pending
<1>9. ASSUME NEW k \in ControlKey, RecoverQuarantined(e, k) PROVE TypeOK'
  <2>1. "manual_review" \in Outcome BY DEF Outcome
  <2> QED BY <1>7, <1>9, <2>1 DEF RecoverQuarantined
<1>10. ASSUME NEW k \in ControlKey, BeginCancelledRecovery(e, k) PROVE TypeOK'
  BY <1>10 DEF BeginCancelledRecovery, Pending
<1> QED
  BY <1>1, <1>2, <1>3, <1>4, <1>5, <1>6, <1>8, <1>9, <1>10 DEF OwnerStep

\* And the rest of a recovery, time, heartbeats and crashes.
LEMMA EnvironmentKeepsTypes ==
  ASSUME TypeOK, CurIsSelected,
         FinalizeCancelledRecovery \/ RecordCancelledRecovery \/ EnvironmentStep
  PROVE  TypeOK'
<1> USE ExecutionAssumption DEF TypeOK, durable, runner
<1>1. CASE FinalizeCancelledRecovery
  <2>1. PICK r \in recovery : /\ FinalizeObserved(r.execution)
                              /\ recovery' = {[r EXCEPT !.step = "record"]}
                              /\ UNCHANGED <<control, pc>>
    BY <1>1 DEF FinalizeCancelledRecovery
  <2>2. r.execution \in Execution BY <2>1
  <2>3. [r EXCEPT !.step = "record"]
          \in [execution : Execution, key : ControlKey, step : {"finalize", "record"}]
    BY <2>1
  <2> QED
    BY <2>1, <2>2, <2>3 DEF FinalizeObserved, Settle, ReviewedParent, CancelChildren,
       TaskStatus, ParentStatus, Phase, Outcome
<1>2. CASE RecordCancelledRecovery
  BY <1>2 DEF RecordCancelledRecovery, Answer
<1>3. ASSUME NEW e \in Execution, Heartbeat(e) PROVE TypeOK'
  BY <1>3 DEF Heartbeat, CurIsSelected
<1>4. ASSUME NEW e \in Execution, AgeClaim(e) PROVE TypeOK'
  BY <1>4 DEF AgeClaim
<1>5. ASSUME NEW a \in Agent, GoStale(a) PROVE TypeOK'
  BY <1>5 DEF GoStale
<1>6. ASSUME NEW a \in Agent, OtherRun(a) PROVE TypeOK'
  BY <1>6 DEF OtherRun
<1>7. CASE Crash BY <1>7 DEF Crash, Forget
<1>8. CASE Interrupt BY <1>8 DEF Interrupt, Forget, TaskStatus
<1> QED
  BY <1>1, <1>2, <1>3, <1>4, <1>5, <1>6, <1>7, <1>8 DEF EnvironmentStep

-----------------------------------------------------------------------------
(* Selected children and their runs.                                       *)

\* All steps but three leave selections and runs alone, only shrink what is
\* left to run, and never make a child assigned again.
Quiet ==
  /\ children' = children
  /\ runs' = runs
  /\ \A t \in Task : task'[t] = "assigned" => task[t] = "assigned"
  /\ \A e \in Execution :
       /\ todo'[e] \subseteq todo[e]
       /\ start'[e] = "none" => start[e] = "none"
       /\ state'[e] \in {"none", "answered"} => state[e] \in {"none", "answered"}
       /\ pc'[e] # "none" => pc[e] # "none"
       /\ pc'[e] \in Awaiting => pc[e] \in Awaiting /\ cur'[e] = cur[e]

\* A quiet step keeps the inductive invariant.
LEMMA QuietKeepsHistory ==
  ASSUME HistoryInv, TypeOK', Quiet
  PROVE  HistoryInv'
<1> USE DEF HistoryInv, Quiet
<1>1. CurIsSelected' BY DEF CurIsSelected
<1>2. NothingBeforeClaim' BY DEF NothingBeforeClaim
<1>3. TodoSelected' BY DEF TodoSelected
<1>4. NoChildrenBeforeReserve' BY DEF NoChildrenBeforeReserve
<1>5. ChildrenDisjoint' BY DEF ChildrenDisjoint
<1>6. SelectedIsTaken' BY DEF SelectedIsTaken, TypeOK
<1>7. RunsAccounted'
  <2> SUFFICES ASSUME NEW t \in Task, runs[t] = 1
               PROVE  \E e \in Execution :
                        t \in children[e] /\ start'[e] # "none" /\ t \notin todo'[e]
    BY DEF RunsAccounted
  <2>1. PICK e \in Execution :
          t \in children[e] /\ start[e] # "none" /\ t \notin todo[e]
    BY DEF RunsAccounted
  <2> QED BY <2>1
<1> QED BY <1>1, <1>2, <1>3, <1>4, <1>5, <1>6, <1>7

\* Reserving selects children nobody selected before.
LEMMA ReserveKeepsHistory ==
  ASSUME HistoryInv, TypeOK', NEW e \in Execution, NEW S \in SUBSET Task, Reserve(e, S)
  PROVE  HistoryInv'
<1> USE DEF HistoryInv, TypeOK, durable, runner
<1>1. children[e] = {} BY DEF Reserve, NoChildrenBeforeReserve
<1>2. /\ children' = [children EXCEPT ![e] = S]
      /\ \A t \in S : task[t] = "assigned"
      /\ task' = [t \in Task |-> IF t \in S THEN "queued" ELSE task[t]]
      /\ UNCHANGED <<start, pc, cur, todo, runs>>
  BY DEF Reserve, Admissible, Delegated, StillAssigned, WorkersFree
<1>3. \A f \in Execution : children[f] \cap S = {}
  BY <1>2 DEF SelectedIsTaken
<1>4. CurIsSelected' BY <1>1, <1>2 DEF CurIsSelected
<1>5. NothingBeforeClaim' BY <1>2 DEF NothingBeforeClaim
<1>6. TodoSelected' BY <1>1, <1>2 DEF TodoSelected
<1>7. NoChildrenBeforeReserve' BY DEF Reserve, NoChildrenBeforeReserve
<1>8. ChildrenDisjoint' BY <1>2, <1>3 DEF ChildrenDisjoint
<1>9. SelectedIsTaken' BY <1>2, <1>3 DEF SelectedIsTaken
<1>10. RunsAccounted'
  <2> SUFFICES ASSUME NEW t \in Task, runs[t] = 1
               PROVE  \E f \in Execution :
                        t \in children'[f] /\ start[f] # "none" /\ t \notin todo[f]
    BY <1>2 DEF RunsAccounted
  <2>1. PICK f \in Execution :
          t \in children[f] /\ start[f] # "none" /\ t \notin todo[f]
    BY DEF RunsAccounted
  <2> QED BY <1>1, <1>2, <2>1
<1> QED BY <1>4, <1>5, <1>6, <1>7, <1>8, <1>9, <1>10

\* The claim is the only step that puts children in front of a runner, and it
\* happens once per execution.
LEMMA ClaimKeepsHistory ==
  ASSUME HistoryInv, TypeOK', NEW e \in Execution, Claim(e)
  PROVE  HistoryInv'
<1> USE DEF HistoryInv, TypeOK, durable, runner
<1>1. /\ start[e] = "none"
      /\ start' = [start EXCEPT ![e] = "claimed"]
      /\ state' = [state EXCEPT ![e] = "running"]
      /\ todo' = [todo EXCEPT ![e] = children[e]]
      /\ pc' = [pc EXCEPT ![e] = "checking"]
      /\ UNCHANGED <<children, task, cur, runs>>
  BY DEF Claim, StillReserved, QueuedWhole, Go
<1>2. CurIsSelected' BY <1>1 DEF CurIsSelected, Awaiting, Leaving
<1>3. NothingBeforeClaim' BY <1>1 DEF NothingBeforeClaim
<1>4. TodoSelected' BY <1>1 DEF TodoSelected
<1>5. NoChildrenBeforeReserve' BY <1>1 DEF NoChildrenBeforeReserve
<1>6. ChildrenDisjoint' BY <1>1 DEF ChildrenDisjoint
<1>7. SelectedIsTaken' BY <1>1 DEF SelectedIsTaken
<1>8. RunsAccounted'
  <2> SUFFICES ASSUME NEW t \in Task, runs[t] = 1
               PROVE  \E f \in Execution :
                        t \in children[f] /\ start'[f] # "none" /\ t \notin todo'[f]
    BY <1>1 DEF RunsAccounted
  <2>1. PICK f \in Execution :
          t \in children[f] /\ start[f] # "none" /\ t \notin todo[f]
    BY DEF RunsAccounted
  <2> QED BY <1>1, <2>1
<1> QED BY <1>2, <1>3, <1>4, <1>5, <1>6, <1>7, <1>8

\* A dispatched child was still in front of its runner, so it never ran before.
LEMMA DispatchKeepsHistory ==
  ASSUME HistoryInv, TypeOK', NEW e \in Execution, NEW t \in Task, Dispatch(e, t)
  PROVE  HistoryInv'
<1> USE DEF HistoryInv, TypeOK, durable, runner
<1>1. /\ t \in todo[e]
      /\ todo' = [todo EXCEPT ![e] = @ \ {t}]
      /\ runs' = [runs EXCEPT ![t] = @ + 1]
      /\ cur' = [cur EXCEPT ![e] = t]
      /\ pc[e] = "loop"
      /\ pc' = [pc EXCEPT ![e] = "working"]
      /\ UNCHANGED <<children, start, state>>
  BY DEF Dispatch, Go
<1>2. \A u \in Task : task'[u] = "assigned" => task[u] = "assigned"
  BY DEF Dispatch, Written
<1>3. t \in children[e] /\ start[e] # "none"
  BY <1>1 DEF TodoSelected, NothingBeforeClaim
<1>4. runs[t] = 0
  <2> SUFFICES ASSUME runs[t] = 1 PROVE FALSE BY DEF RunsAccounted
  <2>1. PICK f \in Execution :
          t \in children[f] /\ start[f] # "none" /\ t \notin todo[f]
    BY DEF RunsAccounted
  <2>2. f = e BY <1>3, <2>1 DEF ChildrenDisjoint
  <2> QED BY <1>1, <2>1, <2>2
<1>5. CurIsSelected' BY <1>1, <1>3 DEF CurIsSelected
<1>6. NothingBeforeClaim' BY <1>1, <1>3 DEF NothingBeforeClaim
<1>7. TodoSelected' BY <1>1 DEF TodoSelected
<1>8. NoChildrenBeforeReserve' BY <1>1 DEF NoChildrenBeforeReserve
<1>9. ChildrenDisjoint' BY <1>1 DEF ChildrenDisjoint
<1>10. SelectedIsTaken' BY <1>1, <1>2 DEF SelectedIsTaken
<1>11. RunsAccounted'
  <2> SUFFICES ASSUME NEW u \in Task
               PROVE  /\ runs'[u] \in {0, 1}
                      /\ runs'[u] = 1 => \E f \in Execution :
                           u \in children[f] /\ start[f] # "none" /\ u \notin todo'[f]
    BY <1>1 DEF RunsAccounted
  <2>1. CASE u = t BY <1>1, <1>3, <1>4, <2>1
  <2>2. CASE u # t
    <3>1. runs'[u] = runs[u] BY <1>1, <2>2
    <3>2. \A f \in Execution : todo'[f] \subseteq todo[f] BY <1>1
    <3> QED BY <3>1, <3>2 DEF RunsAccounted
  <2> QED BY <2>1, <2>2
<1> QED BY <1>5, <1>6, <1>7, <1>8, <1>9, <1>10, <1>11

\* Every other step is quiet.
LEMMA RunnerIsQuiet ==
  ASSUME TypeOK, CurIsSelected, NEW e \in Execution,
         RunnerStep(e), ~ \E t \in Task : Dispatch(e, t)
  PROVE  Quiet
<1> USE ExecutionAssumption DEF TypeOK, Quiet, durable, runner, Go, Awaiting, Leaving
<1>1. CASE CheckWorkers(e) BY <1>1 DEF CheckWorkers
<1>2. ASSUME NEW status \in {"completed", "failed", "cancelled"}, NEW to,
             to \in Leaving, ChildEnds(e, status, to)
      PROVE  Quiet
  <2>1. cur[e] \in Task BY <1>2 DEF ChildEnds, CurIsSelected
  <2>2. \A t \in Task : task'[t] = "assigned" => task[t] = "assigned"
    BY <1>2, <2>1 DEF ChildEnds, Written
  <2> QED BY <1>2, <2>2 DEF ChildEnds
<1>3. CASE ChildReturns(e) BY <1>2, <1>3 DEF ChildReturns
<1>4. CASE ChildRaises(e) BY <1>2, <1>4 DEF ChildRaises
<1>5. CASE ChildCancelled(e) BY <1>2, <1>5 DEF ChildCancelled
<1>6. ASSUME NEW t \in Task, Refuse(e, t) PROVE Quiet BY <1>6 DEF Refuse
<1>7. CASE Observe(e) BY <1>7 DEF Observe
<1>8. CASE FinalizeCancellation(e)
  BY <1>8 DEF FinalizeCancellation, FinalizeObserved, Settle, CancelChildren
<1>9. CASE ReviewParent(e) BY <1>9 DEF ReviewParent
<1>10. CASE MarkManualReview(e) BY <1>10 DEF MarkManualReview
<1>11. CASE ReconcileParent(e) BY <1>11 DEF ReconcileParent
<1>12. CASE Complete(e)
  <2>1. CASE Active(e)
    <3>1. RunOutcome(e) \notin {"none", "answered"} BY DEF RunOutcome
    <3>2. /\ state' = [state EXCEPT ![e] = RunOutcome(e)]
          /\ start' = [start EXCEPT ![e] = RunOutcome(e)]
      BY <1>12, <2>1 DEF Complete, Settle
    <3> QED BY <1>12, <3>1, <3>2 DEF Complete
  <2>2. CASE ~Active(e) BY <1>12, <2>2 DEF Complete
  <2> QED BY <2>1, <2>2
<1>13. CASE Deactivate(e)
  <2>1. pc' = [pc EXCEPT ![e] = pc'[e]] /\ pc'[e] \notin Awaiting /\ pc[e] # "none"
    BY <1>13 DEF Deactivate, Awaiting, Leaving
  <2> QED BY <1>13, <2>1 DEF Deactivate
<1>14. CASE CancellationConflict(e) BY <1>14 DEF CancellationConflict
<1> QED
  BY <1>1, <1>3, <1>4, <1>5, <1>6, <1>7, <1>8, <1>9, <1>10, <1>11, <1>12, <1>13, <1>14
     DEF RunnerStep

LEMMA OwnerIsQuiet ==
  ASSUME TypeOK, NEW e \in Execution, OwnerStep(e),
         ~ \E S \in SUBSET Task : Reserve(e, S), ~Claim(e)
  PROVE  Quiet
<1> USE DEF TypeOK, Quiet, durable, runner
<1>1. CASE AnswerAdmission(e) BY <1>1 DEF AnswerAdmission
<1>2. CASE RequestCancellation(e) BY <1>2 DEF RequestCancellation, Cancellable
<1>3. ASSUME NEW k \in ControlKey, CancelReserved(e, k) PROVE Quiet
  BY <1>3 DEF CancelReserved, StillReserved, QueuedWhole, CancelChildren
<1>4. ASSUME NEW k \in ControlKey, AnswerControl(e, k) PROVE Quiet
  BY <1>4 DEF AnswerControl
<1>5. ASSUME NEW k \in ControlKey, NEW outcome \in Outcome, NEW frozen,
             FinalizeRecovery(e, k, outcome, frozen)
      PROVE  Quiet
  BY <1>5 DEF FinalizeRecovery, Settle, Outcome
<1>6. ASSUME NEW k \in ControlKey, RecoverInterrupted(e, k) PROVE Quiet
  <2>1. RecoveryOutcome(e) \in Outcome BY DEF RecoveryOutcome, Outcome
  <2> QED BY <1>5, <1>6, <2>1 DEF RecoverInterrupted, Frozen
<1>7. ASSUME NEW k \in ControlKey, RecoverQuarantined(e, k) PROVE Quiet
  <2>1. "manual_review" \in Outcome BY DEF Outcome
  <2> QED BY <1>5, <1>7, <2>1 DEF RecoverQuarantined
<1>8. ASSUME NEW k \in ControlKey, BeginCancelledRecovery(e, k) PROVE Quiet
  BY <1>8 DEF BeginCancelledRecovery
<1> QED BY <1>1, <1>2, <1>3, <1>4, <1>6, <1>7, <1>8 DEF OwnerStep

LEMMA EnvironmentIsQuiet ==
  ASSUME TypeOK,
         FinalizeCancelledRecovery \/ RecordCancelledRecovery \/ EnvironmentStep
  PROVE  Quiet
<1> USE DEF TypeOK, Quiet, durable, runner
<1>1. CASE FinalizeCancelledRecovery
  <2>1. PICK r \in recovery : FinalizeObserved(r.execution) /\ UNCHANGED pc
    BY <1>1 DEF FinalizeCancelledRecovery
  <2> QED BY <2>1 DEF FinalizeObserved, Settle, CancelChildren
<1>2. CASE RecordCancelledRecovery BY <1>2 DEF RecordCancelledRecovery
<1>3. ASSUME NEW e \in Execution, Heartbeat(e) \/ AgeClaim(e) PROVE Quiet
  BY <1>3 DEF Heartbeat, AgeClaim
<1>4. ASSUME NEW a \in Agent, GoStale(a) \/ OtherRun(a) PROVE Quiet
  BY <1>4 DEF GoStale, OtherRun
<1>5. CASE Crash BY <1>5 DEF Crash, Forget, Awaiting, Leaving
<1>6. CASE Interrupt BY <1>6 DEF Interrupt, Forget, Awaiting, Leaving
<1> QED BY <1>1, <1>2, <1>3, <1>4, <1>5, <1>6 DEF EnvironmentStep

-----------------------------------------------------------------------------
(* The theorems.                                                           *)

LEMMA HistoryInitially == Init => HistoryInv
  BY ExecutionAssumption
  DEF Init, HistoryInv, TypeOK, CurIsSelected, NothingBeforeClaim, TodoSelected,
      NoChildrenBeforeReserve, ChildrenDisjoint, SelectedIsTaken, RunsAccounted,
      TaskStatus, ParentStatus, Phase, Awaiting, Leaving

LEMMA HistoryInductive ==
  ASSUME HistoryInv, [Next]_vars
  PROVE  HistoryInv'
<1>0. TypeOK /\ CurIsSelected BY DEF HistoryInv
<1>1. ASSUME NEW e \in Execution, RunnerStep(e) PROVE HistoryInv'
  <2>1. TypeOK' BY <1>0, <1>1, RunnerKeepsTypes
  <2>2. CASE \E t \in Task : Dispatch(e, t) BY <2>1, <2>2, DispatchKeepsHistory
  <2>3. CASE ~ \E t \in Task : Dispatch(e, t)
    BY <1>0, <1>1, <2>1, <2>3, RunnerIsQuiet, QuietKeepsHistory
  <2> QED BY <2>2, <2>3
<1>2. ASSUME NEW e \in Execution, OwnerStep(e) PROVE HistoryInv'
  <2>1. TypeOK' BY <1>0, <1>2, OwnerKeepsTypes
  <2>2. CASE \E S \in SUBSET Task : Reserve(e, S) BY <2>1, <2>2, ReserveKeepsHistory
  <2>3. CASE Claim(e) BY <2>1, <2>3, ClaimKeepsHistory
  <2>4. CASE (~ \E S \in SUBSET Task : Reserve(e, S)) /\ ~Claim(e)
    BY <1>0, <1>2, <2>1, <2>4, OwnerIsQuiet, QuietKeepsHistory
  <2> QED BY <2>2, <2>3, <2>4
<1>3. CASE FinalizeCancelledRecovery \/ RecordCancelledRecovery \/ EnvironmentStep
  BY <1>0, <1>3, EnvironmentKeepsTypes, EnvironmentIsQuiet, QuietKeepsHistory
<1>4. CASE UNCHANGED vars
  <2> USE <1>4 DEF vars, durable, runner
  <2>1. TypeOK' BY <1>0 DEF TypeOK
  <2>2. Quiet BY DEF Quiet
  <2> QED BY <2>1, <2>2, QuietKeepsHistory
<1> QED BY <1>1, <1>2, <1>3, <1>4 DEF Next

THEOREM HistoryInvariant == Spec => []HistoryInv
  BY HistoryInitially, HistoryInductive, PTL DEF Spec

\* Types are preserved by every step, under every fault.
THEOREM TypeCorrectness == Spec => []TypeOK
<1>1. HistoryInv => TypeOK BY DEF HistoryInv
<1> QED BY HistoryInvariant, <1>1, PTL

\* No child task is ever handed to its agent twice: not by a second execution,
\* not by a retried start, not after a crash or a recovery, even when writes of
\* the task ledger are lost.
THEOREM ChildrenAreNeverReplayed == Spec => []NoReplay
<1>1. ASSUME HistoryInv PROVE NoReplay
  <2> SUFFICES ASSUME NEW t \in Task PROVE runs[t] <= 1 BY DEF NoReplay
  <2>1. runs[t] = 0 \/ runs[t] = 1 BY <1>1 DEF HistoryInv, RunsAccounted
  <2>2. 0 <= 1 /\ 1 <= 1 OBVIOUS
  <2> QED BY <2>1, <2>2
<1> QED BY HistoryInvariant, <1>1, PTL

-----------------------------------------------------------------------------
(* Records, claims and reservations.                                       *)

\* What a step may do to the record, claim, reservations and cancellation of
\* one execution e; everything else about executions is left alone.
Record(e, phase, claim, keep) ==
  /\ state' = [state EXCEPT ![e] = phase]
  /\ start' = [start EXCEPT ![e] = claim]
  /\ held' = [held EXCEPT ![e] = keep]

\* No cancellation becomes resolved, or stops being resolved.
SameResolved ==
  \A e \in Execution :
    \/ cancellation'[e] = cancellation[e]
    \/ cancellation[e] # "resolved" /\ cancellation'[e] # "resolved"

ReserveMove(e) ==
  /\ state[e] = "none"
  /\ \E S \in SUBSET Task :
       /\ S # {}
       /\ \A t \in S : AgentOf[t] \notin ReservedAgents
       /\ children' = [children EXCEPT ![e] = S]
  /\ Record(e, "reserved", start[e], TRUE)
  /\ UNCHANGED cancellation

AnswerMove(e) ==
  /\ state[e] = "none"
  /\ Record(e, "answered", start[e], held[e])
  /\ UNCHANGED <<children, cancellation>>

ClaimMove(e) ==
  /\ state[e] = "reserved"
  /\ Record(e, "running", "claimed", held[e])
  /\ UNCHANGED <<children, cancellation>>

WithdrawMove(e) ==
  /\ state[e] = "reserved"
  /\ Record(e, "cancelled", start[e], FALSE)
  /\ UNCHANGED <<children, cancellation>>

SettleMove(e) ==
  /\ state[e] = "running"
  /\ \/ \E outcome \in Outcome \ {"cancelled"} :
          Record(e, outcome, outcome, FALSE) /\ SameResolved
     \/ /\ Record(e, "cancelled", "cancelled", FALSE)
        /\ cancellation' = [cancellation EXCEPT ![e] = "resolved"]
  /\ UNCHANGED children

QuarantineMove(e) ==
  /\ state[e] = "running"
  /\ Record(e, "manual_review", "manual_review", held[e])
  /\ UNCHANGED <<children, cancellation>>

ClearMove(e) ==
  /\ state[e] = "manual_review"
  /\ Record(e, "manual_review", "manual_review", FALSE)
  /\ UNCHANGED <<children, cancellation>>

\* A cancellation becomes pending, or nothing happens to any execution.
LeaseUntouched == UNCHANGED <<state, start, held, children>> /\ SameResolved

LeaseMove ==
  \/ LeaseUntouched
  \/ \E e \in Execution :
       \/ ReserveMove(e) \/ AnswerMove(e) \/ ClaimMove(e) \/ WithdrawMove(e)
       \/ SettleMove(e) \/ QuarantineMove(e) \/ ClearMove(e)

\* Record, claim, reservations and cancellation always fit together.
LeaseInv ==
  TypeOK /\ ClaimAgrees /\ ReservationsFollowState /\ ReservationsExclusive
         /\ ResolvedMeansCancelled

\* Whoever acts, at most one execution changes, in one of seven ways: a late
\* runner, a reconciler and a recovery all check the record they overwrite.
LEMMA FinalizeObservedSettles ==
  ASSUME TypeOK, NEW e \in Execution, FinalizeObserved(e)
  PROVE  SettleMove(e)
BY DEF FinalizeObserved, CanFinalize, Active, Settle, SettleMove, Record, TypeOK

LEMMA RunnerMoves ==
  ASSUME TypeOK, ClaimAgrees, NEW e \in Execution, RunnerStep(e)
  PROVE  LeaseMove
<1> USE DEF TypeOK, durable, runner
<1>1. CASE CheckWorkers(e) BY <1>1 DEF CheckWorkers, LeaseMove, LeaseUntouched, SameResolved
<1>2. CASE ChildReturns(e)
  BY <1>2 DEF ChildReturns, ChildEnds, LeaseMove, LeaseUntouched, SameResolved
<1>3. CASE ChildRaises(e)
  BY <1>3 DEF ChildRaises, ChildEnds, LeaseMove, LeaseUntouched, SameResolved
<1>4. CASE ChildCancelled(e)
  BY <1>4 DEF ChildCancelled, ChildEnds, LeaseMove, LeaseUntouched, SameResolved
<1>5. ASSUME NEW t \in Task, Dispatch(e, t) \/ Refuse(e, t) PROVE LeaseMove
  BY <1>5 DEF Dispatch, Refuse, LeaseMove, LeaseUntouched, SameResolved
<1>6. CASE Observe(e) BY <1>6 DEF Observe, Pending, LeaseMove, LeaseUntouched, SameResolved
<1>7. CASE FinalizeCancellation(e)
  BY <1>7, FinalizeObservedSettles DEF FinalizeCancellation, LeaseMove
<1>8. CASE ReviewParent(e) BY <1>8 DEF ReviewParent, LeaseMove, LeaseUntouched, SameResolved
<1>9. CASE MarkManualReview(e)
  <2>1. CASE start[e] = "claimed"
    <3>1. state[e] = "running" BY <2>1 DEF ClaimAgrees
    <3>2. QuarantineMove(e)
      BY <1>9, <2>1, <3>1 DEF MarkManualReview, QuarantineMove, Record
    <3> QED BY <3>2 DEF LeaseMove
  <2>2. CASE start[e] # "claimed"
    BY <1>9, <2>2 DEF MarkManualReview, LeaseMove, LeaseUntouched, SameResolved
  <2> QED BY <2>1, <2>2
<1>10. CASE ReconcileParent(e) BY <1>10 DEF ReconcileParent, LeaseMove, LeaseUntouched,
     SameResolved
<1>11. CASE Complete(e)
  <2>1. CASE Active(e)
    <3>1. RunOutcome(e) \in Outcome \ {"cancelled"} BY DEF RunOutcome, Outcome
    <3>2. Record(e, RunOutcome(e), RunOutcome(e), FALSE)
      BY <1>11, <2>1 DEF Complete, Settle, Record
    <3>3. SettleMove(e)
      BY <1>11, <2>1, <3>1, <3>2 DEF Complete, Active, SettleMove, SameResolved
    <3> QED BY <3>3 DEF LeaseMove
  <2>2. CASE ~Active(e) BY <1>11, <2>2 DEF Complete, LeaseMove, LeaseUntouched, SameResolved
  <2> QED BY <2>1, <2>2
<1>12. CASE Deactivate(e)
  BY <1>12 DEF Deactivate, LeaseMove, LeaseUntouched, SameResolved
<1>13. CASE CancellationConflict(e)
  BY <1>13 DEF CancellationConflict, LeaseMove, LeaseUntouched, SameResolved
<1> QED
  BY <1>1, <1>2, <1>3, <1>4, <1>5, <1>6, <1>7, <1>8, <1>9, <1>10, <1>11, <1>12, <1>13
     DEF RunnerStep

LEMMA OwnerMoves ==
  ASSUME TypeOK, NEW e \in Execution, OwnerStep(e)
  PROVE  LeaseMove
<1> USE DEF TypeOK, durable, runner
<1>1. ASSUME NEW S \in SUBSET Task, Reserve(e, S) PROVE LeaseMove
  <2>1. ReserveMove(e) BY <1>1 DEF Reserve, Admissible, Delegated, StillAssigned,
       WorkersFree, ReserveMove, Record
  <2> QED BY <2>1 DEF LeaseMove
<1>2. CASE AnswerAdmission(e)
  BY <1>2 DEF AnswerAdmission, AnswerMove, Record, LeaseMove
<1>3. CASE Claim(e) BY <1>3 DEF Claim, StillReserved, QueuedWhole, ClaimMove, Record,
     LeaseMove
<1>4. CASE RequestCancellation(e)
  BY <1>4 DEF RequestCancellation, Cancellable, LeaseUntouched, SameResolved, LeaseMove
<1>5. ASSUME NEW k \in ControlKey, CancelReserved(e, k) PROVE LeaseMove
  BY <1>5 DEF CancelReserved, StillReserved, QueuedWhole, WithdrawMove, Record, LeaseMove
<1>6. ASSUME NEW k \in ControlKey, AnswerControl(e, k) PROVE LeaseMove
  BY <1>6 DEF AnswerControl, LeaseUntouched, SameResolved, LeaseMove
<1>7. ASSUME NEW k \in ControlKey, RecoverInterrupted(e, k) PROVE LeaseMove
  <2>1. RecoveryOutcome(e) \in Outcome \ {"cancelled"} BY DEF RecoveryOutcome, Outcome
  <2>2. SameResolved BY <1>7 DEF RecoverInterrupted, Frozen, SameResolved
  <2>3. /\ Record(e, RecoveryOutcome(e), RecoveryOutcome(e), FALSE)
        /\ UNCHANGED children
    BY <1>7 DEF RecoverInterrupted, Frozen, FinalizeRecovery, Settle, Record
  <2>4. SettleMove(e)
    BY <1>7, <2>1, <2>2, <2>3 DEF RecoverInterrupted, Frozen, Interrupted, SettleMove
  <2> QED BY <2>4 DEF LeaseMove
<1>8. ASSUME NEW k \in ControlKey, RecoverQuarantined(e, k) PROVE LeaseMove
  BY <1>8 DEF RecoverQuarantined, FinalizeRecovery, Settle, ClearMove, Record, LeaseMove
<1>9. ASSUME NEW k \in ControlKey, BeginCancelledRecovery(e, k) PROVE LeaseMove
  BY <1>9 DEF BeginCancelledRecovery, Pending, LeaseUntouched, SameResolved, LeaseMove
<1> QED
  BY <1>1, <1>2, <1>3, <1>4, <1>5, <1>6, <1>7, <1>8, <1>9 DEF OwnerStep

LEMMA EnvironmentMoves ==
  ASSUME TypeOK,
         FinalizeCancelledRecovery \/ RecordCancelledRecovery \/ EnvironmentStep
  PROVE  LeaseMove
<1> USE DEF TypeOK, durable, runner, LeaseMove, LeaseUntouched, SameResolved
<1>1. CASE FinalizeCancelledRecovery
  BY <1>1, FinalizeObservedSettles DEF FinalizeCancelledRecovery
<1>2. CASE RecordCancelledRecovery BY <1>2 DEF RecordCancelledRecovery
<1>3. ASSUME NEW e \in Execution, Heartbeat(e) \/ AgeClaim(e) PROVE LeaseMove
  BY <1>3 DEF Heartbeat, AgeClaim
<1>4. ASSUME NEW a \in Agent, GoStale(a) \/ OtherRun(a) PROVE LeaseMove
  BY <1>4 DEF GoStale, OtherRun
<1>5. CASE Crash BY <1>5 DEF Crash
<1>6. CASE Interrupt BY <1>6 DEF Interrupt
<1> QED BY <1>1, <1>2, <1>3, <1>4, <1>5, <1>6 DEF EnvironmentStep

LEMMA EveryStepMoves ==
  ASSUME TypeOK, ClaimAgrees, [Next]_vars
  PROVE  LeaseMove
<1>1. CASE UNCHANGED vars
  BY <1>1 DEF vars, durable, LeaseMove, LeaseUntouched, SameResolved
<1> QED BY <1>1, RunnerMoves, OwnerMoves, EnvironmentMoves DEF Next

\* Each of the seven moves keeps record, claim and reservations together.
LEMMA MovesKeepAgreement ==
  ASSUME LeaseInv, LeaseMove
  PROVE  ClaimAgrees' /\ ReservationsFollowState' /\ ResolvedMeansCancelled'
<1> USE DEF LeaseInv, TypeOK, ClaimAgrees, ReservationsFollowState,
            ResolvedMeansCancelled, Outcome
<1>1. CASE LeaseUntouched BY <1>1 DEF LeaseUntouched, SameResolved
<1>2. ASSUME NEW e \in Execution, ReserveMove(e)
      PROVE  ClaimAgrees' /\ ReservationsFollowState' /\ ResolvedMeansCancelled'
  <2>1. start[e] = "none" BY <1>2 DEF ReserveMove
  <2> QED BY <1>2, <2>1 DEF ReserveMove, Record
<1>3. ASSUME NEW e \in Execution, AnswerMove(e)
      PROVE  ClaimAgrees' /\ ReservationsFollowState' /\ ResolvedMeansCancelled'
  <2>1. start[e] = "none" BY <1>3 DEF AnswerMove
  <2> QED BY <1>3, <2>1 DEF AnswerMove, Record
<1>4. ASSUME NEW e \in Execution, ClaimMove(e)
      PROVE  ClaimAgrees' /\ ReservationsFollowState' /\ ResolvedMeansCancelled'
  BY <1>4 DEF ClaimMove, Record
<1>5. ASSUME NEW e \in Execution, WithdrawMove(e)
      PROVE  ClaimAgrees' /\ ReservationsFollowState' /\ ResolvedMeansCancelled'
  <2>1. start[e] = "none" BY <1>5 DEF WithdrawMove
  <2> QED BY <1>5, <2>1 DEF WithdrawMove, Record
<1>6. ASSUME NEW e \in Execution, SettleMove(e)
      PROVE  ClaimAgrees' /\ ReservationsFollowState' /\ ResolvedMeansCancelled'
  <2>1. state[e] = "running" BY <1>6 DEF SettleMove
  <2>2. ASSUME NEW outcome \in Outcome \ {"cancelled"},
               Record(e, outcome, outcome, FALSE), SameResolved
        PROVE  ClaimAgrees' /\ ReservationsFollowState' /\ ResolvedMeansCancelled'
    <3>1. ClaimAgrees' BY <2>1, <2>2 DEF Record
    <3>2. ReservationsFollowState' BY <2>1, <2>2 DEF Record
    <3>3. ResolvedMeansCancelled' BY <2>1, <2>2 DEF Record, SameResolved
    <3> QED BY <3>1, <3>2, <3>3
  <2>3. CASE /\ Record(e, "cancelled", "cancelled", FALSE)
             /\ cancellation' = [cancellation EXCEPT ![e] = "resolved"]
    BY <2>1, <2>3 DEF Record
  <2> QED BY <1>6, <2>2, <2>3 DEF SettleMove
<1>7. ASSUME NEW e \in Execution, QuarantineMove(e)
      PROVE  ClaimAgrees' /\ ReservationsFollowState' /\ ResolvedMeansCancelled'
  BY <1>7 DEF QuarantineMove, Record
<1>8. ASSUME NEW e \in Execution, ClearMove(e)
      PROVE  ClaimAgrees' /\ ReservationsFollowState' /\ ResolvedMeansCancelled'
  BY <1>8 DEF ClearMove, Record
<1> QED BY <1>1, <1>2, <1>3, <1>4, <1>5, <1>6, <1>7, <1>8 DEF LeaseMove

\* Agents are only acquired when no reservation names them, and a reservation
\* never moves from one execution to another.
LEMMA MovesKeepExclusion ==
  ASSUME LeaseInv, LeaseMove
  PROVE  ReservationsExclusive'
<1> USE DEF LeaseInv, TypeOK
<1>1. ASSUME NEW e \in Execution, ReserveMove(e) PROVE ReservationsExclusive'
  <2>1. PICK S \in SUBSET Task :
          /\ \A t \in S : AgentOf[t] \notin ReservedAgents
          /\ children' = [children EXCEPT ![e] = S]
    BY <1>1 DEF ReserveMove
  <2>2. held' = [held EXCEPT ![e] = TRUE] BY <1>1 DEF ReserveMove, Record
  <2>3. ASSUME NEW f \in Execution, f # e, held[f], NEW t \in S
        PROVE  AgentOf[t] \notin AgentsOf(f)
    BY <2>1, <2>3 DEF ReservedAgents
  <2>4. AgentsOf(e)' = {AgentOf[t] : t \in S} BY <2>1 DEF AgentsOf
  <2>5. \A f \in Execution : f # e => AgentsOf(f)' = AgentsOf(f)
    BY <2>1 DEF AgentsOf
  <2>6. \A f \in Execution : f # e => held'[f] = held[f] BY <2>2
  <2>7. \A f \in Execution : f # e /\ held'[f] => AgentsOf(f)' \cap AgentsOf(e)' = {}
    BY <2>3, <2>4, <2>5, <2>6
  <2>8. \A f, g \in Execution : f # e /\ g # e /\ f # g /\ held'[f] /\ held'[g]
           => AgentsOf(f)' \cap AgentsOf(g)' = {}
    BY <2>5, <2>6 DEF ReservationsExclusive
  <2> QED BY <2>7, <2>8 DEF ReservationsExclusive
<1>2. ASSUME children' = children, \A e \in Execution : held'[e] => held[e]
      PROVE  ReservationsExclusive'
  BY <1>2 DEF ReservationsExclusive, AgentsOf
<1>3. CASE LeaseUntouched BY <1>2, <1>3 DEF LeaseUntouched
<1>4. ASSUME NEW e \in Execution,
             \/ AnswerMove(e) \/ ClaimMove(e) \/ WithdrawMove(e)
             \/ SettleMove(e) \/ QuarantineMove(e) \/ ClearMove(e)
      PROVE  ReservationsExclusive'
  <2>1. children' = children
    BY <1>4 DEF AnswerMove, ClaimMove, WithdrawMove, SettleMove, QuarantineMove, ClearMove
  <2>2. held'[e] => held[e]
    <3>1. CASE AnswerMove(e) BY <3>1 DEF AnswerMove, Record
    <3>2. CASE ClaimMove(e) BY <3>2 DEF ClaimMove, Record
    <3>3. CASE WithdrawMove(e) BY <3>3 DEF WithdrawMove, Record
    <3>4. CASE SettleMove(e) BY <3>4 DEF SettleMove, Record
    <3>5. CASE QuarantineMove(e) BY <3>5 DEF QuarantineMove, Record
    <3>6. CASE ClearMove(e) BY <3>6 DEF ClearMove, Record
    <3> QED BY <1>4, <3>1, <3>2, <3>3, <3>4, <3>5, <3>6
  <2>3. \A f \in Execution \ {e} : held'[f] = held[f]
    <3>1. \E keep : held' = [held EXCEPT ![e] = keep]
      BY <1>4 DEF AnswerMove, ClaimMove, WithdrawMove, SettleMove, QuarantineMove,
                  ClearMove, Record
    <3> QED BY <3>1
  <2> QED BY <1>2, <2>1, <2>2, <2>3
<1> QED BY <1>1, <1>3, <1>4 DEF LeaseMove

LEMMA LeaseInitially == Init => LeaseInv
  BY HistoryInitially
  DEF Init, HistoryInv, LeaseInv, ClaimAgrees, ReservationsFollowState,
      ReservationsExclusive, ResolvedMeansCancelled, Outcome

LEMMA LeaseInductive ==
  ASSUME LeaseInv, TypeOK', [Next]_vars
  PROVE  LeaseInv'
<1>1. TypeOK /\ ClaimAgrees BY DEF LeaseInv
<1>2. LeaseMove BY <1>1, EveryStepMoves
<1> QED BY <1>2, MovesKeepAgreement, MovesKeepExclusion DEF LeaseInv

THEOREM LeaseInvariant == Spec => []LeaseInv
  BY TypeCorrectness, LeaseInitially, LeaseInductive, PTL DEF Spec

\* The execution record and the start claim never tell different stories.
THEOREM RecordAndClaimAgree == Spec => []ClaimAgrees
<1>1. LeaseInv => ClaimAgrees BY DEF LeaseInv
<1> QED BY LeaseInvariant, <1>1, PTL

\* No machine agent is reserved for two executions at once.
THEOREM NoSharedReservation == Spec => []ReservationsExclusive
<1>1. LeaseInv => ReservationsExclusive BY DEF LeaseInv
<1> QED BY LeaseInvariant, <1>1, PTL

\* A settled execution keeps no agent, a running one keeps them all.
THEOREM NoLeakedReservation == Spec => []ReservationsFollowState
<1>1. LeaseInv => ReservationsFollowState BY DEF LeaseInv
<1> QED BY LeaseInvariant, <1>1, PTL

\* A cancellation is resolved exactly when it cancelled a running execution.
THEOREM ResolvedOnlyByCancelling == Spec => []ResolvedMeansCancelled
<1>1. LeaseInv => ResolvedMeansCancelled BY DEF LeaseInv
<1> QED BY LeaseInvariant, <1>1, PTL

\* All together: the lease of the agents is the same in every table.
THEOREM LeaseIsConsistent == Spec => []LeaseConsistent
<1>1. TypeOK /\ ClaimAgrees /\ ReservationsExclusive /\ ReservationsFollowState
        /\ ResolvedMeansCancelled => LeaseConsistent
  BY DEF LeaseConsistent
<1> QED
  BY <1>1, TypeCorrectness, RecordAndClaimAgree, NoSharedReservation, NoLeakedReservation,
     ResolvedOnlyByCancelling, PTL

\* Once an execution has an outcome nobody rewrites it.
THEOREM OutcomesAreFinal == Spec => OutcomeIsFinal
<1>1. ASSUME LeaseInv, [Next]_vars
      PROVE  [\A e \in Execution : state[e] \in Outcome => state'[e] = state[e]]_vars
  <2>1. TypeOK /\ LeaseMove BY <1>1, EveryStepMoves DEF LeaseInv
  <2> QED
    BY <2>1 DEF TypeOK, LeaseMove, LeaseUntouched, SameResolved, ReserveMove, AnswerMove,
         ClaimMove,
       WithdrawMove, SettleMove, QuarantineMove, ClearMove, Record, Outcome
<1> QED BY <1>1, LeaseInvariant, PTL DEF Spec, OutcomeIsFinal

-----------------------------------------------------------------------------
(* The execution core implements the abstract lease.                       *)

Locked == [e \in Execution |-> IF held[e] THEN AgentsOf(e) ELSE {}]

LEMMA LeaseStep ==
  ASSUME LeaseInv, LeaseMove
  PROVE  [Lifecycle!LifecycleNext]_<<state, Locked>>
<1> USE DEF LeaseInv, TypeOK
<1>0. ASSUME NEW e \in Execution, NEW phase, NEW claim, Record(e, phase, claim, FALSE),
             children' = children
      PROVE  Locked' = [Locked EXCEPT ![e] = {}]
  BY <1>0 DEF Record, Locked, AgentsOf
<1>1. ASSUME NEW e \in Execution, NEW phase, NEW claim, Record(e, phase, claim, held[e]),
             children' = children
      PROVE  Locked' = Locked
  BY <1>1 DEF Record, Locked, AgentsOf
<1>2. CASE LeaseUntouched BY <1>2 DEF LeaseUntouched, Locked, AgentsOf
<1>3. ASSUME NEW e \in Execution, ReserveMove(e) PROVE Lifecycle!LifecycleNext
  <2>1. PICK S \in SUBSET Task :
          /\ S # {}
          /\ \A t \in S : AgentOf[t] \notin ReservedAgents
          /\ children' = [children EXCEPT ![e] = S]
    BY <1>3 DEF ReserveMove
  <2> DEFINE A == {AgentOf[t] : t \in S}
  <2>2. A \in SUBSET Agent /\ A # {} BY <2>1, ExecutionAssumption
  <2>3. \A f \in Execution : Locked[f] \cap A = {}
    BY <2>1 DEF ReservedAgents, Locked
  <2>4. Locked' = [Locked EXCEPT ![e] = A]
    <3>1. AgentsOf(e)' = A BY <2>1 DEF AgentsOf
    <3>2. \A f \in Execution : f # e => AgentsOf(f)' = AgentsOf(f)
      BY <2>1 DEF AgentsOf
    <3> QED BY <1>3, <3>1, <3>2 DEF Locked, ReserveMove, Record
  <2>5. Lifecycle!Acquire(e, A)
    BY <1>3, <2>2, <2>3, <2>4 DEF Lifecycle!Acquire, Lifecycle!Move, ReserveMove,
       Record, Locked
  <2> QED BY <2>2, <2>5 DEF Lifecycle!LifecycleNext
<1>4. ASSUME NEW e \in Execution, AnswerMove(e) PROVE Lifecycle!LifecycleNext
  <2>1. Locked' = Locked BY <1>1, <1>4 DEF AnswerMove
  <2>2. Lifecycle!Decline(e)
    BY <1>4, <2>1 DEF AnswerMove, Record, Lifecycle!Decline, Lifecycle!Move, Locked
  <2> QED BY <2>2 DEF Lifecycle!LifecycleNext
<1>5. ASSUME NEW e \in Execution, ClaimMove(e) PROVE Lifecycle!LifecycleNext
  <2>1. Locked' = Locked BY <1>1, <1>5 DEF ClaimMove
  <2>2. Lifecycle!Begin(e)
    BY <1>5, <2>1 DEF ClaimMove, Record, Lifecycle!Begin, Lifecycle!Move, Locked
  <2> QED BY <2>2 DEF Lifecycle!LifecycleNext
<1>6. ASSUME NEW e \in Execution, WithdrawMove(e) PROVE Lifecycle!LifecycleNext
  <2>1. Locked' = [Locked EXCEPT ![e] = {}] BY <1>0, <1>6 DEF WithdrawMove
  <2>2. Lifecycle!Withdraw(e)
    BY <1>6, <2>1 DEF WithdrawMove, Record, Lifecycle!Withdraw, Lifecycle!Move,
       Lifecycle!Unlock, Locked
  <2> QED BY <2>2 DEF Lifecycle!LifecycleNext
<1>7. ASSUME NEW e \in Execution, SettleMove(e) PROVE Lifecycle!LifecycleNext
  <2>1. PICK outcome \in Outcome : Record(e, outcome, outcome, FALSE)
    BY <1>7 DEF SettleMove, Outcome
  <2>2. Locked' = [Locked EXCEPT ![e] = {}] BY <1>0, <1>7, <2>1 DEF SettleMove
  <2>3. Lifecycle!Settle(e, outcome)
    BY <1>7, <2>1, <2>2 DEF SettleMove, Record, Lifecycle!Settle, Lifecycle!Move,
       Lifecycle!Unlock, Locked
  <2> QED BY <2>3 DEF Lifecycle!LifecycleNext, Lifecycle!Final, Outcome
<1>8. ASSUME NEW e \in Execution, QuarantineMove(e) PROVE Lifecycle!LifecycleNext
  <2>1. Locked' = Locked BY <1>1, <1>8 DEF QuarantineMove
  <2>2. Lifecycle!Quarantine(e)
    BY <1>8, <2>1 DEF QuarantineMove, Record, Lifecycle!Quarantine, Lifecycle!Move, Locked
  <2> QED BY <2>2 DEF Lifecycle!LifecycleNext
<1>9. ASSUME NEW e \in Execution, ClearMove(e) PROVE Lifecycle!LifecycleNext
  <2>1. Locked' = [Locked EXCEPT ![e] = {}] BY <1>0, <1>9 DEF ClearMove
  <2>2. state' = state BY <1>9 DEF ClearMove, Record
  <2>3. Lifecycle!Clear(e)
    BY <1>9, <2>1, <2>2 DEF ClearMove, Lifecycle!Clear, Lifecycle!Unlock, Locked
  <2> QED BY <2>3 DEF Lifecycle!LifecycleNext
<1> QED BY <1>2, <1>3, <1>4, <1>5, <1>6, <1>7, <1>8, <1>9 DEF LeaseMove

\* The core implements ReservationLifecycle: from outside, an execution only
\* acquires, keeps and gives back an exclusive lease of its agents.
THEOREM CoreIsALease == Spec => RefinesLifecycle
<1>1. Init => Lifecycle!LifecycleInit
  BY DEF Init, Lifecycle!LifecycleInit
<1>2. ASSUME LeaseInv, [Next]_vars PROVE [Lifecycle!LifecycleNext]_<<state, Locked>>
  BY <1>2, EveryStepMoves, LeaseStep DEF LeaseInv
<1> QED
  BY <1>1, <1>2, LeaseInvariant, PTL
  DEF Spec, RefinesLifecycle, Lifecycle!LifecycleSpec, Locked

-----------------------------------------------------------------------------
(* A coroutine that outlives its execution.                                *)

\* Where a coroutine may still come to hand over another child.
Heading == {"checking", "loop", "working", "returned"}

\* What is left for a late coroutine is not queued any more.
SettledIsOver ==
  \A e \in Execution : state[e] \in Outcome /\ pc[e] \in Heading =>
    \A t \in todo[e] : task[t] # "queued"

\* Nobody puts a selected child back into the queue.
LEMMA NoChildRequeued ==
  ASSUME HistoryInv, [Next]_vars, NEW e \in Execution, NEW t \in children[e],
         task'[t] = "queued"
  PROVE  task[t] = "queued"
<1> USE DEF durable, runner
<1>0. TypeOK /\ CurIsSelected /\ t \in Task /\ task[t] # "assigned"
  BY DEF HistoryInv, SelectedIsTaken, TypeOK
<1>1. CASE UNCHANGED task BY <1>1
<1>2. ASSUME NEW f \in Execution, NEW from, CancelChildren(f, from)
      PROVE  task[t] = "queued"
  BY <1>0, <1>2 DEF CancelChildren, TypeOK
<1>3. ASSUME NEW f \in Execution, RunnerStep(f) PROVE task[t] = "queued"
  <2>1. ASSUME NEW u \in Task, NEW fault, NEW status, status # "queued",
               \E s \in Written(fault, status, task[u]) : task' = [task EXCEPT ![u] = s]
        PROVE  task[t] = "queued"
    BY <1>0, <2>1 DEF Written, TypeOK
  <2>2. CASE \E u \in Task : Dispatch(f, u) BY <2>1, <2>2 DEF Dispatch
  <2>3. ASSUME NEW status \in {"completed", "failed", "cancelled"}, NEW to,
               ChildEnds(f, status, to)
        PROVE  task[t] = "queued"
    <3>1. cur[f] \in Task
      BY <1>0, <2>3 DEF ChildEnds, CurIsSelected, Go, Awaiting, TypeOK
    <3> QED BY <2>1, <2>3, <3>1 DEF ChildEnds
  <2>4. CASE ChildReturns(f) \/ ChildRaises(f) \/ ChildCancelled(f)
    BY <2>3, <2>4 DEF ChildReturns, ChildRaises, ChildCancelled
  <2>5. CASE FinalizeCancellation(f)
    BY <1>2, <2>5 DEF FinalizeCancellation, FinalizeObserved
  <2> QED
    BY <1>1, <1>3, <2>2, <2>4, <2>5 DEF RunnerStep, CheckWorkers, Deactivate, Refuse,
       Observe, CancellationConflict, ReviewParent, MarkManualReview, ReconcileParent,
       Complete
<1>4. ASSUME NEW f \in Execution, OwnerStep(f) PROVE task[t] = "queued"
  <2>1. ASSUME NEW S \in SUBSET Task, Reserve(f, S) PROVE task[t] = "queued"
    BY <1>0, <2>1 DEF Reserve, Admissible, Delegated, StillAssigned, WorkersFree, TypeOK
  <2>2. ASSUME NEW k \in ControlKey, NEW outcome, NEW frozen,
               FinalizeRecovery(f, k, outcome, frozen)
        PROVE  task[t] = "queued"
    BY <1>0, <2>2 DEF FinalizeRecovery, TypeOK
  <2> QED
    BY <1>1, <1>2, <1>4, <2>1, <2>2 DEF OwnerStep, AnswerAdmission, Claim,
       RequestCancellation, Cancellable, CancelReserved, StillReserved, QueuedWhole,
       AnswerControl, RecoverInterrupted, Frozen,
       RecoverQuarantined, BeginCancelledRecovery
<1>5. CASE FinalizeCancelledRecovery
  <2>1. PICK r \in recovery : FinalizeObserved(r.execution)
    BY <1>5 DEF FinalizeCancelledRecovery
  <2>2. r.execution \in Execution BY <1>0 DEF TypeOK
  <2> QED BY <1>2, <2>1, <2>2 DEF FinalizeObserved
<1>6. CASE Interrupt BY <1>0, <1>6 DEF Interrupt, TypeOK
<1> QED
  BY <1>1, <1>3, <1>4, <1>5, <1>6 DEF Next, vars, RecordCancelledRecovery,
     EnvironmentStep, Heartbeat, AgeClaim, GoStale, OtherRun, Crash

\* A settled execution gets no new coroutine, and its coroutine no new child.
LEMMA LateCoroutine ==
  ASSUME TypeOK, [Next]_vars, NEW e \in Execution, state[e] \in Outcome
  PROVE  /\ pc'[e] \in Heading => pc[e] \in Heading
         /\ todo'[e] \subseteq todo[e]
<1> USE DEF TypeOK, durable, runner, Heading
<1>1. CASE UNCHANGED <<pc, todo>> BY <1>1
<1>2. ASSUME NEW f \in Execution, NEW from, NEW to, Go(f, from, to),
             from \in Heading \/ to \notin Heading
      PROVE  pc'[e] \in Heading => pc[e] \in Heading
  BY <1>2 DEF Go
<1>3. ASSUME NEW f \in Execution, RunnerStep(f)
      PROVE  /\ pc'[e] \in Heading => pc[e] \in Heading
             /\ todo'[e] \subseteq todo[e]
  <2>1. todo'[e] \subseteq todo[e]
    BY <1>3 DEF RunnerStep, CheckWorkers, ChildReturns, ChildRaises, ChildCancelled,
       ChildEnds, Deactivate, Dispatch, Refuse, Observe, FinalizeCancellation,
       FinalizeObserved, CancellationConflict, ReviewParent, MarkManualReview,
       ReconcileParent, Complete
  <2>2. pc'[e] \in Heading => pc[e] \in Heading
    <3>1. CASE CheckWorkers(f) BY <1>2, <3>1 DEF CheckWorkers
    <3>2. CASE ChildReturns(f) \/ ChildRaises(f) \/ ChildCancelled(f)
      BY <1>2, <3>2 DEF ChildReturns, ChildRaises, ChildCancelled, ChildEnds
    <3>3. CASE Deactivate(f) BY <1>2, <3>3 DEF Deactivate
    <3>4. CASE \E t \in Task : Dispatch(f, t) \/ Refuse(f, t)
      BY <1>2, <3>4 DEF Dispatch, Refuse
    <3>5. CASE Observe(f) \/ FinalizeCancellation(f) \/ CancellationConflict(f)
      BY <1>2, <3>5 DEF Observe, FinalizeCancellation, CancellationConflict
    <3>6. CASE ReviewParent(f) \/ MarkManualReview(f)
      BY <1>2, <3>6 DEF ReviewParent, MarkManualReview
    <3>7. CASE ReconcileParent(f) \/ Complete(f)
      BY <1>2, <3>7 DEF ReconcileParent, Complete
    <3> QED BY <1>3, <3>1, <3>2, <3>3, <3>4, <3>5, <3>6, <3>7 DEF RunnerStep
  <2> QED BY <2>1, <2>2
<1>4. ASSUME NEW f \in Execution, Claim(f)
      PROVE  UNCHANGED <<pc[e], todo[e]>>
  <2>1. f # e BY <1>4 DEF Claim, StillReserved, QueuedWhole, Outcome
  <2> QED BY <1>4, <2>1 DEF Claim, StillReserved, QueuedWhole, Go
<1>5. CASE Crash \/ Interrupt BY <1>5 DEF Crash, Interrupt, Forget
<1>6. ASSUME NEW f \in Execution, OwnerStep(f), ~Claim(f) PROVE UNCHANGED <<pc, todo>>
  BY <1>6 DEF OwnerStep, Reserve, AnswerAdmission, RequestCancellation, Cancellable,
       CancelReserved, StillReserved, QueuedWhole,
     AnswerControl, RecoverInterrupted, Frozen, RecoverQuarantined, FinalizeRecovery,
     BeginCancelledRecovery
<1>7. ASSUME NEW f \in Execution, OwnerStep(f)
      PROVE  /\ pc'[e] \in Heading => pc[e] \in Heading
             /\ todo'[e] \subseteq todo[e]
  BY <1>4, <1>6, <1>7
<1>8. CASE FinalizeCancelledRecovery \/ RecordCancelledRecovery \/ EnvironmentStep
  BY <1>1, <1>5, <1>8 DEF FinalizeCancelledRecovery, FinalizeObserved,
     RecordCancelledRecovery, EnvironmentStep, Heartbeat, AgeClaim, GoStale, OtherRun
<1> QED BY <1>1, <1>3, <1>7, <1>8 DEF Next, vars

\* Whoever settles an execution under a live coroutine takes its children out of
\* the queue in the same transaction.
LEMMA JustSettled ==
  ASSUME HistoryInv, [Next]_vars, NEW e \in Execution,
         state[e] \notin Outcome, state'[e] \in Outcome, pc'[e] \in Heading
  PROVE  \A t \in todo'[e] : task'[t] # "queued"
<1> USE DEF durable, runner
<1>0. TypeOK /\ todo[e] \subseteq children[e]
  BY DEF HistoryInv, TodoSelected
<1>1. state' # state BY DEF TypeOK
<1>2. ASSUME NEW f \in Execution, RunnerStep(f) PROVE FALSE
  <2>1. /\ Complete(f) \/ MarkManualReview(f) \/ FinalizeCancellation(f)
    BY <1>1, <1>2 DEF RunnerStep, CheckWorkers, ChildReturns, ChildRaises, ChildCancelled,
       ChildEnds, Deactivate, Dispatch, Refuse, Observe, CancellationConflict,
       ReviewParent, ReconcileParent
  <2>2. \A g \in Execution : g # f => state'[g] = state[g]
    BY <1>0, <2>1 DEF Complete, MarkManualReview, FinalizeCancellation, FinalizeObserved,
       Settle, TypeOK
  <2>3. f = e BY <2>2
  <2>4. pc'[f] = "none"
    BY <1>0, <2>1 DEF Complete, MarkManualReview, FinalizeCancellation, Go, TypeOK
  <2> QED BY <2>3, <2>4 DEF Heading
<1>3. ASSUME NEW f \in Execution, NEW outcome, Settle(f, outcome) PROVE f = e
  BY <1>0, <1>3 DEF Settle, TypeOK
<1>4. ASSUME NEW f \in Execution, OwnerStep(f)
      PROVE  \A t \in todo'[e] : task'[t] # "queued"
  <2>1. CASE \E S \in SUBSET Task : Reserve(f, S)
    BY <1>0, <2>1 DEF Reserve, Outcome, TypeOK
  <2>2. CASE AnswerAdmission(f) BY <1>0, <2>2 DEF AnswerAdmission, Outcome, TypeOK
  <2>3. CASE Claim(f) BY <1>0, <2>3 DEF Claim, StillReserved, QueuedWhole, Outcome, TypeOK
  <2>4. ASSUME NEW k \in ControlKey, CancelReserved(f, k)
        PROVE  FALSE
    <3>1. f = e BY <1>0, <2>4 DEF CancelReserved, StillReserved, QueuedWhole, TypeOK
    <3>2. pc[e] = "none" /\ pc' = pc
      BY <2>4, <3>1 DEF CancelReserved, StillReserved, QueuedWhole, HistoryInv,
           NothingBeforeClaim
    <3> QED BY <3>2 DEF Heading
  <2>5. ASSUME NEW k \in ControlKey, RecoverInterrupted(f, k)
        PROVE  \A t \in todo'[e] : task'[t] # "queued"
    <3>1. f = e BY <1>3, <2>5 DEF RecoverInterrupted, Frozen, FinalizeRecovery
    <3>2. todo' = todo BY <2>5 DEF RecoverInterrupted, Frozen, FinalizeRecovery
    <3> SUFFICES ASSUME NEW t \in children[e] PROVE task'[t] # "queued"
      BY <1>0, <3>2
    <3>3. t \in Task BY <1>0 DEF TypeOK
    <3>4. CASE RecoveryOutcome(e) = "failed"
      <4>1. task[t] \in {"completed", "failed"} BY <3>4 DEF RecoveryOutcome
      <4> QED
        BY <2>5, <3>1, <3>3, <3>4, <4>1 DEF RecoverInterrupted, Frozen, FinalizeRecovery
    <3>5. CASE RecoveryOutcome(e) # "failed"
      BY <2>5, <3>1, <3>3, <3>5 DEF RecoverInterrupted, Frozen, FinalizeRecovery
    <3> QED BY <3>4, <3>5
  <2>6. ASSUME NEW k \in ControlKey, RecoverQuarantined(f, k) PROVE FALSE
    BY <1>3, <2>6 DEF RecoverQuarantined, FinalizeRecovery, Outcome
  <2> QED
    BY <1>1, <1>4, <2>1, <2>2, <2>3, <2>4, <2>5, <2>6 DEF OwnerStep,
       RequestCancellation, Cancellable, AnswerControl, BeginCancelledRecovery
<1>5. CASE FinalizeCancelledRecovery
  <2>1. PICK r \in recovery : FinalizeObserved(r.execution)
    BY <1>5 DEF FinalizeCancelledRecovery
  <2>2. r.execution = e BY <1>0, <1>3, <2>1 DEF FinalizeObserved, TypeOK
  <2>3. todo' = todo BY <2>1 DEF FinalizeObserved
  <2> QED
    BY <1>0, <2>1, <2>2, <2>3 DEF FinalizeObserved, CancelChildren, TypeOK
<1> QED
  BY <1>1, <1>2, <1>4, <1>5 DEF Next, vars, RecordCancelledRecovery, EnvironmentStep,
     Heartbeat, AgeClaim, GoStale, OtherRun, Crash, Interrupt

\* Once an execution has its outcome, no child of it is handed to an agent, even
\* when recovery settled it under a coroutine that is still alive.
THEOREM NothingRunsLate == Spec => NothingRunsOnceSettled
<1>1. Init => SettledIsOver BY DEF Init, SettledIsOver, Heading
<1>2. ASSUME HistoryInv, SettledIsOver, [Next]_vars PROVE SettledIsOver'
  <2> SUFFICES ASSUME NEW e \in Execution, state'[e] \in Outcome, pc'[e] \in Heading,
                      NEW t \in todo'[e]
               PROVE  task'[t] # "queued"
    BY DEF SettledIsOver
  <2>1. CASE state[e] \notin Outcome BY <1>2, <2>1, JustSettled
  <2>2. CASE state[e] \in Outcome
    <3>1. pc[e] \in Heading /\ t \in todo[e]
      BY <1>2, <2>2, LateCoroutine DEF HistoryInv
    <3>2. task[t] # "queued" /\ t \in children[e]
      BY <1>2, <2>2, <3>1 DEF SettledIsOver, HistoryInv, TodoSelected
    <3> QED BY <1>2, <3>2, NoChildRequeued
  <2> QED BY <2>1, <2>2
<1>3. ASSUME HistoryInv, SettledIsOver, [Next]_vars
      PROVE  \A e \in Execution : state[e] \in Outcome =>
               \A t \in children[e] : runs'[t] = runs[t]
  <2> SUFFICES ASSUME NEW e \in Execution, state[e] \in Outcome, NEW t \in children[e]
               PROVE  runs'[t] = runs[t]
    OBVIOUS
  <2>1. ASSUME NEW f \in Execution, NEW u \in Task, Dispatch(f, u) PROVE runs'[t] = runs[t]
    <3>1. u \in todo[f] /\ task[u] = "queued" /\ pc[f] = "loop"
          /\ runs' = [runs EXCEPT ![u] = @ + 1]
      BY <2>1 DEF Dispatch, Go
    <3>2. f # e BY <1>3, <3>1 DEF SettledIsOver, Heading
    <3>3. t # u
      BY <1>3, <3>1, <3>2 DEF HistoryInv, TodoSelected, ChildrenDisjoint
    <3> QED BY <1>3, <3>1, <3>3 DEF HistoryInv, TypeOK
  <2>2. CASE UNCHANGED runs BY <2>2
  <2> QED
    BY <1>3, <2>1, <2>2 DEF Next, vars, durable, runner, RunnerStep, CheckWorkers,
       ChildReturns, ChildRaises, ChildCancelled, ChildEnds, Deactivate, Refuse, Observe,
       FinalizeCancellation, FinalizeObserved, CancellationConflict, ReviewParent,
       MarkManualReview, ReconcileParent, Complete, OwnerStep, Reserve, AnswerAdmission, Claim,
       RequestCancellation, Cancellable, CancelReserved, StillReserved, QueuedWhole,
       AnswerControl, RecoverInterrupted, Frozen,
       RecoverQuarantined, FinalizeRecovery, BeginCancelledRecovery,
       FinalizeCancelledRecovery, RecordCancelledRecovery, EnvironmentStep, Heartbeat,
       AgeClaim, GoStale, OtherRun, Crash, Interrupt
<1> QED
  BY <1>1, <1>2, <1>3, HistoryInvariant, PTL DEF Spec, NothingRunsOnceSettled

\* Both together: what is settled stays settled, in the record and in what runs.
THEOREM SettledStaysSettled == Spec => SettledIsSettled
  BY OutcomesAreFinal, NothingRunsLate, PTL DEF SettledIsSettled

-----------------------------------------------------------------------------
(* A reservation is whole until it is claimed.                             *)

\* Reserved or withdrawn: no start claim was ever made.
Unclaimed(e) == start[e] = "none" /\ state[e] \in {"reserved", "cancelled"}

UnclaimedWhole ==
  \A e \in Execution : Unclaimed(e) =>
    \A t \in children[e] : task[t] = IF state[e] = "reserved" THEN "queued" ELSE "cancelled"

\* A child belongs to one execution, so it is left alone by all that others do.
LEMMA OtherChild ==
  ASSUME HistoryInv, NEW e \in Execution, NEW t \in children[e],
         NEW f \in Execution, f # e, NEW u \in children[f]
  PROVE  u # t
  BY DEF HistoryInv, ChildrenDisjoint

\* Only its own cancellation touches the children of an unclaimed execution.
LEMMA UnclaimedIsUntouched ==
  ASSUME HistoryInv, [Next]_vars, NEW e \in Execution, Unclaimed(e), NEW t \in children[e],
         ~ \E k \in ControlKey : CancelReserved(e, k)
  PROVE  task'[t] = task[t]
<1> USE DEF durable, runner
<1>0. /\ TypeOK /\ t \in Task /\ task[t] # "assigned"
      /\ \A f \in Execution : pc[f] \in Awaiting => cur[f] \in children[f]
      /\ \A f \in Execution : todo[f] \subseteq children[f]
      /\ pc[e] = "none"
  BY DEF HistoryInv, SelectedIsTaken, TypeOK, CurIsSelected, TodoSelected, NothingBeforeClaim,
         Unclaimed
<1>1. CASE UNCHANGED task BY <1>1
<1>2. ASSUME NEW f \in Execution, NEW from, CancelChildren(f, from), f # e
      PROVE  task'[t] = task[t]
  BY <1>0, <1>2, OtherChild DEF CancelChildren, TypeOK
<1>3. ASSUME NEW f \in Execution, RunnerStep(f) PROVE task'[t] = task[t]
  <2>1. ASSUME NEW u \in children[f], f # e, NEW fault, NEW status,
               \E s \in Written(fault, status, task[u]) : task' = [task EXCEPT ![u] = s]
        PROVE  task'[t] = task[t]
    BY <1>0, <2>1, OtherChild DEF TypeOK
  <2>2. ASSUME NEW u \in Task, Dispatch(f, u) PROVE task'[t] = task[t]
    <3>1. u \in children[f] /\ f # e BY <1>0, <2>2 DEF Dispatch, Go
    <3> QED BY <2>1, <2>2, <3>1 DEF Dispatch
  <2>3. ASSUME NEW status, NEW to, ChildEnds(f, status, to) PROVE task'[t] = task[t]
    <3>1. cur[f] \in children[f] /\ f # e BY <1>0, <2>3 DEF ChildEnds, Go, Awaiting
    <3> QED BY <2>1, <2>3, <3>1 DEF ChildEnds
  <2>4. CASE ChildReturns(f) \/ ChildRaises(f) \/ ChildCancelled(f)
    BY <2>3, <2>4 DEF ChildReturns, ChildRaises, ChildCancelled
  <2>5. CASE FinalizeCancellation(f)
    <3>1. f # e BY <1>0, <2>5 DEF FinalizeCancellation, Go
    <3> QED BY <1>2, <2>5, <3>1 DEF FinalizeCancellation, FinalizeObserved
  <2> QED
    BY <1>1, <1>3, <2>2, <2>4, <2>5 DEF RunnerStep, CheckWorkers, Deactivate, Refuse,
       Observe, CancellationConflict, ReviewParent, MarkManualReview, ReconcileParent,
       Complete
<1>4. ASSUME NEW f \in Execution, OwnerStep(f) PROVE task'[t] = task[t]
  <2>1. ASSUME NEW S \in SUBSET Task, Reserve(f, S) PROVE task'[t] = task[t]
    BY <1>0, <2>1 DEF Reserve, Admissible, StillAssigned, TypeOK
  <2>2. ASSUME NEW k \in ControlKey, CancelReserved(f, k) PROVE task'[t] = task[t]
    BY <1>2, <2>2 DEF CancelReserved
  <2>3. ASSUME NEW k \in ControlKey, RecoverInterrupted(f, k) PROVE task'[t] = task[t]
    <3>1. f # e BY <2>3 DEF RecoverInterrupted, Interrupted, Unclaimed
    <3>2. t \notin Frozen(f) BY <3>1, OtherChild DEF Frozen
    <3> QED BY <1>0, <2>3, <3>2 DEF RecoverInterrupted, FinalizeRecovery, TypeOK
  <2>4. ASSUME NEW k \in ControlKey, RecoverQuarantined(f, k) PROVE task'[t] = task[t]
    BY <1>0, <2>4 DEF RecoverQuarantined, FinalizeRecovery, TypeOK
  <2> QED
    BY <1>1, <1>4, <2>1, <2>2, <2>3, <2>4 DEF OwnerStep, AnswerAdmission, Claim,
       RequestCancellation, AnswerControl, BeginCancelledRecovery
<1>5. CASE FinalizeCancelledRecovery
  <2>1. PICK r \in recovery : FinalizeObserved(r.execution)
    BY <1>5 DEF FinalizeCancelledRecovery
  <2>2. r.execution \in Execution BY <1>0 DEF TypeOK
  <2>3. r.execution # e BY <2>1 DEF FinalizeObserved, CanFinalize, Active, Unclaimed
  <2> QED BY <1>2, <2>1, <2>2, <2>3 DEF FinalizeObserved
<1>6. CASE Interrupt
  <2>1. \A f \in Execution : pc[f] = "working" => cur[f] # t
    BY <1>0, OtherChild DEF Awaiting
  <2> QED BY <1>0, <1>6, <2>1 DEF Interrupt, TypeOK
<1> QED
  BY <1>1, <1>3, <1>4, <1>5, <1>6 DEF Next, vars, RecordCancelledRecovery,
     EnvironmentStep, Heartbeat, AgeClaim, GoStale, OtherRun, Crash

\* An execution becomes unclaimed by its reservation and leaves it, withdrawn or
\* claimed, for good.
LEMMA HowUnclaimed ==
  ASSUME HistoryInv, LeaseInv, [Next]_vars, NEW e \in Execution, Unclaimed(e)'
  PROVE  \/ \E S \in SUBSET Task : Reserve(e, S)
         \/ \E k \in ControlKey : CancelReserved(e, k)
         \/ Unclaimed(e) /\ state'[e] = state[e] /\ children'[e] = children[e]
<1> USE DEF durable, runner, Unclaimed
<1>0. TypeOK /\ ClaimAgrees BY DEF LeaseInv
<1>1. SUFFICES ASSUME ~ \E S \in SUBSET Task : Reserve(e, S),
                      ~ \E k \in ControlKey : CancelReserved(e, k)
               PROVE  UNCHANGED <<state[e], start[e], children[e]>>
  BY <1>0
<1>2. ASSUME NEW f \in Execution, NEW outcome, Settle(f, outcome), outcome \in Outcome
      PROVE  f # e
  BY <1>0, <1>2 DEF Settle, TypeOK, Outcome
<1>3. ASSUME NEW f \in Execution, RunnerStep(f)
      PROVE  UNCHANGED <<state[e], start[e], children[e]>>
  <2>1. CASE FinalizeCancellation(f)
    <3>1. f # e BY <1>2, <2>1 DEF FinalizeCancellation, FinalizeObserved, Outcome
    <3> QED BY <1>0, <2>1, <3>1 DEF FinalizeCancellation, FinalizeObserved, Settle, TypeOK
  <2>2. CASE Complete(f)
    <3>1. CASE Active(f)
      <4>1. Settle(f, RunOutcome(f)) /\ RunOutcome(f) \in Outcome
        BY <2>2, <3>1 DEF Complete, RunOutcome, Outcome
      <4>2. f # e BY <1>2, <4>1
      <4> QED BY <1>0, <2>2, <4>1, <4>2 DEF Complete, Settle, TypeOK
    <3>2. CASE ~Active(f) BY <2>2, <3>2 DEF Complete
    <3> QED BY <3>1, <3>2
  <2>3. CASE MarkManualReview(f)
    BY <1>0, <2>3 DEF MarkManualReview, TypeOK
  <2> QED
    BY <1>3, <2>1, <2>2, <2>3 DEF RunnerStep, CheckWorkers, ChildReturns, ChildRaises,
       ChildCancelled, ChildEnds, Deactivate, Dispatch, Refuse, Observe,
       CancellationConflict, ReviewParent, ReconcileParent
<1>4. ASSUME NEW f \in Execution, OwnerStep(f)
      PROVE  UNCHANGED <<state[e], start[e], children[e]>>
  <2>1. ASSUME NEW S \in SUBSET Task, Reserve(f, S)
        PROVE  UNCHANGED <<state[e], start[e], children[e]>>
    <3>1. f # e BY <1>1, <2>1
    <3> QED BY <1>0, <2>1, <3>1 DEF Reserve, TypeOK
  <2>2. CASE AnswerAdmission(f) BY <1>0, <2>2 DEF AnswerAdmission, TypeOK
  <2>3. CASE Claim(f) BY <1>0, <2>3 DEF Claim, TypeOK
  <2>4. ASSUME NEW k \in ControlKey, CancelReserved(f, k)
        PROVE  UNCHANGED <<state[e], start[e], children[e]>>
    <3>1. f # e BY <1>1, <2>4
    <3> QED BY <1>0, <2>4, <3>1 DEF CancelReserved, TypeOK
  <2>5. ASSUME NEW k \in ControlKey, NEW outcome \in Outcome, NEW frozen,
               FinalizeRecovery(f, k, outcome, frozen)
        PROVE  UNCHANGED <<state[e], start[e], children[e]>>
    <3>1. f # e BY <1>2, <2>5 DEF FinalizeRecovery
    <3> QED BY <1>0, <2>5, <3>1 DEF FinalizeRecovery, Settle, TypeOK
  <2>6. ASSUME NEW k \in ControlKey, RecoverInterrupted(f, k)
        PROVE  UNCHANGED <<state[e], start[e], children[e]>>
    <3>1. RecoveryOutcome(f) \in Outcome BY DEF RecoveryOutcome, Outcome
    <3> QED BY <2>5, <2>6, <3>1 DEF RecoverInterrupted
  <2>7. ASSUME NEW k \in ControlKey, RecoverQuarantined(f, k)
        PROVE  UNCHANGED <<state[e], start[e], children[e]>>
    <3>1. "manual_review" \in Outcome BY DEF Outcome
    <3> QED BY <2>5, <2>7, <3>1 DEF RecoverQuarantined
  <2> QED
    BY <1>4, <2>1, <2>2, <2>3, <2>4, <2>6, <2>7 DEF OwnerStep, RequestCancellation,
       AnswerControl, BeginCancelledRecovery
<1>5. CASE FinalizeCancelledRecovery
  <2>1. PICK r \in recovery : FinalizeObserved(r.execution)
    BY <1>5 DEF FinalizeCancelledRecovery
  <2>2. r.execution \in Execution BY <1>0 DEF TypeOK
  <2>3. r.execution # e BY <1>2, <2>1, <2>2 DEF FinalizeObserved, Outcome
  <2> QED BY <1>0, <2>1, <2>2, <2>3 DEF FinalizeObserved, Settle, TypeOK
<1> QED
  BY <1>3, <1>4, <1>5 DEF Next, vars, RecordCancelledRecovery, EnvironmentStep, Heartbeat,
     AgeClaim, GoStale, OtherRun, Crash, Interrupt

\* Whatever fails, a reservation stays as it was made until it is claimed, and what is
\* cancelled before the claim never reached an agent.
THEOREM ReservationsAreWhole == Spec => []ReservationIsWhole
<1>1. Init => UnclaimedWhole BY DEF Init, UnclaimedWhole, Unclaimed
<1>2. ASSUME HistoryInv, LeaseInv, UnclaimedWhole, [Next]_vars PROVE UnclaimedWhole'
  <2> SUFFICES ASSUME NEW e \in Execution, Unclaimed(e)', NEW t \in children'[e]
               PROVE  task'[t] = IF state'[e] = "reserved" THEN "queued" ELSE "cancelled"
    BY DEF UnclaimedWhole, Unclaimed
  <2>0. TypeOK BY <1>2 DEF HistoryInv
  <2>1. ASSUME NEW S \in SUBSET Task, Reserve(e, S)
        PROVE  task'[t] = IF state'[e] = "reserved" THEN "queued" ELSE "cancelled"
    BY <2>0, <2>1 DEF Reserve, TypeOK
  <2>2. ASSUME NEW k \in ControlKey, CancelReserved(e, k)
        PROVE  task'[t] = IF state'[e] = "reserved" THEN "queued" ELSE "cancelled"
    <3>1. t \in children[e] /\ t \in Task /\ task[t] = "queued" /\ state'[e] = "cancelled"
      BY <2>0, <2>2 DEF CancelReserved, StillReserved, QueuedWhole, TypeOK
    <3> QED BY <2>2, <3>1 DEF CancelReserved, CancelChildren
  <2>3. CASE /\ ~ \E k \in ControlKey : CancelReserved(e, k)
             /\ Unclaimed(e) /\ state'[e] = state[e] /\ children'[e] = children[e]
    <3>1. task'[t] = task[t] BY <1>2, <2>3, UnclaimedIsUntouched
    <3> QED BY <1>2, <2>3, <3>1 DEF UnclaimedWhole
  <2> QED BY <1>2, <2>1, <2>2, <2>3, HowUnclaimed
<1>3. ASSUME HistoryInv, LeaseInv, UnclaimedWhole PROVE ReservationIsWhole
  <2>1. ASSUME NEW e \in Execution, start[e] = "none", NEW t \in children[e] PROVE runs[t] = 0
    <3>1. t \in Task BY <1>3 DEF HistoryInv, TypeOK
    <3>2. ASSUME runs[t] = 1 PROVE FALSE
      <4>1. PICK f \in Execution : t \in children[f] /\ start[f] # "none"
        BY <1>3, <3>1, <3>2 DEF HistoryInv, RunsAccounted
      <4> QED BY <1>3, <2>1, <4>1, OtherChild
    <3> QED BY <1>3, <3>1, <3>2 DEF HistoryInv, RunsAccounted
  <2>2. ReservedIntact
    <3>1. ASSUME NEW e \in Execution, state[e] = "reserved" PROVE held[e] /\ start[e] = "none"
      BY <1>3, <3>1 DEF LeaseInv, TypeOK, ClaimAgrees, ReservationsFollowState, Outcome
    <3> QED BY <1>3, <2>1, <3>1 DEF ReservedIntact, UnclaimedWhole, Unclaimed
  <2>3. CancelledBeforeStartNeverRan
    BY <1>3, <2>1 DEF CancelledBeforeStartNeverRan, UnclaimedWhole, Unclaimed
  <2> QED BY <2>2, <2>3 DEF ReservationIsWhole
<1> QED
  BY <1>1, <1>2, <1>3, HistoryInvariant, LeaseInvariant, PTL DEF Spec

-----------------------------------------------------------------------------
(* Who touches what.                                                       *)

\* All that is written of one execution, its children's rows apart.
Own(e) == <<pc[e], cur[e], todo[e], failed[e], state[e], start[e], held[e], cancellation[e],
            children[e]>>

\* The process that ran the coroutines is gone.
Gone == \A e \in Execution : pc'[e] = "none"

\* The reconciler of a pending cancellation settles e.
Reconciles(e) ==
  /\ FinalizeObserved(e)
  /\ \E r \in recovery : r.step = "finalize" /\ r.execution = e
  /\ \A r \in recovery' : r.step # "finalize"
  /\ UNCHANGED pc

\* An execution is written by its own coroutine, by its owner, by the reconciler of its
\* cancellation, and by the death of the process.
LEMMA OwnStep ==
  ASSUME TypeOK, [Next]_vars, NEW e \in Execution
  PROVE  \/ UNCHANGED Own(e)
         \/ RunnerStep(e) \/ OwnerStep(e) \/ Reconciles(e)
         \/ /\ Gone /\ recovery' = {}
            /\ UNCHANGED <<state, start, held, cancellation, children>>
<1> USE DEF durable, runner, Own
<1>1. CASE UNCHANGED <<pc, cur, todo, failed, state, start, held, cancellation, children>>
  BY <1>1
<1>2. ASSUME NEW f \in Execution, RunnerStep(f), f # e PROVE UNCHANGED Own(e)
  <2> USE <1>2 DEF TypeOK, Go
  <2>1. CASE CheckWorkers(f) BY <2>1 DEF CheckWorkers
  <2>2. CASE ChildReturns(f) BY <2>2 DEF ChildReturns, ChildEnds
  <2>3. CASE ChildRaises(f) BY <2>3 DEF ChildRaises, ChildEnds
  <2>4. CASE ChildCancelled(f) BY <2>4 DEF ChildCancelled, ChildEnds
  <2>5. CASE Deactivate(f) BY <2>5 DEF Deactivate
  <2>6. ASSUME NEW t \in Task, Dispatch(f, t) PROVE UNCHANGED Own(e) BY <2>6 DEF Dispatch
  <2>7. ASSUME NEW t \in Task, Refuse(f, t) PROVE UNCHANGED Own(e) BY <2>7 DEF Refuse
  <2>8. CASE Observe(f) BY <2>8 DEF Observe
  <2>9. CASE FinalizeCancellation(f)
    BY <2>9 DEF FinalizeCancellation, FinalizeObserved, Settle
  <2>10. CASE ReviewParent(f) BY <2>10 DEF ReviewParent
  <2>11. CASE MarkManualReview(f) BY <2>11 DEF MarkManualReview
  <2>12. CASE ReconcileParent(f) BY <2>12 DEF ReconcileParent
  <2>13. CASE Complete(f) BY <2>13 DEF Complete, Settle
  <2>14. CASE CancellationConflict(f) BY <2>14 DEF CancellationConflict
  <2> QED
    BY <2>1, <2>2, <2>3, <2>4, <2>5, <2>6, <2>7, <2>8, <2>9, <2>10, <2>11, <2>12, <2>13,
       <2>14 DEF RunnerStep
<1>3. ASSUME NEW f \in Execution, OwnerStep(f), f # e PROVE UNCHANGED Own(e)
  <2> USE <1>3 DEF TypeOK, Go
  <2>1. ASSUME NEW S \in SUBSET Task, Reserve(f, S) PROVE UNCHANGED Own(e)
    BY <2>1 DEF Reserve
  <2>2. CASE AnswerAdmission(f) BY <2>2 DEF AnswerAdmission
  <2>3. CASE Claim(f) BY <2>3 DEF Claim
  <2>4. CASE RequestCancellation(f) BY <2>4 DEF RequestCancellation
  <2>5. ASSUME NEW k \in ControlKey, CancelReserved(f, k) PROVE UNCHANGED Own(e)
    BY <2>5 DEF CancelReserved
  <2>6. ASSUME NEW k \in ControlKey, AnswerControl(f, k) PROVE UNCHANGED Own(e)
    BY <2>6 DEF AnswerControl
  <2>7. ASSUME NEW k \in ControlKey, RecoverInterrupted(f, k) PROVE UNCHANGED Own(e)
    <3>1. cancellation'[e] = cancellation[e] BY <2>7 DEF RecoverInterrupted
    <3> QED BY <2>7, <3>1 DEF RecoverInterrupted, FinalizeRecovery, Settle
  <2>8. ASSUME NEW k \in ControlKey, RecoverQuarantined(f, k) PROVE UNCHANGED Own(e)
    BY <2>8 DEF RecoverQuarantined, FinalizeRecovery, Settle
  <2>9. ASSUME NEW k \in ControlKey, BeginCancelledRecovery(f, k) PROVE UNCHANGED Own(e)
    BY <2>9 DEF BeginCancelledRecovery
  <2> QED
    BY <2>1, <2>2, <2>3, <2>4, <2>5, <2>6, <2>7, <2>8, <2>9 DEF OwnerStep
<1>4. CASE FinalizeCancelledRecovery
  <2>1. PICK r \in recovery : /\ r.step = "finalize"
                              /\ FinalizeObserved(r.execution)
                              /\ recovery' = {[r EXCEPT !.step = "record"]}
                              /\ UNCHANGED pc
    BY <1>4 DEF FinalizeCancelledRecovery
  <2>2. CASE r.execution = e
    <3>1. \A s \in recovery' : s.step # "finalize" BY <2>1 DEF TypeOK
    <3> QED BY <2>1, <2>2, <3>1 DEF Reconciles
  <2>3. CASE r.execution # e
    BY <2>1, <2>3 DEF FinalizeObserved, Settle, TypeOK
  <2> QED BY <2>2, <2>3
<1>5. CASE Crash \/ Interrupt BY <1>5 DEF Crash, Interrupt, Forget, Gone
<1> QED
  BY <1>1, <1>2, <1>3, <1>4, <1>5 DEF Next, vars, RecordCancelledRecovery,
     EnvironmentStep, Heartbeat, AgeClaim, GoStale, OtherRun

\* The rows of e's children are closed in one transaction by whoever settles e.
Closes(e) ==
  \/ FinalizeCancellation(e) \/ Reconciles(e)
  \/ \E k \in ControlKey : CancelReserved(e, k) \/ RecoverInterrupted(e, k)

\* The agent that e awaits ends, and its row is written.
Ends(e, t) ==
  /\ pc[e] = "working" /\ cur[e] = t
  /\ \/ ChildReturns(e) \/ ChildRaises(e) \/ ChildCancelled(e)
     \/ Interrupt /\ task'[t] = "cancelled"

\* The row of a child is written by its reservation, by its dispatch, by the end of its
\* agent, and, as long as it has no outcome, by whoever settles its execution.
LEMMA HowATaskChanges ==
  ASSUME HistoryInv, [Next]_vars, NEW t \in Task, task'[t] # task[t]
  PROVE  \/ task[t] = "assigned" /\ task'[t] = "queued"
         \/ \E e \in Execution : Dispatch(e, t)
         \/ \E e \in Execution : Ends(e, t)
         \/ \E e \in Execution :
              /\ t \in children[e] /\ Closes(e)
              /\ task[t] \in {"assigned", "queued", "running"}
              /\ task'[t] \in {"cancelled", "manual_review"}
<1> USE DEF durable, runner
<1>0. TypeOK /\ CurIsSelected BY DEF HistoryInv
<1>1. CASE UNCHANGED task BY <1>1
<1>2. ASSUME NEW e \in Execution, Closes(e), NEW from, CancelChildren(e, from),
             from \subseteq {"assigned", "queued", "running"}
      PROVE  /\ t \in children[e]
             /\ task[t] \in {"assigned", "queued", "running"}
             /\ task'[t] \in {"cancelled", "manual_review"}
  BY <1>2 DEF CancelChildren
<1>3. ASSUME NEW e \in Execution, RunnerStep(e)
      PROVE  \/ Dispatch(e, t) \/ Ends(e, t)
             \/ /\ t \in children[e] /\ Closes(e)
                /\ task[t] \in {"assigned", "queued", "running"}
                /\ task'[t] \in {"cancelled", "manual_review"}
  <2>1. ASSUME NEW u \in Task, Dispatch(e, u) PROVE Dispatch(e, t)
    <3>1. u = t BY <1>0, <2>1 DEF Dispatch, TypeOK
    <3> QED BY <2>1, <3>1
  <2>2. CASE ChildReturns(e) \/ ChildRaises(e) \/ ChildCancelled(e)
    <3>1. pc[e] = "working" /\ \E s : task' = [task EXCEPT ![cur[e]] = s]
      BY <2>2 DEF ChildReturns, ChildRaises, ChildCancelled, ChildEnds, Go
    <3>2. cur[e] = t BY <1>0, <3>1 DEF TypeOK
    <3> QED BY <2>2, <3>1, <3>2 DEF Ends
  <2>3. CASE FinalizeCancellation(e)
    BY <1>2, <2>3 DEF FinalizeCancellation, FinalizeObserved, Closes
  <2> QED
    BY <1>1, <1>3, <2>1, <2>2, <2>3 DEF RunnerStep, CheckWorkers, Deactivate, Refuse,
       Observe, CancellationConflict, ReviewParent, MarkManualReview, ReconcileParent,
       Complete
<1>4. ASSUME NEW e \in Execution, OwnerStep(e)
      PROVE  \/ task[t] = "assigned" /\ task'[t] = "queued"
             \/ /\ t \in children[e] /\ Closes(e)
                /\ task[t] \in {"assigned", "queued", "running"}
                /\ task'[t] \in {"cancelled", "manual_review"}
  <2>1. ASSUME NEW S \in SUBSET Task, Reserve(e, S)
        PROVE  task[t] = "assigned" /\ task'[t] = "queued"
    BY <2>1 DEF Reserve, Admissible, StillAssigned
  <2>2. ASSUME NEW k \in ControlKey, CancelReserved(e, k)
        PROVE  /\ t \in children[e] /\ Closes(e)
               /\ task[t] \in {"assigned", "queued", "running"}
               /\ task'[t] \in {"cancelled", "manual_review"}
    <3>1. Closes(e) BY <2>2 DEF Closes
    <3> QED BY <1>2, <2>2, <3>1 DEF CancelReserved
  <2>3. ASSUME NEW k \in ControlKey, RecoverInterrupted(e, k)
        PROVE  /\ t \in children[e] /\ Closes(e)
               /\ task[t] \in {"assigned", "queued", "running"}
               /\ task'[t] \in {"cancelled", "manual_review"}
    <3>1. Closes(e) BY <2>3 DEF Closes
    <3>2. task'[t] = IF t \in Frozen(e) THEN "manual_review" ELSE task[t]
      BY <2>3 DEF RecoverInterrupted, FinalizeRecovery
    <3>3. t \in Frozen(e) BY <3>2
    <3> QED BY <3>1, <3>2, <3>3 DEF Frozen
  <2>4. ASSUME NEW k \in ControlKey, RecoverQuarantined(e, k) PROVE FALSE
    BY <2>4 DEF RecoverQuarantined, FinalizeRecovery
  <2> QED
    BY <1>1, <1>4, <2>1, <2>2, <2>3, <2>4 DEF OwnerStep, AnswerAdmission, Claim,
       RequestCancellation, AnswerControl, BeginCancelledRecovery
<1>5. CASE FinalizeCancelledRecovery
  <2>1. PICK r \in recovery : /\ r.step = "finalize"
                              /\ FinalizeObserved(r.execution)
                              /\ recovery' = {[r EXCEPT !.step = "record"]}
                              /\ UNCHANGED pc
    BY <1>5 DEF FinalizeCancelledRecovery
  <2>2. r.execution \in Execution BY <1>0 DEF TypeOK
  <2>3. \A s \in recovery' : s.step # "finalize" BY <1>0, <2>1 DEF TypeOK
  <2>4. Closes(r.execution) BY <2>1, <2>3 DEF Closes, Reconciles
  <2> QED BY <1>2, <2>1, <2>2, <2>4 DEF FinalizeObserved
<1>6. CASE Interrupt
  <2>1. task'[t] = "cancelled" /\ \E e \in Execution : pc[e] = "working" /\ cur[e] = t
    BY <1>6 DEF Interrupt
  <2> QED BY <1>6, <2>1 DEF Ends
<1> QED
  BY <1>1, <1>3, <1>4, <1>5, <1>6 DEF Next, vars, RecordCancelledRecovery,
     EnvironmentStep, Heartbeat, AgeClaim, GoStale, OtherRun, Crash
-----------------------------------------------------------------------------
(* Completed means done.                                                   *)

\* The child a coroutine awaits is not completed, whatever a recovery made of it.
WorkingIsOpen == \A e \in Execution : pc[e] = "working" => task[cur[e]] # "completed"

\* A completed child stays completed.
LEMMA CompletedStays ==
  ASSUME HistoryInv, WorkingIsOpen, [Next]_vars, NEW t \in Task, task[t] = "completed"
  PROVE  task'[t] = "completed"
<1>1. \A e \in Execution : ~Dispatch(e, t) BY DEF Dispatch
<1>2. \A e \in Execution : ~Ends(e, t) BY DEF Ends, WorkingIsOpen
<1> QED BY <1>1, <1>2, HowATaskChanges

\* Only the end of its own agent completes a child.
LEMMA HowAChildCompletes ==
  ASSUME HistoryInv, [Next]_vars, NEW t \in Task, task[t] # "completed",
         task'[t] = "completed"
  PROVE  \E e \in Execution : pc[e] = "working" /\ cur[e] = t /\ ChildReturns(e)
<1>0. TypeOK BY DEF HistoryInv
<1>1. \A e \in Execution : ~Dispatch(e, t) BY <1>0 DEF Dispatch, Written, TypeOK
<1>2. ASSUME NEW e \in Execution, Ends(e, t) PROVE ChildReturns(e)
  BY <1>0, <1>2 DEF Ends, ChildRaises, ChildCancelled, ChildEnds, Written, TypeOK
<1> QED BY <1>1, <1>2, HowATaskChanges DEF Ends

\* A coroutine goes on with the child it awaits, or takes its next one.
LEMMA HowACoroutineWorks ==
  ASSUME TypeOK, [Next]_vars, NEW e \in Execution, pc'[e] = "working"
  PROVE  \/ pc[e] = "working" /\ cur'[e] = cur[e] /\ ~ChildReturns(e)
         \/ \E t \in Task : Dispatch(e, t) /\ cur'[e] = t
<1> USE DEF durable, runner, TypeOK, Go
<1>0. ~ChildReturns(e) BY DEF ChildReturns, ChildEnds
<1>1. CASE UNCHANGED Own(e) BY <1>0, <1>1 DEF Own
<1>2. CASE RunnerStep(e)
  <2>1. /\ ~CheckWorkers(e) /\ ~Observe(e)
        /\ ~FinalizeCancellation(e) /\ ~CancellationConflict(e)
    BY DEF CheckWorkers, Observe, FinalizeCancellation, CancellationConflict
  <2>2. ~ReviewParent(e) /\ ~MarkManualReview(e) /\ ~ReconcileParent(e) /\ ~Complete(e)
    BY DEF ReviewParent, MarkManualReview, ReconcileParent, Complete
  <2>3. ~ChildRaises(e) /\ ~ChildCancelled(e)
    BY DEF ChildRaises, ChildCancelled, ChildEnds
  <2>4. ~Deactivate(e) BY DEF Deactivate
  <2>5. \A t \in Task : ~Refuse(e, t) BY DEF Refuse
  <2>6. PICK t \in Task : Dispatch(e, t)
    BY <1>0, <1>2, <2>1, <2>2, <2>3, <2>4, <2>5 DEF RunnerStep
  <2> QED BY <2>6 DEF Dispatch
<1>3. CASE OwnerStep(e)
  <2>1. ~Claim(e) BY DEF Claim
  <2>2. UNCHANGED <<pc, cur>>
    BY <1>3, <2>1 DEF OwnerStep, Reserve, AnswerAdmission, RequestCancellation,
       CancelReserved, AnswerControl, RecoverInterrupted, RecoverQuarantined,
       FinalizeRecovery, BeginCancelledRecovery
  <2> QED BY <1>0, <2>2
<1>4. CASE Reconciles(e) BY <1>0, <1>4 DEF Reconciles, FinalizeObserved
<1>5. CASE Gone BY <1>5 DEF Gone
<1> QED BY <1>1, <1>2, <1>3, <1>4, <1>5, OwnStep

LEMMA WorkingStaysOpen ==
  ASSUME HistoryInv, WorkingIsOpen, [Next]_vars
  PROVE  WorkingIsOpen'
<1>0. TypeOK /\ CurIsSelected BY DEF HistoryInv
<1> SUFFICES ASSUME NEW e \in Execution, pc'[e] = "working"
             PROVE  task'[cur'[e]] # "completed"
  BY DEF WorkingIsOpen
<1>1. CASE pc[e] = "working" /\ cur'[e] = cur[e] /\ ~ChildReturns(e)
  <2>1. cur[e] \in children[e] /\ cur[e] \in Task
    BY <1>0, <1>1 DEF CurIsSelected, Awaiting, TypeOK
  <2>2. task[cur[e]] # "completed" BY <1>1 DEF WorkingIsOpen
  <2> SUFFICES ASSUME task'[cur[e]] = "completed" PROVE FALSE BY <1>1
  <2>3. PICK f \in Execution : pc[f] = "working" /\ cur[f] = cur[e] /\ ChildReturns(f)
    BY <2>1, <2>2, HowAChildCompletes
  <2>4. cur[f] \in children[f] BY <1>0, <2>3 DEF CurIsSelected, Awaiting
  <2>5. f = e BY <2>1, <2>3, <2>4, OtherChild
  <2> QED BY <1>1, <2>3, <2>5
<1>2. ASSUME NEW t \in Task, Dispatch(e, t), cur'[e] = t PROVE task'[cur'[e]] # "completed"
  BY <1>0, <1>2 DEF Dispatch, Written, TypeOK
<1> QED BY <1>0, <1>1, <1>2, HowACoroutineWorks

LEMMA WorkingIsAlwaysOpen == Spec => []WorkingIsOpen
<1>1. Init => WorkingIsOpen BY DEF Init, WorkingIsOpen
<1> QED BY <1>1, HistoryInvariant, WorkingStaysOpen, PTL DEF Spec

\* Only the last child's reconciliation completes a parent.
LEMMA HowAParentCompletes ==
  ASSUME TypeOK, [Next]_vars, NEW d \in Delegation, parent'[d] = "completed"
  PROVE  \/ parent[d] = "completed"
         \/ \A t \in ChildrenOf(d) : task[t] = "completed"
<1> USE DEF durable, runner, TypeOK
<1>1. CASE UNCHANGED parent BY <1>1
<1>2. ASSUME NEW e \in Execution, ReviewedParent(e) PROVE parent[d] = "completed"
  BY <1>2 DEF ReviewedParent
<1>3. ASSUME NEW e \in Execution, ReconcileParent(e)
      PROVE  \/ parent[d] = "completed"
             \/ \A t \in ChildrenOf(d) : task[t] = "completed"
  <2>1. CASE DelegationOf[e] = d
    <3>1. ReconciledParent(d) = "completed" BY <1>3, <2>1 DEF ReconcileParent
    <3> QED BY <3>1 DEF ReconciledParent
  <2>2. CASE DelegationOf[e] # d BY <1>3, <2>2 DEF ReconcileParent
  <2> QED BY <2>1, <2>2
<1>4. ASSUME NEW e \in Execution, RunnerStep(e)
      PROVE  \/ parent[d] = "completed"
             \/ \A t \in ChildrenOf(d) : task[t] = "completed"
  BY <1>1, <1>2, <1>3, <1>4 DEF RunnerStep, CheckWorkers, ChildReturns, ChildRaises,
     ChildCancelled, ChildEnds, Deactivate, Dispatch, Refuse, Observe,
     FinalizeCancellation, FinalizeObserved, CancellationConflict, ReviewParent,
     MarkManualReview, Complete
<1>5. ASSUME NEW e \in Execution, OwnerStep(e) PROVE parent[d] = "completed"
  BY <1>1, <1>2, <1>5 DEF OwnerStep, Reserve, AnswerAdmission, Claim, RequestCancellation,
     CancelReserved, AnswerControl, RecoverInterrupted, RecoverQuarantined,
     FinalizeRecovery, BeginCancelledRecovery
<1>6. CASE FinalizeCancelledRecovery
  <2>1. PICK r \in recovery : FinalizeObserved(r.execution)
    BY <1>6 DEF FinalizeCancelledRecovery
  <2> QED BY <1>2, <2>1 DEF FinalizeObserved
<1> QED
  BY <1>1, <1>4, <1>5, <1>6 DEF Next, vars, RecordCancelledRecovery, EnvironmentStep,
     Heartbeat, AgeClaim, GoStale, OtherRun, Crash, Interrupt

\* A parent task is completed only when every delegated child is, and then they all
\* stay completed: whatever fails, whoever recovers (reconcile_parent).
THEOREM ParentsAreDone == Spec => []ParentCompletedSound
<1>1. Init => ParentCompletedSound BY ExecutionAssumption DEF Init, ParentCompletedSound
<1>2. ASSUME HistoryInv, WorkingIsOpen, ParentCompletedSound, [Next]_vars
      PROVE  ParentCompletedSound'
  <2> SUFFICES ASSUME NEW d \in Delegation, parent'[d] = "completed", NEW t \in ChildrenOf(d)
               PROVE  task'[t] = "completed"
    BY DEF ParentCompletedSound, ChildrenOf
  <2>1. t \in Task BY DEF ChildrenOf
  <2>2. task[t] = "completed"
    BY <1>2, HowAParentCompletes DEF HistoryInv, ParentCompletedSound
  <2> QED BY <1>2, <2>1, <2>2, CompletedStays
<1> QED BY <1>1, <1>2, HistoryInvariant, WorkingIsAlwaysOpen, PTL DEF Spec

\* Where a coroutine still counts on the children behind it.
Counting == Heading \cup {"finishing"}

\* Unless one has failed, the children behind the coroutine are completed.
BehindIsDone ==
  \A e \in Execution : pc[e] \in Counting /\ ~failed[e] =>
    /\ \A t \in children[e] \ todo[e] :
         task[t] = "completed" \/ (pc[e] = "working" /\ t = cur[e])
    /\ pc[e] = "finishing" => todo[e] = {}

\* Children are selected once, before there is a coroutine.
LEMMA SelectionStays ==
  ASSUME HistoryInv, ClaimAgrees, [Next]_vars, NEW e \in Execution,
         state[e] # "none" \/ pc[e] # "none"
  PROVE  children'[e] = children[e]
<1> USE DEF durable, runner
<1>0. TypeOK /\ state[e] # "none"
  BY DEF HistoryInv, NothingBeforeClaim, ClaimAgrees, TypeOK, Outcome
<1>1. CASE RunnerStep(e)
  BY <1>1 DEF RunnerStep, CheckWorkers, ChildReturns, ChildRaises, ChildCancelled,
     ChildEnds, Deactivate, Dispatch, Refuse, Observe, FinalizeCancellation,
     FinalizeObserved, CancellationConflict, ReviewParent, MarkManualReview,
     ReconcileParent, Complete
<1>2. CASE OwnerStep(e)
  BY <1>0, <1>2 DEF OwnerStep, Reserve, AnswerAdmission, Claim, RequestCancellation,
     CancelReserved, AnswerControl, RecoverInterrupted, RecoverQuarantined,
     FinalizeRecovery, BeginCancelledRecovery
<1>3. CASE Reconciles(e) BY <1>3 DEF Reconciles, FinalizeObserved
<1> QED BY <1>0, <1>1, <1>2, <1>3, OwnStep DEF Own
\* Only a coroutine none of whose children failed completes its execution.
LEMMA HowAnExecutionCompletes ==
  ASSUME TypeOK, ClaimAgrees, [Next]_vars, NEW e \in Execution, state'[e] = "completed"
  PROVE  \/ state[e] = "completed"
         \/ pc[e] = "finishing" /\ ~failed[e] /\ UNCHANGED <<task, children>>
<1> USE DEF durable, runner, TypeOK
<1>1. CASE state'[e] = state[e] BY <1>1
<1>2. CASE Complete(e)
  <2>1. CASE Active(e)
    <3>1. RunOutcome(e) = "completed" BY <1>2, <2>1 DEF Complete, Settle
    <3> QED BY <1>2, <3>1 DEF Complete, RunOutcome, Go
  <2>2. CASE ~Active(e) BY <1>2, <2>2 DEF Complete
  <2> QED BY <2>1, <2>2
<1>3. CASE RunnerStep(e) /\ ~Complete(e)
  <2>1. ~FinalizeCancellation(e) BY DEF FinalizeCancellation, FinalizeObserved, Settle
  <2>2. CASE MarkManualReview(e) BY <2>2 DEF MarkManualReview
  <2> QED
    BY <1>1, <1>3, <2>1, <2>2 DEF RunnerStep, CheckWorkers, ChildReturns, ChildRaises,
       ChildCancelled, ChildEnds, Deactivate, Dispatch, Refuse, Observe,
       CancellationConflict, ReviewParent, ReconcileParent
<1>4. CASE OwnerStep(e)
  <2>1. \A S \in SUBSET Task : ~Reserve(e, S) BY DEF Reserve
  <2>2. ~AnswerAdmission(e) /\ ~Claim(e) BY DEF AnswerAdmission, Claim
  <2>3. \A k \in ControlKey : ~CancelReserved(e, k) BY DEF CancelReserved
  <2>4. ASSUME NEW k \in ControlKey, RecoverInterrupted(e, k) PROVE FALSE
    <3>1. RecoveryOutcome(e) # "completed" BY DEF RecoveryOutcome
    <3> QED BY <2>4, <3>1 DEF RecoverInterrupted, FinalizeRecovery, Settle
  <2>5. \A k \in ControlKey : ~RecoverQuarantined(e, k)
    BY DEF RecoverQuarantined, FinalizeRecovery, Settle
  <2> QED
    BY <1>1, <1>4, <2>1, <2>2, <2>3, <2>4, <2>5 DEF OwnerStep, RequestCancellation,
       AnswerControl, BeginCancelledRecovery
<1>5. CASE Reconciles(e) BY <1>5 DEF Reconciles, FinalizeObserved, Settle
<1> QED BY <1>1, <1>2, <1>3, <1>4, <1>5, OwnStep DEF Own

\* A coroutine comes further along its children only by having them completed.
LEMMA BehindStaysDone ==
  ASSUME "ledger" \notin Faults, HistoryInv, LeaseInv, WorkingIsOpen, BehindIsDone,
         [Next]_vars
  PROVE  BehindIsDone'
<1> USE DEF durable, runner
<1>0. TypeOK /\ CurIsSelected /\ TodoSelected /\ ClaimAgrees
  BY DEF HistoryInv, LeaseInv
<1> SUFFICES ASSUME NEW e \in Execution, pc'[e] \in Counting, ~failed'[e]
             PROVE  /\ \A t \in children'[e] \ todo'[e] :
                         task'[t] = "completed" \/ (pc'[e] = "working" /\ t = cur'[e])
                    /\ pc'[e] = "finishing" => todo'[e] = {}
  BY DEF BehindIsDone
<1> DEFINE Fits == /\ \A t \in children'[e] \ todo'[e] :
                        task'[t] = "completed" \/ (pc'[e] = "working" /\ t = cur'[e])
                   /\ pc'[e] = "finishing" => todo'[e] = {}
<1>1. ASSUME NEW t \in Task, task[t] = "completed" PROVE task'[t] = "completed"
  BY <1>1, CompletedStays
<1>2. ASSUME pc[e] \in Counting, ~failed[e], children'[e] = children[e], todo'[e] = todo[e],
             pc[e] = "working" => pc'[e] = "working" /\ cur'[e] = cur[e],
             pc'[e] = "finishing" => pc[e] = "finishing" \/ todo[e] = {}
      PROVE  Fits
  BY <1>0, <1>1, <1>2 DEF BehindIsDone, TypeOK
<1>3. CASE UNCHANGED Own(e)
  <2>1. UNCHANGED <<pc[e], cur[e], todo[e], failed[e], children[e]>> BY <1>3 DEF Own
  <2> QED BY <1>2, <2>1
<1>4. CASE RunnerStep(e)
  <2>0. pc[e] # "none" => children'[e] = children[e] BY <1>0, SelectionStays
  <2>1. CASE CheckWorkers(e)
    <3>1. pc[e] = "checking" /\ pc'[e] \in {"loop", "review"} /\ UNCHANGED <<todo, failed>>
      BY <1>0, <2>1 DEF CheckWorkers, Go, TypeOK
    <3> QED BY <1>2, <2>0, <3>1 DEF Counting, Heading
  <2>2. CASE ChildReturns(e)
    <3>1. /\ pc[e] = "working" /\ pc'[e] = "returned"
          /\ ~failed[e] /\ UNCHANGED <<todo, children>>
      BY <1>0, <2>2 DEF ChildReturns, ChildEnds, Go, TypeOK
    <3>2. cur[e] \in Task BY <1>0, <3>1 DEF CurIsSelected, Awaiting, TypeOK
    <3>3. task'[cur[e]] = "completed"
      <4>1. ChildEnds(e, "completed", "returned")
        BY <1>0, <2>2 DEF ChildReturns, TypeOK
      <4> QED BY <1>0, <3>2, <4>1 DEF ChildEnds, Written, TypeOK
    <3>4. \A t \in children[e] \ todo[e] : task[t] = "completed" \/ t = cur[e]
      BY <3>1 DEF BehindIsDone, Counting, Heading
    <3> QED BY <1>0, <1>1, <3>1, <3>3, <3>4 DEF TypeOK
  <2>3. ~ChildRaises(e) /\ ~ChildCancelled(e)
    BY <1>0 DEF ChildRaises, ChildCancelled, ChildEnds, Go, Counting, Heading, TypeOK
  <2>4. CASE Deactivate(e)
    <3>1. pc[e] = "returned" /\ pc'[e] = "loop" /\ UNCHANGED <<todo, failed>>
      BY <1>0, <2>4 DEF Deactivate, Go, Counting, Heading, TypeOK
    <3> QED BY <1>2, <2>0, <3>1 DEF Counting, Heading
  <2>5. ASSUME NEW u \in Task, Dispatch(e, u) PROVE Fits
    <3>1. /\ pc[e] = "loop" /\ pc'[e] = "working" /\ cur'[e] = u
          /\ todo'[e] = todo[e] \ {u} /\ UNCHANGED <<failed, children>>
      BY <1>0, <2>5 DEF Dispatch, Go, TypeOK
    <3>2. \A t \in children[e] \ todo[e] : task[t] = "completed"
      BY <3>1 DEF BehindIsDone, Counting, Heading
    <3> QED BY <1>0, <1>1, <3>1, <3>2 DEF TypeOK
  <2>6. \A u \in Task : ~Refuse(e, u) BY <1>0 DEF Refuse, Go, Counting, Heading, TypeOK
  <2>7. ~Observe(e) /\ ~FinalizeCancellation(e) /\ ~CancellationConflict(e)
    BY <1>0 DEF Observe, FinalizeCancellation, CancellationConflict, Go, Counting,
       Heading, TypeOK
  <2>8. ~ReviewParent(e) /\ ~MarkManualReview(e) /\ ~Complete(e)
    BY <1>0 DEF ReviewParent, MarkManualReview, Complete, Go, Counting, Heading, TypeOK
  <2>9. CASE ReconcileParent(e)
    <3>1. /\ pc[e] = "loop" /\ pc'[e] = "finishing" /\ todo[e] = {}
          /\ UNCHANGED <<todo, failed>>
      BY <1>0, <2>9 DEF ReconcileParent, Go, TypeOK
    <3> QED BY <1>2, <2>0, <3>1 DEF Counting, Heading
  <2> QED
    BY <1>4, <2>1, <2>2, <2>3, <2>4, <2>5, <2>6, <2>7, <2>8, <2>9 DEF RunnerStep
<1>5. CASE Claim(e)
  BY <1>0, <1>5 DEF Claim, Go, TypeOK
<1>6. CASE OwnerStep(e) /\ ~Claim(e)
  <2>1. UNCHANGED <<pc, cur, todo, failed>>
    BY <1>6 DEF OwnerStep, Reserve, AnswerAdmission, RequestCancellation, CancelReserved,
       AnswerControl, RecoverInterrupted, RecoverQuarantined, FinalizeRecovery,
       BeginCancelledRecovery
  <2>2. children'[e] = children[e]
    BY <1>0, <2>1, SelectionStays DEF Counting, Heading
  <2> QED BY <1>2, <2>1, <2>2
<1>7. CASE Reconciles(e)
  <2>1. UNCHANGED <<pc, cur, todo, failed, children>>
    BY <1>7 DEF Reconciles, FinalizeObserved
  <2> QED BY <1>2, <2>1
<1>8. CASE Gone BY <1>8 DEF Gone, Counting, Heading
<1> QED BY <1>0, <1>3, <1>4, <1>5, <1>6, <1>7, <1>8, OwnStep

\* Completed means done, of a parent and of an execution, after crashes, recoveries,
\* stalled heartbeats and foreign runs alike: as long as no task-ledger write is lost
\* (execution_completion_service.py).
THEOREM CompletedMeansDone ==
  ASSUME "ledger" \notin Faults
  PROVE  Spec => []CompletionIsTrue
<1>1. Init => BehindIsDone /\ CompletedMeansChildrenCompleted
  BY DEF Init, BehindIsDone, Counting, Heading, CompletedMeansChildrenCompleted
<1>2. ASSUME HistoryInv, LeaseInv, WorkingIsOpen, BehindIsDone,
             CompletedMeansChildrenCompleted, [Next]_vars
      PROVE  CompletedMeansChildrenCompleted'
  <2>0. TypeOK /\ ClaimAgrees BY <1>2 DEF LeaseInv
  <2> SUFFICES ASSUME NEW e \in Execution, state'[e] = "completed", NEW t \in children'[e]
               PROVE  task'[t] = "completed"
    BY DEF CompletedMeansChildrenCompleted
  <2>1. CASE state[e] = "completed"
    <3>1. t \in children[e] BY <1>2, <2>0, <2>1, SelectionStays
    <3>2. task[t] = "completed" /\ t \in Task
      BY <1>2, <2>0, <2>1, <3>1 DEF CompletedMeansChildrenCompleted, TypeOK
    <3> QED BY <1>2, <3>2, CompletedStays
  <2>2. CASE pc[e] = "finishing" /\ ~failed[e] /\ UNCHANGED <<task, children>>
    BY <1>2, <2>2 DEF BehindIsDone, Counting
  <2> QED BY <1>2, <2>0, <2>1, <2>2, HowAnExecutionCompletes
<1>3. ASSUME HistoryInv, LeaseInv, WorkingIsOpen, BehindIsDone, [Next]_vars
      PROVE  BehindIsDone'
  BY <1>3, BehindStaysDone
<1>4. ParentCompletedSound /\ CompletedMeansChildrenCompleted => CompletionIsTrue
  BY DEF CompletionIsTrue
<1> QED
  BY <1>1, <1>2, <1>3, <1>4, HistoryInvariant, LeaseInvariant, WorkingIsAlwaysOpen,
     ParentsAreDone, PTL DEF Spec
-----------------------------------------------------------------------------
(* Nobody disturbs a live coroutine.                                       *)

\* Heartbeats are written in time, and nobody else runs the agents.
Attended == "heartbeat" \notin Faults /\ "other_run" \notin Faults

\* The heartbeat of an awaited child is fresh, and names it.
BeatFits == \A e \in Execution : pc[e] \in Awaiting => beat[AgentOf[cur[e]]] = cur[e]

\* The awaited child has no outcome yet.
AwaitedIsOpen ==
  \A e \in Execution : pc[e] = "working" => task[cur[e]] \in {"queued", "running"}

\* What a recovery is about to finalize has no coroutine.
RecoveredHasNoRunner ==
  \A r \in recovery : r.step = "finalize" => pc[r.execution] = "none"

UndisturbedInv ==
  /\ RunnerOwnsExecution
  /\ ObservedCanFinalize
  /\ BeatFits
  /\ AwaitedIsOpen
  /\ RecoveredHasNoRunner

\* A heartbeat is written for the child a coroutine takes, awaits or leaves.
LEMMA HowABeatChanges ==
  ASSUME HistoryInv, [Next]_vars, NEW a \in Agent, beat'[a] # beat[a]
  PROVE  \/ \E e \in Execution, t \in Task : Dispatch(e, t) /\ a = AgentOf[t]
         \/ \E e \in Execution :
              /\ pc[e] \in Awaiting /\ a = AgentOf[cur[e]]
              /\ Deactivate(e) \/ Heartbeat(e)
         \/ GoStale(a) \/ OtherRun(a) \/ Gone
<1> USE DEF durable, runner
<1>0. TypeOK /\ CurIsSelected BY DEF HistoryInv
<1>1. CASE UNCHANGED beat BY <1>1
<1>2. ASSUME NEW e \in Execution, NEW t \in Task, Dispatch(e, t) PROVE a = AgentOf[t]
  BY <1>0, <1>2 DEF Dispatch, TypeOK
<1>3. ASSUME NEW e \in Execution, Deactivate(e)
      PROVE  pc[e] \in Awaiting /\ a = AgentOf[cur[e]]
  BY <1>0, <1>3 DEF Deactivate, Go, Awaiting, Leaving, TypeOK
<1>4. ASSUME NEW e \in Execution, Heartbeat(e)
      PROVE  pc[e] \in Awaiting /\ a = AgentOf[cur[e]]
  BY <1>0, <1>4 DEF Heartbeat, Awaiting, TypeOK
<1>5. ASSUME NEW b \in Agent, GoStale(b) \/ OtherRun(b) PROVE a = b
  BY <1>0, <1>5 DEF GoStale, OtherRun, TypeOK
<1>6. CASE Interrupt BY <1>6 DEF Interrupt, Forget, Gone
<1>7. ASSUME NEW e \in Execution, RunnerStep(e), ~Deactivate(e),
             ~ \E t \in Task : Dispatch(e, t)
      PROVE  FALSE
  BY <1>1, <1>7 DEF RunnerStep, CheckWorkers, ChildReturns, ChildRaises, ChildCancelled,
     ChildEnds, Refuse, Observe, FinalizeCancellation, FinalizeObserved,
     CancellationConflict, ReviewParent, MarkManualReview, ReconcileParent, Complete
<1>8. ASSUME NEW e \in Execution, OwnerStep(e) PROVE FALSE
  BY <1>1, <1>8 DEF OwnerStep, Reserve, AnswerAdmission, Claim, RequestCancellation,
     CancelReserved, AnswerControl, RecoverInterrupted, RecoverQuarantined,
     FinalizeRecovery, BeginCancelledRecovery
<1>9. ~FinalizeCancelledRecovery /\ ~RecordCancelledRecovery /\ ~Crash
  BY <1>1 DEF FinalizeCancelledRecovery, FinalizeObserved, RecordCancelledRecovery, Crash
<1>10. \A e \in Execution : ~AgeClaim(e) BY <1>1 DEF AgeClaim
<1> QED
  BY <1>1, <1>2, <1>3, <1>4, <1>5, <1>6, <1>7, <1>8, <1>9, <1>10
  DEF Next, vars, EnvironmentStep

\* While the owner acts on an execution it has no coroutine, unless he only requests its
\* cancellation: a recovery sees the heartbeat of a live one.
LEMMA OwnerFindsNoRunner ==
  ASSUME HistoryInv, LeaseInv, UndisturbedInv, NEW e \in Execution, OwnerStep(e)
  PROVE  \/ RequestCancellation(e)
         \/ \E k \in ControlKey : AnswerControl(e, k)
         \/ pc[e] = "none" /\ recovery = {}
<1> USE DEF durable, runner, Go
<1>0. TypeOK /\ CurIsSelected /\ NothingBeforeClaim /\ ClaimAgrees
  BY DEF HistoryInv, LeaseInv
<1>1. pc[e] # "none" => state[e] = "running" BY DEF UndisturbedInv, RunnerOwnsExecution
<1>2. ASSUME LoopFree, ~FreshActive(e) PROVE pc[e] = "none"
  <2> SUFFICES ASSUME pc[e] \in Awaiting PROVE FALSE BY <1>2 DEF LoopFree
  <2>1. cur[e] \in children[e] /\ beat[AgentOf[cur[e]]] = cur[e]
    BY <1>0 DEF CurIsSelected, UndisturbedInv, BeatFits
  <2> QED BY <1>2, <2>1 DEF FreshActive
<1>3. ASSUME NEW S \in SUBSET Task, Reserve(e, S) PROVE pc[e] = "none" /\ recovery = {}
  BY <1>1, <1>3 DEF Reserve, LoopFree
<1>4. CASE AnswerAdmission(e) BY <1>1, <1>4 DEF AnswerAdmission, LoopFree
<1>5. CASE Claim(e) BY <1>5 DEF Claim, LoopFree
<1>6. ASSUME NEW k \in ControlKey, CancelReserved(e, k) PROVE pc[e] = "none" /\ recovery = {}
  BY <1>1, <1>6 DEF CancelReserved, StillReserved, LoopFree
<1>7. ASSUME NEW k \in ControlKey, RecoverInterrupted(e, k)
      PROVE  pc[e] = "none" /\ recovery = {}
  BY <1>2, <1>7 DEF RecoverInterrupted, Interrupted, LoopFree
<1>8. ASSUME NEW k \in ControlKey, RecoverQuarantined(e, k)
      PROVE  pc[e] = "none" /\ recovery = {}
  BY <1>1, <1>8 DEF RecoverQuarantined, LoopFree
<1>9. ASSUME NEW k \in ControlKey, BeginCancelledRecovery(e, k)
      PROVE  pc[e] = "none" /\ recovery = {}
  BY <1>2, <1>9 DEF BeginCancelledRecovery, Interrupted, LoopFree
<1> QED BY <1>3, <1>4, <1>5, <1>6, <1>7, <1>8, <1>9 DEF OwnerStep

\* The record of an execution with a coroutine is written by that coroutine alone; his
\* request for its cancellation is all the owner adds.
LEMMA OthersKeepRecord ==
  ASSUME HistoryInv, LeaseInv, UndisturbedInv, [Next]_vars, NEW e \in Execution,
         pc[e] # "none", ~RunnerStep(e), ~Gone
  PROVE  /\ UNCHANGED <<pc[e], cur[e], todo[e], failed[e], state[e], start[e], held[e]>>
         /\ cancellation'[e] # cancellation[e] => cancellation[e] = "none"
<1> USE DEF durable, runner
<1>1. CASE UNCHANGED Own(e) BY <1>1 DEF Own
<1>2. CASE OwnerStep(e)
  BY <1>2, OwnerFindsNoRunner DEF RequestCancellation, Cancellable, AnswerControl
<1>3. CASE Reconciles(e)
  BY <1>3 DEF Reconciles, UndisturbedInv, RecoveredHasNoRunner
<1> QED BY <1>1, <1>2, <1>3, OwnStep DEF HistoryInv
\* A coroutine that goes on leaves the record alone, but for the acknowledgement of a
\* cancellation.
LEMMA GoingOnKeepsRecord ==
  ASSUME TypeOK, NEW e \in Execution, RunnerStep(e), pc'[e] # "none"
  PROVE  /\ UNCHANGED <<state, start, held, recovery>>
         /\ pc'[e] \in {"observed", "acknowledged"} => Observe(e)
<1> USE DEF durable, runner, TypeOK, Go
<1>1. ~FinalizeCancellation(e) /\ ~MarkManualReview(e) /\ ~Complete(e)
  BY DEF FinalizeCancellation, MarkManualReview, Complete
<1>2. CASE CheckWorkers(e) BY <1>2 DEF CheckWorkers
<1>3. CASE ChildReturns(e) \/ ChildRaises(e) \/ ChildCancelled(e)
  BY <1>3 DEF ChildReturns, ChildRaises, ChildCancelled, ChildEnds
<1>4. CASE Deactivate(e) BY <1>4 DEF Deactivate
<1>5. CASE \E t \in Task : Dispatch(e, t) \/ Refuse(e, t) BY <1>5 DEF Dispatch, Refuse
<1>6. CASE Observe(e) BY <1>6 DEF Observe
<1>7. CASE ReviewParent(e) \/ ReconcileParent(e) BY <1>7 DEF ReviewParent, ReconcileParent
<1>8. CASE CancellationConflict(e) BY <1>8 DEF CancellationConflict
<1> QED BY <1>1, <1>2, <1>3, <1>4, <1>5, <1>6, <1>7, <1>8 DEF RunnerStep

\* Every coroutine was made by a claim.
LEMMA HowACoroutineBegins ==
  ASSUME TypeOK, [Next]_vars, NEW e \in Execution, pc[e] = "none", pc'[e] # "none"
  PROVE  Claim(e)
<1> USE DEF durable, runner, Go
<1>1. ~RunnerStep(e)
  BY DEF RunnerStep, CheckWorkers, ChildReturns, ChildRaises, ChildCancelled, ChildEnds,
     Deactivate, Dispatch, Refuse, Observe, FinalizeCancellation, CancellationConflict,
     ReviewParent, MarkManualReview, ReconcileParent, Complete
<1>2. CASE OwnerStep(e)
  BY <1>2 DEF OwnerStep, Reserve, AnswerAdmission, RequestCancellation, CancelReserved,
     AnswerControl, RecoverInterrupted, RecoverQuarantined, FinalizeRecovery,
     BeginCancelledRecovery
<1> QED BY <1>1, <1>2, OwnStep DEF Own, Reconciles, Gone

LEMMA RunnerStaysOwner ==
  ASSUME HistoryInv, LeaseInv, UndisturbedInv, [Next]_vars
  PROVE  RunnerOwnsExecution'
<1>0. TypeOK BY DEF HistoryInv
<1> SUFFICES ASSUME NEW e \in Execution, pc'[e] # "none"
             PROVE  state'[e] = "running" /\ held'[e]
  BY DEF RunnerOwnsExecution
<1>1. CASE pc[e] = "none"
  <2>1. Claim(e) BY <1>0, <1>1, HowACoroutineBegins
  <2>2. /\ state' = [state EXCEPT ![e] = "running"]
        /\ held' = held /\ held[e]
    BY <2>1 DEF Claim, StillReserved, QueuedWhole
  <2> QED BY <1>0, <2>2 DEF TypeOK
<1>2. CASE pc[e] # "none"
  <2>1. state[e] = "running" /\ held[e] BY <1>2 DEF UndisturbedInv, RunnerOwnsExecution
  <2>2. CASE RunnerStep(e) BY <1>0, <2>1, <2>2, GoingOnKeepsRecord
  <2>3. CASE ~RunnerStep(e)
    <3>1. ~Gone BY DEF Gone
    <3>2. state'[e] = state[e] /\ held'[e] = held[e] BY <1>2, <2>3, <3>1, OthersKeepRecord
    <3> QED BY <2>1, <3>2
  <2> QED BY <2>2, <2>3
<1> QED BY <1>1, <1>2

\* A recovery of a cancelled execution begins once, and reconciles it next.
LEMMA HowARecoveryBegins ==
  ASSUME TypeOK, [Next]_vars, NEW r \in recovery', r.step = "finalize"
  PROVE  \/ r \in recovery
         \/ \E e \in Execution, k \in ControlKey :
              BeginCancelledRecovery(e, k) /\ r.execution = e
<1> USE DEF durable, runner
<1>1. CASE UNCHANGED recovery BY <1>1
<1>2. ASSUME NEW e \in Execution, NEW k \in ControlKey, BeginCancelledRecovery(e, k)
      PROVE  r.execution = e
  BY <1>2 DEF BeginCancelledRecovery
<1>3. ~FinalizeCancelledRecovery
  <2> SUFFICES ASSUME FinalizeCancelledRecovery PROVE FALSE OBVIOUS
  <2>1. PICK s \in recovery : recovery' = {[s EXCEPT !.step = "record"]}
    BY DEF FinalizeCancelledRecovery
  <2> QED BY <2>1 DEF TypeOK
<1>4. ~RecordCancelledRecovery /\ ~Crash /\ ~Interrupt
  BY DEF RecordCancelledRecovery, Crash, Interrupt, Forget
<1>5. ASSUME NEW e \in Execution, RunnerStep(e) PROVE UNCHANGED recovery
  BY <1>5 DEF RunnerStep, CheckWorkers, ChildReturns, ChildRaises, ChildCancelled,
     ChildEnds, Deactivate, Dispatch, Refuse, Observe, FinalizeCancellation,
     CancellationConflict, ReviewParent, MarkManualReview, ReconcileParent, Complete
<1>6. ASSUME NEW e \in Execution, OwnerStep(e),
             ~ \E k \in ControlKey : BeginCancelledRecovery(e, k)
      PROVE  UNCHANGED recovery
  BY <1>6 DEF OwnerStep, Reserve, AnswerAdmission, Claim, RequestCancellation,
     CancelReserved, AnswerControl, RecoverInterrupted, RecoverQuarantined,
     FinalizeRecovery
<1> QED
  BY <1>1, <1>2, <1>3, <1>4, <1>5, <1>6 DEF Next, vars, EnvironmentStep, Heartbeat,
     AgeClaim, GoStale, OtherRun

\* What a recovery is about to reconcile waits for it: it has no coroutine, and the owner
\* can only ask again for what is already acknowledged.
LEMMA RecoveryWaits ==
  ASSUME HistoryInv, LeaseInv, UndisturbedInv, [Next]_vars, NEW r \in recovery,
         r.step = "finalize", r \in recovery'
  PROVE  LET e == r.execution IN
         UNCHANGED <<pc[e], state[e], start[e], cancellation[e]>>
<1> USE DEF durable, runner, Go
<1> DEFINE e == r.execution
<1>0. TypeOK /\ e \in Execution BY DEF HistoryInv, TypeOK
<1>1. pc[e] = "none" /\ cancellation[e] = "observed"
  BY DEF UndisturbedInv, RecoveredHasNoRunner, ObservedCanFinalize, CanFinalize
<1>2. ~RunnerStep(e)
  BY <1>1 DEF RunnerStep, CheckWorkers, ChildReturns, ChildRaises, ChildCancelled,
     ChildEnds, Deactivate, Dispatch, Refuse, Observe, FinalizeCancellation,
     CancellationConflict, ReviewParent, MarkManualReview, ReconcileParent, Complete
<1>3. CASE OwnerStep(e)
  <2>1. ~RequestCancellation(e) BY <1>1 DEF RequestCancellation, Cancellable
  <2>2. \E k \in ControlKey : AnswerControl(e, k)
    BY <1>0, <1>3, <2>1, OwnerFindsNoRunner
  <2> QED BY <2>2 DEF AnswerControl
<1>4. ~Reconciles(e) BY DEF Reconciles
<1>5. recovery' # {} OBVIOUS
<1> QED BY <1>0, <1>2, <1>3, <1>4, <1>5, OwnStep DEF Own

LEMMA RecoveryFindsNoRunner ==
  ASSUME HistoryInv, LeaseInv, UndisturbedInv, [Next]_vars
  PROVE  RecoveredHasNoRunner'
<1>0. TypeOK BY DEF HistoryInv
<1> SUFFICES ASSUME NEW r \in recovery', r.step = "finalize"
             PROVE  pc'[r.execution] = "none"
  BY DEF RecoveredHasNoRunner
<1>1. CASE r \in recovery
  <2>1. pc[r.execution] = "none" BY <1>1 DEF UndisturbedInv, RecoveredHasNoRunner
  <2> QED BY <1>1, <2>1, RecoveryWaits
<1>2. ASSUME NEW e \in Execution, NEW k \in ControlKey, BeginCancelledRecovery(e, k)
      PROVE  pc'[e] = "none"
  <2>1. OwnerStep(e) BY <1>2 DEF OwnerStep
  <2>2. recovery' # recovery /\ pc' = pc
    BY <1>2 DEF BeginCancelledRecovery, LoopFree, runner
  <2>3. ~RequestCancellation(e) /\ \A l \in ControlKey : ~AnswerControl(e, l)
    BY <2>2 DEF RequestCancellation, AnswerControl
  <2> QED BY <2>1, <2>2, <2>3, OwnerFindsNoRunner
<1> QED BY <1>0, <1>1, <1>2, HowARecoveryBegins

LEMMA ObservedStaysFinalizable ==
  ASSUME HistoryInv, LeaseInv, UndisturbedInv, [Next]_vars
  PROVE  ObservedCanFinalize'
<1> USE DEF CanFinalize, Active
<1>0. TypeOK /\ ClaimAgrees BY DEF HistoryInv, LeaseInv
<1>1. ASSUME NEW e \in Execution, pc'[e] \in {"observed", "acknowledged"}
      PROVE  CanFinalize(e)'
  <2>0. pc[e] # "none"
    <3>1. ~Claim(e) BY <1>0, <1>1 DEF Claim, Go, TypeOK
    <3> QED BY <1>0, <1>1, <3>1, HowACoroutineBegins
  <2>1. state[e] = "running" /\ start[e] = "claimed"
    BY <1>0, <2>0 DEF UndisturbedInv, RunnerOwnsExecution, ClaimAgrees
  <2>2. CASE RunnerStep(e)
    <3>1. Observe(e) /\ UNCHANGED <<state, start>>
      BY <1>0, <1>1, <2>2, GoingOnKeepsRecord
    <3> QED BY <1>0, <2>1, <3>1 DEF Observe, TypeOK
  <2>3. CASE ~RunnerStep(e)
    <3>1. ~Gone BY <1>1 DEF Gone
    <3>2. /\ UNCHANGED <<pc[e], state[e], start[e]>>
          /\ cancellation'[e] # cancellation[e] => cancellation[e] = "none"
      BY <2>0, <2>3, <3>1, OthersKeepRecord
    <3>3. cancellation[e] = "observed"
      BY <1>1, <3>2 DEF UndisturbedInv, ObservedCanFinalize
    <3> QED BY <2>1, <3>2, <3>3
  <2> QED BY <2>2, <2>3
<1>2. ASSUME NEW r \in recovery', r.step = "finalize" PROVE CanFinalize(r.execution)'
  <2>1. CASE r \in recovery
    <3>1. CanFinalize(r.execution) BY <1>2, <2>1 DEF UndisturbedInv, ObservedCanFinalize
    <3> QED BY <1>2, <2>1, <3>1, RecoveryWaits
  <2>2. ASSUME NEW e \in Execution, NEW k \in ControlKey, BeginCancelledRecovery(e, k)
        PROVE  CanFinalize(e)'
    BY <1>0, <2>2 DEF BeginCancelledRecovery, Interrupted, ClaimAgrees, TypeOK
  <2> QED BY <1>0, <1>2, <2>1, <2>2, HowARecoveryBegins
<1> QED BY <1>1, <1>2 DEF ObservedCanFinalize
\* A coroutine awaits what it awaited, or the child it has just taken.
LEMMA HowACoroutineAwaits ==
  ASSUME HistoryInv, LeaseInv, UndisturbedInv, [Next]_vars, NEW e \in Execution,
         pc'[e] \in Awaiting
  PROVE  \/ pc[e] \in Awaiting /\ cur'[e] = cur[e] /\ ~Deactivate(e)
         \/ \E t \in Task : Dispatch(e, t) /\ cur'[e] = t
<1>0. TypeOK /\ CurIsSelected BY DEF HistoryInv
<1>1. ~Deactivate(e) BY <1>0 DEF Deactivate, Go, Awaiting, Leaving, TypeOK
<1>2. pc[e] # "none"
  <2>1. ~Claim(e) BY <1>0 DEF Claim, Go, Awaiting, Leaving, TypeOK
  <2>2. pc'[e] # "none" BY DEF Awaiting, Leaving
  <2> QED BY <1>0, <2>1, <2>2, HowACoroutineBegins
<1>3. ASSUME NEW t \in Task, Dispatch(e, t) PROVE cur'[e] = t
  BY <1>0, <1>3 DEF Dispatch, TypeOK
<1>4. CASE RunnerStep(e) /\ ~ \E t \in Task : Dispatch(e, t)
  BY <1>0, <1>1, <1>4, RunnerIsQuiet DEF Quiet
<1>5. CASE ~RunnerStep(e)
  <2>1. ~Gone BY DEF Gone, Awaiting, Leaving
  <2>2. pc'[e] = pc[e] /\ cur'[e] = cur[e] BY <1>2, <1>5, <2>1, OthersKeepRecord
  <2> QED BY <1>1, <2>2
<1> QED BY <1>3, <1>4, <1>5

\* Two coroutines never await the same agent, nor does one take an agent another awaits.
LEMMA AgentsApart ==
  ASSUME HistoryInv, LeaseInv, UndisturbedInv, NEW e \in Execution, NEW f \in Execution,
         e # f, pc[e] # "none", pc[f] # "none", NEW t \in children[e], NEW u \in children[f]
  PROVE  AgentOf[t] # AgentOf[u]
<1>1. held[e] /\ held[f] BY DEF UndisturbedInv, RunnerOwnsExecution
<1>2. AgentsOf(e) \cap AgentsOf(f) = {} BY <1>1 DEF LeaseInv, ReservationsExclusive
<1> QED BY <1>2 DEF AgentsOf

LEMMA BeatStaysFitting ==
  ASSUME Attended, HistoryInv, LeaseInv, UndisturbedInv, [Next]_vars
  PROVE  BeatFits'
<1>0. /\ TypeOK /\ CurIsSelected /\ TodoSelected
  BY DEF HistoryInv
<1> SUFFICES ASSUME NEW e \in Execution, pc'[e] \in Awaiting
             PROVE  beat'[AgentOf[cur'[e]]] = cur'[e]
  BY DEF BeatFits
<1>1. ASSUME NEW t \in Task, Dispatch(e, t), cur'[e] = t
      PROVE  beat'[AgentOf[cur'[e]]] = cur'[e]
  <2>1. \E b \in Written("heartbeat", t, beat[AgentOf[t]]) :
          beat' = [beat EXCEPT ![AgentOf[t]] = b]
    BY <1>1 DEF Dispatch
  <2>2. beat' = [beat EXCEPT ![AgentOf[t]] = t] BY <2>1 DEF Written, Attended
  <2>3. AgentOf[t] \in Agent BY ExecutionAssumption
  <2> QED BY <1>0, <1>1, <2>2, <2>3 DEF TypeOK
<1>2. CASE pc[e] \in Awaiting /\ cur'[e] = cur[e] /\ ~Deactivate(e)
  <2> DEFINE a == AgentOf[cur[e]]
  <2>1. cur[e] \in children[e] /\ cur[e] \in Task /\ a \in Agent
    BY <1>0, <1>2, ExecutionAssumption DEF CurIsSelected, TypeOK
  <2>2. beat[a] = cur[e] /\ pc[e] # "none"
    BY <1>2 DEF UndisturbedInv, BeatFits, Awaiting, Leaving
  <2> SUFFICES ASSUME beat'[a] # beat[a] PROVE beat'[a] = cur[e] BY <1>2, <2>2
  <2>3. ASSUME NEW f \in Execution, NEW t \in Task, Dispatch(f, t), a = AgentOf[t] PROVE FALSE
    <3>1. pc[f] = "loop" /\ t \in children[f]
      BY <1>0, <2>3 DEF Dispatch, Go, TodoSelected
    <3>2. f # e BY <1>2, <3>1 DEF Awaiting, Leaving
    <3> QED BY <2>1, <2>2, <2>3, <3>1, <3>2, AgentsApart
  <2>4. ASSUME NEW f \in Execution, pc[f] \in Awaiting, a = AgentOf[cur[f]] PROVE f = e
    <3>1. pc[f] # "none" /\ cur[f] \in children[f]
      BY <1>0, <2>4 DEF CurIsSelected, Awaiting, Leaving
    <3> QED BY <2>1, <2>2, <2>4, <3>1, AgentsApart
  <2>5. CASE Heartbeat(e) BY <1>0, <2>1, <2>5 DEF Heartbeat, TypeOK
  <2>6. ~GoStale(a) BY <1>2, <2>2 DEF GoStale, Attended
  <2>7. ~OtherRun(a) BY DEF OtherRun, Attended
  <2>8. ~Gone BY DEF Gone, Awaiting, Leaving
  <2> QED BY <1>2, <2>1, <2>3, <2>4, <2>5, <2>6, <2>7, <2>8, HowABeatChanges
<1> QED BY <1>1, <1>2, HowACoroutineAwaits

\* The row of an awaited child is left to its agent: whoever settles its execution would
\* have found the coroutine.
LEMMA AwaitedStaysOpen ==
  ASSUME HistoryInv, LeaseInv, UndisturbedInv, [Next]_vars
  PROVE  AwaitedIsOpen'
<1>0. TypeOK /\ CurIsSelected BY DEF HistoryInv
<1> SUFFICES ASSUME NEW e \in Execution, pc'[e] = "working"
             PROVE  task'[cur'[e]] \in {"queued", "running"}
  BY DEF AwaitedIsOpen
<1>1. ASSUME NEW t \in Task, Dispatch(e, t), cur'[e] = t
      PROVE  task'[cur'[e]] \in {"queued", "running"}
  BY <1>0, <1>1 DEF Dispatch, Written, TypeOK
<1>2. CASE pc[e] = "working" /\ cur'[e] = cur[e] /\ ~ChildReturns(e)
  <2> DEFINE t == cur[e]
  <2>1. t \in children[e] /\ t \in Task
    BY <1>0, <1>2 DEF CurIsSelected, Awaiting, TypeOK
  <2>2. task[t] \in {"queued", "running"} BY <1>2 DEF UndisturbedInv, AwaitedIsOpen
  <2> SUFFICES ASSUME task'[t] # task[t] PROVE FALSE BY <1>2, <2>2
  <2>3. ASSUME NEW f \in Execution, Dispatch(f, t) PROVE FALSE
    <3>1. pc[f] = "loop" /\ t \in children[f]
      BY <2>3 DEF Dispatch, Go, HistoryInv, TodoSelected
    <3>2. f # e BY <1>2, <3>1
    <3> QED BY <2>1, <3>1, <3>2, OtherChild
  <2>4. ASSUME NEW f \in Execution, Ends(f, t) PROVE FALSE
    <3>1. t \in children[f] BY <1>0, <2>4 DEF Ends, CurIsSelected, Awaiting
    <3>2. f = e BY <2>1, <3>1, OtherChild
    <3>3. ~ChildRaises(e) /\ ~ChildCancelled(e)
      BY <1>0 DEF ChildRaises, ChildCancelled, ChildEnds, Go, TypeOK
    <3>4. ~Interrupt BY DEF Interrupt, Forget
    <3> QED BY <1>2, <2>4, <3>2, <3>3, <3>4 DEF Ends
  <2>5. ASSUME NEW f \in Execution, t \in children[f], Closes(f) PROVE FALSE
    <3>1. f = e BY <2>1, <2>5, OtherChild
    <3>2. ~FinalizeCancellation(e) BY <1>2 DEF FinalizeCancellation, Go
    <3>3. ~Reconciles(e)
      BY <1>2 DEF Reconciles, UndisturbedInv, RecoveredHasNoRunner
    <3>4. ASSUME NEW k \in ControlKey, CancelReserved(e, k) PROVE FALSE
      BY <1>2, <3>4 DEF CancelReserved, StillReserved, UndisturbedInv, RunnerOwnsExecution
    <3>5. ASSUME NEW k \in ControlKey, RecoverInterrupted(e, k) PROVE FALSE
      <4>1. beat[AgentOf[t]] = t BY <1>2 DEF UndisturbedInv, BeatFits, Awaiting
      <4> QED BY <2>1, <3>5, <4>1 DEF RecoverInterrupted, Interrupted, FreshActive
    <3> QED BY <2>5, <3>1, <3>2, <3>3, <3>4, <3>5 DEF Closes
  <2> QED BY <2>1, <2>2, <2>3, <2>4, <2>5, HowATaskChanges
<1> QED BY <1>0, <1>1, <1>2, HowACoroutineWorks

LEMMA UndisturbedInvariant ==
  ASSUME Attended
  PROVE  Spec => []UndisturbedInv
<1>1. Init => UndisturbedInv
  BY DEF Init, UndisturbedInv, RunnerOwnsExecution, ObservedCanFinalize, BeatFits,
     AwaitedIsOpen, RecoveredHasNoRunner, Awaiting, Leaving
<1>2. ASSUME HistoryInv, LeaseInv, UndisturbedInv, [Next]_vars PROVE UndisturbedInv'
  <2>1. RunnerOwnsExecution' BY <1>2, RunnerStaysOwner
  <2>2. ObservedCanFinalize' BY <1>2, ObservedStaysFinalizable
  <2>3. BeatFits' BY <1>2, BeatStaysFitting
  <2>4. AwaitedIsOpen' BY <1>2, AwaitedStaysOpen
  <2>5. RecoveredHasNoRunner' BY <1>2, RecoveryFindsNoRunner
  <2> QED BY <2>1, <2>2, <2>3, <2>4, <2>5 DEF UndisturbedInv
<1> QED BY <1>1, <1>2, HistoryInvariant, LeaseInvariant, PTL DEF Spec

\* Through crashes and lost ledger writes, nobody else settles an execution or gives its
\* agents back while a coroutine runs it, and an acknowledged cancellation can always be
\* settled: as long as heartbeats are written in time and nothing else runs the agents
\* (execution_recovery_service.py, execution_cancellation_service.py).
THEOREM LiveRunnerIsUndisturbed ==
  ASSUME Attended
  PROVE  Spec => []RunnerIsUndisturbed
<1>1. UndisturbedInv => RunnerIsUndisturbed BY DEF UndisturbedInv, RunnerIsUndisturbed
<1> QED BY <1>1, UndisturbedInvariant, PTL

\* Under the same condition no late write changes the outcome of a child, by any agent,
\* cancellation or recovery.
THEOREM ChildOutcomesAreFinal ==
  ASSUME Attended
  PROVE  Spec => ChildOutcomeIsFinal
<1>1. ASSUME HistoryInv, UndisturbedInv, [Next]_vars
      PROVE  [\A t \in Task : task[t] \in Outcome => task'[t] = task[t]]_vars
  <2> SUFFICES ASSUME NEW t \in Task, task[t] \in Outcome, task'[t] # task[t] PROVE FALSE
    OBVIOUS
  <2>1. \A e \in Execution : ~Dispatch(e, t) BY DEF Dispatch, Outcome
  <2>2. \A e \in Execution : ~Ends(e, t)
    BY <1>1 DEF Ends, UndisturbedInv, AwaitedIsOpen, Outcome
  <2> QED BY <1>1, <2>1, <2>2, HowATaskChanges DEF Outcome
<1> QED
  BY <1>1, HistoryInvariant, UndisturbedInvariant, PTL DEF Spec, ChildOutcomeIsFinal
=============================================================================
