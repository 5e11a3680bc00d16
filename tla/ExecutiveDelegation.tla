------------------------ MODULE ExecutiveDelegation ------------------------
(***************************************************************************)
(* From the owner's objectives to tasks in the ledger: a request is        *)
(* planned, checked against policy, approval and the workers, and then     *)
(* written in one transaction under its idempotency key.  The event loop   *)
(* handles one HTTP request at a time, but the Telegram router delegates   *)
(* from a thread of its own, so what a request read before its transaction *)
(* may be stale in it.  A delegation starts nothing: what the execution    *)
(* does with the tasks later reaches this module as moves of the ledger.   *)
(***************************************************************************)
EXTENDS OwnerNotifications

CONSTANTS
    Requesters,    \* the event loop and the Telegram thread
    Requests,      \* requests the owner's programs send
    Risk,          \* objective |-> the terms it matches
    Agent,         \* objective |-> machine agent of its role, or None
    AgentRuns,     \* tasks of agent runs outside any delegation
    MaxCalls,      \* bound on calls
    MaxMoved       \* bound on tasks that leave their first status

VARIABLES
    call,          \* what each thread is doing
    delegations,   \* executive_delegations: key |-> row
    approvals,     \* executive_approvals: approval id |-> row
    answers        \* the answers given

delegVars == <<call, delegations, approvals, answers>>
vars == <<ledger, notifyVars, delegVars>>

Objectives == DOMAIN Risk
Agents == { Agent[o] : o \in Objectives } \ {None}
ASSUME RequestsWellFormed ==
    /\ Agent \in [Objectives -> Agents \cup {None}]
    /\ Risk \in [Objectives -> {"none", "external", "high", "blocked"}]
    /\ \A q \in Requests : /\ q.plan.objectives \in Seq(Objectives)
                           /\ Len(q.plan.objectives) \in 1 .. 20
                           /\ q.plan.external \in BOOLEAN

\* the id of a decision covers the objectives, not the permission
Decision(q) == q.plan.objectives
\* what a key is bound to: everything but the time of the approval
Hash(q) == <<q.plan, q.approval>>
DelegationId(q) == [decision |-> Decision(q), key |-> q.key]
TaskId(q, i) == [delegation |-> DelegationId(q), index |-> i]
Items(q) == 1 .. Len(q.plan.objectives)
TaskIds(q) == { TaskId(q, i) : i \in {0} \cup Items(q) }
ASSUME RunsAreNoDelegations == \A q \in Requests : TaskIds(q) \cap AgentRuns = {}

\* _risk_for_task, for one objective of a plan
RiskLevel(q, i) ==
    LET matched == Risk[q.plan.objectives[i]] IN
    CASE matched = "blocked" -> "blocked"
      [] matched = "high" -> "high"
      [] matched = "external" -> IF q.plan.external THEN "low" ELSE "high"
      [] OTHER -> "low"
Blocked(q) == \E i \in Items(q) : RiskLevel(q, i) = "blocked"
ApprovalRequired(q) == \E i \in Items(q) : RiskLevel(q, i) # "low"

ApprovalValid(q) == /\ q.approval # None
                    /\ q.approval.approved
                    /\ q.approval.decision = Decision(q)

\* what the owner may be told of
Events == [category : SupportedCategories,
           subject : AgentRuns \cup UNION { TaskIds(q) : q \in Requests }]
          \cup { BlockEvent(Decision(q)) : q \in Requests }
ASSUME NoneIsNoEvent == None \notin Events

Quiet == [at |-> "quiet"]

Init ==
    /\ NotifyInit
    /\ ledger = <<>>
    /\ call = [r \in Requesters |-> Quiet]
    /\ delegations = <<>>
    /\ approvals = <<>>
    /\ answers = {}

Delegations == { delegations[k] : k \in DOMAIN delegations }

\* Types of the tables, and that their keys are keys.
TypeOK ==
    /\ NotifyTypeOK
    /\ \A t \in DOMAIN ledger : ledger[t] \in LiveStatuses \cup Notified
    /\ \A r \in Requesters : call[r].at \in {"quiet", "refusing", "admitting", "admitted"}
    /\ \A k \in DOMAIN delegations : delegations[k] \in Requests
    /\ \A a \in DOMAIN approvals : approvals[a].request \in Requests
    /\ \A a \in answers : a.request \in Requests
-----------------------------------------------------------------------------
Answer(r, kind) ==
    /\ call' = [call EXCEPT ![r] = Quiet]
    /\ answers' = answers \cup {[request |-> call[r].request, kind |-> kind]}

Bound(q) == q.key \in DOMAIN delegations
Replay(q) == IF Hash(delegations[q.key]) = Hash(q) THEN "replay" ELSE "conflict"

\* mutant of Cleared: the approval is not compared with the decision
ClearedByAny(q) ==
    ~Blocked(q) /\ (ApprovalRequired(q) => q.approval # None /\ q.approval.approved)
Cleared(q) == ~Blocked(q) /\ (ApprovalRequired(q) => ApprovalValid(q))

\* get_replay, then planning and policy, which read nothing that changes
Receive(r, q) ==
    /\ call[r] = Quiet
    /\ Cardinality(answers) < MaxCalls
    /\ IF Bound(q)
       THEN /\ answers' = answers \cup {[request |-> q, kind |-> Replay(q)]}
            /\ UNCHANGED call
       ELSE /\ call' = [call EXCEPT ![r] =
                 [at |-> IF Cleared(q) THEN "admitting" ELSE "refusing", request |-> q]]
            /\ UNCHANGED answers
    /\ UNCHANGED <<ledger, notifyVars, delegations, approvals>>

RejectBlocked(r) ==
    /\ call[r].at = "refusing"
    /\ Blocked(call[r].request)
    /\ outbox' = Enqueued(BlockEvent(Decision(call[r].request)))
    /\ Answer(r, "blocked")
    /\ UNCHANGED <<ledger, deliveries, worker, chat, lost, troubles,
                   delegations, approvals>>

AskApproval(r) ==
    /\ call[r].at = "refusing"
    /\ ~Blocked(call[r].request)
    /\ Answer(r, "approval_required")
    /\ UNCHANGED <<ledger, notifyVars, delegations, approvals>>

\* _worker_admission: one free worker for every work item
Admits(q, free) ==
    /\ \A i \in Items(q) : Agent[q.plan.objectives[i]] \in free
    /\ \A i, j \in Items(q) :
         Agent[q.plan.objectives[i]] = Agent[q.plan.objectives[j]] => i = j

\* The workers are looked at one by one; their states being any, it is as if
\* all were looked at together.
Admit(r) ==
    /\ call[r].at = "admitting"
    /\ \E free \in SUBSET Agents :
         IF Admits(call[r].request, free)
         THEN call' = [call EXCEPT ![r].at = "admitted"] /\ UNCHANGED answers
         ELSE Answer(r, "capacity_unavailable")
    /\ UNCHANGED <<ledger, notifyVars, delegations, approvals>>

\* persist finds the key bound by a request that was faster
PersistFindsKey(r) ==
    /\ call[r].at = "admitted"
    /\ Bound(call[r].request)
    /\ Answer(r, Replay(call[r].request))
    /\ UNCHANGED <<ledger, notifyVars, delegations, approvals>>

UsedApproval(q) == q.approval # None /\ q.approval.id \in DOMAIN approvals

\* the approval id is a primary key: the whole transaction is rolled back
PersistFails(r) ==
    /\ call[r].at = "admitted"
    /\ ~Bound(call[r].request) /\ UsedApproval(call[r].request)
    /\ Answer(r, "error")
    /\ UNCHANGED <<ledger, notifyVars, delegations, approvals>>

\* _build_task_records and the inserts, committed together
Persist(r) ==
    /\ call[r].at = "admitted"
    /\ LET q == call[r].request IN
       /\ ~Bound(q) /\ ~UsedApproval(q)
       /\ ledger' = [t \in DOMAIN ledger \cup TaskIds(q) |->
            IF t \in DOMAIN ledger THEN ledger[t]
            ELSE IF t.index = 0 THEN "planned" ELSE "assigned"]
       /\ approvals' = IF q.approval = None THEN approvals
            ELSE [a \in DOMAIN approvals \cup {q.approval.id} |->
                    IF a = q.approval.id
                    THEN [request |-> q, delegation |-> DelegationId(q)]
                    ELSE approvals[a]]
       /\ delegations' = [k \in DOMAIN delegations \cup {q.key} |->
                            IF k = q.key THEN q ELSE delegations[k]]
    /\ Answer(r, "delegated")
    /\ UNCHANGED notifyVars
-----------------------------------------------------------------------------
\* What the execution, its recovery and its cancellation do to a task.  The
\* statuses no trigger asks for ("queued", "manual_review") are left out.
Moves == [planned  |-> {"completed"},
          assigned |-> {"running", "cancelled"},
          running  |-> {"completed", "failed", "cancelled"}]

Moved == { t \in DOMAIN ledger : ledger[t] \in Notified }

TaskMoves(t, status) ==
    /\ ledger[t] \in DOMAIN Moves
    /\ status \in Moves[ledger[t]]
    /\ Cardinality(Moved \cup {t}) <= MaxMoved
    /\ ledger' = [ledger EXCEPT ![t] = status]
    /\ outbox' = Triggered(t, status)
    /\ UNCHANGED <<deliveries, worker, chat, lost, troubles, delegVars>>

\* an agent run enters the ledger as running
RunBegins(t) ==
    /\ t \notin DOMAIN ledger
    /\ Cardinality(Moved) < MaxMoved
    /\ ledger' = [u \in DOMAIN ledger \cup {t} |->
                    IF u = t THEN "running" ELSE ledger[u]]
    /\ outbox' = Triggered(t, "running")
    /\ UNCHANGED <<deliveries, worker, chat, lost, troubles, delegVars>>

\* the backend is killed or stopped, and started again
Restart ==
    /\ troubles < MaxTroubles
    /\ troubles' = troubles + 1
    /\ call' = [r \in Requesters |-> Quiet]
    /\ worker' = Idle
    /\ UNCHANGED <<ledger, outbox, deliveries, chat, lost,
                   delegations, approvals, answers>>

Delegate(r) == \/ \E q \in Requests : Receive(r, q)
               \/ RejectBlocked(r) \/ AskApproval(r)
               \/ Admit(r) \/ PersistFindsKey(r) \/ PersistFails(r) \/ Persist(r)

Next == \/ \E r \in Requesters : Delegate(r)
        \/ NotifyNext /\ UNCHANGED delegVars
        \/ \E t \in DOMAIN ledger : \E status \in Notified : TaskMoves(t, status)
        \/ \E t \in AgentRuns : RunBegins(t)
        \/ Restart

\* The loop of the worker goes on, and a message that is tried for ever
\* arrives at last.  Nothing is assumed of the requests.
Fairness ==
    /\ WF_vars((ClaimNext \/ SendReturns \/ MarkDelivered \/ Release)
               /\ UNCHANGED delegVars)
    /\ SF_vars(MessageArrives /\ UNCHANGED delegVars)

Spec == Init /\ [][Next]_vars /\ Fairness
-----------------------------------------------------------------------------
\* Every task of the ledger belongs to a recorded delegation or an agent run,
\* and a delegation has all of its tasks.
TasksAreWhole ==
    DOMAIN ledger \ AgentRuns = UNION { TaskIds(q) : q \in Delegations }

\* What policy blocked is not in the ledger; what needed the owner's approval
\* has one for this decision, recorded with it and with it alone.
PolicyWasObeyed ==
    \A q \in Delegations :
      /\ ~Blocked(q)
      /\ ApprovalRequired(q) =>
           /\ ApprovalValid(q)
           /\ approvals[q.approval.id].delegation = DelegationId(q)

\* No delegation gives one machine agent two tasks, or an unmapped role one.
OneSlotEach ==
    \A q \in Delegations :
      /\ \A i \in Items(q) : Agent[q.plan.objectives[i]] # None
      /\ \A i, j \in Items(q) :
           Agent[q.plan.objectives[i]] = Agent[q.plan.objectives[j]] => i = j

\* Whoever was told "delegated" or "replay" finds his own request recorded
\* under his key; a conflict was answered only to a different request.
AnswersAreTrue ==
    \A a \in answers :
      CASE a.kind \in {"delegated", "replay"} ->
             /\ Bound(a.request)
             /\ Hash(delegations[a.request.key]) = Hash(a.request)
        [] a.kind = "conflict" ->
             /\ Bound(a.request)
             /\ Hash(delegations[a.request.key]) # Hash(a.request)
        [] a.kind = "blocked" ->
             BlockEvent(Decision(a.request)) \in outbox
        [] OTHER -> TRUE

\* Whatever concurrent requests, reused keys and approvals, busy workers and
\* restarts do: delegations are whole, authorized and truthfully answered
\* (delegation_service.py and repository.py).
DelegationsAreSound ==
    TypeOK /\ TasksAreWhole /\ PolicyWasObeyed /\ OneSlotEach /\ AnswersAreTrue

\* An event is sent again only when the sending was reported as failed, and
\* is given up only when the backend stopped or the database refused a write
\* in between: each such accident costs one event at most.
OwnerIsToldOnce ==
    /\ \A e \in DOMAIN chat : Copies(e) <= 1 + Cardinality(LostSends(e))
    /\ Cardinality(Stranded) + Cardinality(lost) <= troubles

\* what the owner should hear of the task in its present status
Announcement(t) ==
    CASE ledger[t] = "running"   -> [category |-> "task_started", subject |-> t]
      [] ledger[t] = "completed" -> [category |-> "task_completed", subject |-> t]
      [] ledger[t] = "failed"    -> [category |-> "task_failed", subject |-> t]
      [] ledger[t] = "cancelled" -> [category |-> "task_cancelled", subject |-> t]

Owed == { Announcement(t) : t \in { u \in DOMAIN ledger : ledger[u] \in Notified } }
        \cup { BlockEvent(Decision(a.request)) :
                 a \in { b \in answers : b.kind = "blocked" } }

\* In the end the owner was told of every status a task has reached and of
\* every blocked plan, of the configured categories, except for events an
\* accident stranded (telegram_notifications.py).
OwnerHears ==
    <>[](\A e \in Owed : \/ e.category \notin Categories
                         \/ Told(e)
                         \/ e \in Stranded)
-----------------------------------------------------------------------------
(* The outbox, as an abstract specification.                               *)

\* Where an event of the outbox is.  A claimed row that is not in the worker's hands
\* was left behind by one that died or could not write.
EventStage(e) ==
    CASE e \notin DOMAIN deliveries -> "pending"
      [] Told(e) -> "told"
      [] e \in Stranded -> "stranded"
      [] OTHER -> CASE worker.at = "claimed" -> "taken"
                    [] worker.at = "failed" -> "failed"
                    [] OTHER -> "shown"

Announcing == INSTANCE Outbox WITH
    stage <- [e \in outbox |-> EventStage(e)],
    copies <- [e \in outbox |-> Copies(e)]

\* Triggers, worker, restarts and refused writes together are an outbox: one event at a
\* time is in hand, only in the worker's hand is it shown, only a shown one counts as told,
\* and what is told or stranded is not sent again (telegram_notifications.py).
RefinesOutbox == Announcing!Spec
=============================================================================
