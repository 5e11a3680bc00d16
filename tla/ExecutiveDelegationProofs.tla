---------------------- MODULE ExecutiveDelegationProofs ----------------------
(***************************************************************************)
(* Theorems about ExecutiveDelegation and the notifications it composes:   *)
(* delegations are whole, authorized and truthfully answered, the owner is *)
(* told at most once of anything that did not go wrong, and triggers,      *)
(* tables and worker together are an outbox.                               *)
(***************************************************************************)
EXTENDS ExecutiveDelegation, FiniteSetTheorems, TLAPS

Pending == {"refusing", "admitting", "admitted"}
Calls == {Quiet} \cup [at : Pending, request : Requests]

\* every work item of the request has an agent, and no agent has two
HasSlots(q) ==
  /\ \A i \in Items(q) : Agent[q.plan.objectives[i]] # None
  /\ \A i, j \in Items(q) :
       Agent[q.plan.objectives[i]] = Agent[q.plan.objectives[j]] => i = j

\* What a thread knows when it goes on to the next step stays true meanwhile:
\* the policy and the approval are facts about the request alone.
CallsFit ==
  /\ call \in [Requesters -> Calls]
  /\ \A r \in Requesters :
       /\ call[r].at \in {"admitting", "admitted"} => Cleared(call[r].request)
       /\ call[r].at = "admitted" => HasSlots(call[r].request)

\* A recorded delegation is under its own key, was cleared, and has the row of
\* its approval, whether or not policy asked for one.
Recorded(q) ==
  /\ Cleared(q) /\ HasSlots(q)
  /\ q.approval # None => /\ q.approval.id \in DOMAIN approvals
                          /\ approvals[q.approval.id].delegation = DelegationId(q)
RowsFit ==
  /\ \A k \in DOMAIN delegations : /\ delegations[k] \in Requests
                                   /\ delegations[k].key = k
                                   /\ Recorded(delegations[k])
  /\ \A a \in DOMAIN approvals : approvals[a].request \in Requests

LedgerFits ==
  /\ TasksAreWhole
  /\ \A t \in DOMAIN ledger : ledger[t] \in LiveStatuses \cup Notified

AnswersFit == AnswersAreTrue /\ \A a \in answers : a.request \in Requests

WorkerStages == {"idle", "claimed", "arrived", "sent", "failed"}
NotifyFits ==
  /\ outbox \subseteq Events
  /\ DOMAIN deliveries \subseteq outbox
  /\ \A e \in DOMAIN deliveries : deliveries[e] \in {"claimed", "delivered"}
  /\ worker \in [at : WorkerStages, event : outbox \cup {None}]
  /\ (worker.at = "idle") <=> (worker.event = None)
  /\ \A e \in DOMAIN chat : chat[e] \in Nat
  /\ troubles \in 0 .. MaxTroubles

DelegationInv == CallsFit /\ RowsFit /\ LedgerFits /\ AnswersFit /\ NotifyFits

LEMMA InvIsSound == DelegationInv => DelegationsAreSound
<1> SUFFICES ASSUME DelegationInv PROVE DelegationsAreSound
  OBVIOUS
<1>1. TypeOK
  <2>1. NotifyTypeOK
    <3>1. \A e \in Events : e.category \in SupportedCategories
      BY DEF Events, BlockEvent, SupportedCategories
    <3> QED BY <3>1 DEF DelegationInv, NotifyFits, NotifyTypeOK, WorkerStages
  <2>2. \A r \in Requesters : call[r].at \in {"quiet", "refusing", "admitting", "admitted"}
    BY DEF DelegationInv, CallsFit, Calls, Quiet, Pending
  <2> QED BY <2>1, <2>2 DEF DelegationInv, RowsFit, LedgerFits, AnswersFit, TypeOK
<1>2. PolicyWasObeyed
  BY DEF DelegationInv, RowsFit, Recorded, Cleared, ApprovalValid, PolicyWasObeyed, Delegations
<1>3. OneSlotEach
  BY DEF DelegationInv, RowsFit, Recorded, HasSlots, OneSlotEach, Delegations
<1> QED
  BY <1>1, <1>2, <1>3 DEF DelegationInv, LedgerFits, AnswersFit, DelegationsAreSound

LEMMA InitFits == Init => DelegationInv
<1> SUFFICES ASSUME Init PROVE DelegationInv
  OBVIOUS
<1>1. DOMAIN << >> = {}
  OBVIOUS
<1>2. CallsFit
  BY DEF Init, CallsFit, Calls, Quiet
<1>3. RowsFit
  BY <1>1 DEF Init, RowsFit
<1>4. LedgerFits
  BY <1>1 DEF Init, LedgerFits, TasksAreWhole, Delegations
<1>5. AnswersFit
  BY DEF Init, AnswersFit, AnswersAreTrue
<1>6. NotifyFits
  BY <1>1, TroublesAreCounted DEF Init, NotifyInit, NotifyFits, Idle, WorkerStages
<1> QED
  BY <1>2, <1>3, <1>4, <1>5, <1>6 DEF DelegationInv
-------------------------------------------------------------------------------
\* One thread goes on to a step it is fit for, and nobody else moves.
LEMMA ThreadMoves ==
  ASSUME CallsFit, NEW r \in Requesters, NEW c \in Calls, call' = [call EXCEPT ![r] = c],
         c.at \in {"admitting", "admitted"} => Cleared(c.request),
         c.at = "admitted" => HasSlots(c.request)
  PROVE  CallsFit'
<1>1. call' \in [Requesters -> Calls]
  BY DEF CallsFit
<1>2. ASSUME NEW s \in Requesters
      PROVE  /\ call'[s].at \in {"admitting", "admitted"} => Cleared(call'[s].request)
             /\ call'[s].at = "admitted" => HasSlots(call'[s].request)
  <2>1. call'[s] = IF s = r THEN c ELSE call[s]
    BY DEF CallsFit
  <2> QED BY <2>1 DEF CallsFit
<1> QED
  BY <1>1, <1>2 DEF CallsFit

LEMMA AnswerFitsCalls ==
  ASSUME CallsFit, NEW r \in Requesters, NEW kind, Answer(r, kind)
  PROVE  CallsFit'
<1>1. Quiet \in Calls /\ Quiet.at = "quiet"
  BY DEF Calls, Quiet
<1> QED
  BY <1>1, ThreadMoves DEF Answer

\* An answer that is true joins those that stay true as rows and events are added.
LEMMA AnswerFits ==
  ASSUME AnswersFit, NEW r \in Requesters, NEW q \in Requests, NEW kind,
         answers' = answers \cup {[request |-> q, kind |-> kind]},
         \A k \in DOMAIN delegations : /\ k \in DOMAIN delegations'
                                       /\ delegations'[k] = delegations[k],
         outbox \subseteq outbox',
         kind \in {"delegated", "replay", "conflict"} => Bound(q)',
         kind \in {"delegated", "replay"} => Hash(delegations'[q.key]) = Hash(q),
         kind = "conflict" => Hash(delegations'[q.key]) # Hash(q),
         kind = "blocked" => BlockEvent(Decision(q)) \in outbox'
  PROVE  AnswersFit'
<1> DEFINE True(a) ==
      CASE a.kind \in {"delegated", "replay"} ->
             /\ Bound(a.request)
             /\ Hash(delegations[a.request.key]) = Hash(a.request)
        [] a.kind = "conflict" ->
             /\ Bound(a.request)
             /\ Hash(delegations[a.request.key]) # Hash(a.request)
        [] a.kind = "blocked" ->
             BlockEvent(Decision(a.request)) \in outbox
        [] OTHER -> TRUE
<1>1. ASSUME NEW a \in answers PROVE True(a)'
  <2>1. True(a)
    BY DEF AnswersFit, AnswersAreTrue
  <2> QED BY <2>1 DEF Bound
<1>2. True([request |-> q, kind |-> kind])'
  BY DEF Bound
<1>3. \A a \in answers' : True(a)'
  BY <1>1, <1>2
<1>4. \A a \in answers' : a.request \in Requests
  BY DEF AnswersFit
<1> QED
  BY <1>3, <1>4 DEF AnswersFit, AnswersAreTrue

\* Whatever leaves the tables and the notifications alone keeps what they say.
LEMMA TablesUnchanged ==
  ASSUME DelegationInv, UNCHANGED <<ledger, notifyVars, delegations, approvals>>
  PROVE  RowsFit' /\ LedgerFits' /\ NotifyFits'
<1>1. RowsFit'
  BY DEF DelegationInv, RowsFit, Recorded
<1>2. LedgerFits'
  BY DEF DelegationInv, LedgerFits, TasksAreWhole, Delegations
<1>3. NotifyFits'
  BY DEF DelegationInv, NotifyFits, notifyVars
<1> QED
  BY <1>1, <1>2, <1>3

\* A request in hand is one of the owner's programs'.
LEMMA RequestInHand ==
  ASSUME CallsFit, NEW r \in Requesters, call[r].at # "quiet"
  PROVE  /\ call[r].request \in Requests
         /\ call[r] \in [at : Pending, request : Requests]
BY DEF CallsFit, Calls, Quiet

\* An answer from the key: its delegation is bound, and the hashes are compared.
LEMMA ReplayIsTrue ==
  ASSUME DelegationInv, NEW r \in Requesters, NEW q \in Requests, Bound(q),
         answers' = answers \cup {[request |-> q, kind |-> Replay(q)]},
         UNCHANGED <<ledger, notifyVars, delegations, approvals>>
  PROVE  AnswersFit'
<1>1. AnswersFit /\ outbox \subseteq outbox' /\ Bound(q)'
  BY DEF DelegationInv, notifyVars, Bound
<1>2. CASE Hash(delegations[q.key]) = Hash(q)
  <2>1. Replay(q) = "replay"
    BY <1>2 DEF Replay
  <2> QED BY <1>1, <1>2, <2>1, AnswerFits
<1>3. CASE Hash(delegations[q.key]) # Hash(q)
  <2>1. Replay(q) = "conflict"
    BY <1>3 DEF Replay
  <2> QED BY <1>1, <1>3, <2>1, AnswerFits
<1> QED
  BY <1>2, <1>3

\* Any other answer that changes nothing else claims nothing.
LEMMA RefusalFits ==
  ASSUME DelegationInv, NEW r \in Requesters, call[r].at # "quiet",
         NEW kind \in {"approval_required", "capacity_unavailable", "error"},
         Answer(r, kind), UNCHANGED <<ledger, notifyVars, delegations, approvals>>
  PROVE  DelegationInv'
<1>1. CallsFit /\ AnswersFit /\ outbox \subseteq outbox'
  BY DEF DelegationInv, notifyVars
<1>2. call[r].request \in Requests
  BY <1>1, RequestInHand
<1>3. AnswersFit'
  BY <1>1, <1>2, AnswerFits DEF Answer
<1> QED
  BY <1>1, <1>3, AnswerFitsCalls, TablesUnchanged DEF DelegationInv

LEMMA ReceiveFits ==
  ASSUME DelegationInv, NEW r \in Requesters, NEW q \in Requests, Receive(r, q)
  PROVE  DelegationInv'
<1>1. RowsFit' /\ LedgerFits' /\ NotifyFits'
  BY TablesUnchanged DEF Receive
<1>2. CallsFit /\ AnswersFit
  BY DEF DelegationInv
<1>3. CASE Bound(q)
  <2>1. AnswersFit'
    BY <1>3, ReplayIsTrue DEF Receive
  <2>2. CallsFit'
    BY <1>2, <1>3 DEF Receive, CallsFit
  <2> QED BY <1>1, <2>1, <2>2 DEF DelegationInv
<1>4. CASE ~Bound(q)
  <2>1. AnswersFit'
    BY <1>2, <1>4 DEF Receive, AnswersFit, AnswersAreTrue, Bound, notifyVars
  <2> DEFINE c == [at |-> IF Cleared(q) THEN "admitting" ELSE "refusing", request |-> q]
  <2>2. c \in Calls /\ (c.at \in {"admitting", "admitted"} => Cleared(c.request)) /\ c.at # "admitted"
    BY DEF Calls, Pending
  <2>3. call' = [call EXCEPT ![r] = c]
    BY <1>4 DEF Receive
  <2>4. CallsFit'
    BY <1>2, <2>2, <2>3, ThreadMoves
  <2> QED BY <1>1, <2>1, <2>4 DEF DelegationInv
<1> QED
  BY <1>3, <1>4

LEMMA RejectBlockedFits ==
  ASSUME DelegationInv, NEW r \in Requesters, RejectBlocked(r)
  PROVE  DelegationInv'
<1> DEFINE q == call[r].request
<1>1. CallsFit /\ AnswersFit /\ Answer(r, "blocked") /\ q \in Requests
  BY RequestInHand DEF DelegationInv, RejectBlocked
<1>2. /\ UNCHANGED <<ledger, delegations, approvals, deliveries, worker, chat, lost, troubles>>
      /\ outbox' = outbox \cup {BlockEvent(Decision(q))}
  BY DEF RejectBlocked, Enqueued
<1>3. CallsFit'
  BY <1>1, AnswerFitsCalls
<1>4. AnswersFit'
  BY <1>1, <1>2, AnswerFits DEF Answer
<1>5. NotifyFits'
  <2>1. BlockEvent(Decision(q)) \in Events
    BY <1>1 DEF Events
  <2> QED BY <1>2, <2>1 DEF DelegationInv, NotifyFits
<1>6. RowsFit' /\ LedgerFits'
  BY <1>2 DEF DelegationInv, RowsFit, Recorded, LedgerFits, TasksAreWhole, Delegations
<1> QED
  BY <1>3, <1>4, <1>5, <1>6 DEF DelegationInv

LEMMA AdmitFits ==
  ASSUME DelegationInv, NEW r \in Requesters, Admit(r)
  PROVE  DelegationInv'
<1>1. PICK free \in SUBSET Agents :
        IF Admits(call[r].request, free)
        THEN call' = [call EXCEPT ![r].at = "admitted"] /\ UNCHANGED answers
        ELSE Answer(r, "capacity_unavailable")
  BY DEF Admit
<1>2. CASE ~Admits(call[r].request, free)
  BY <1>1, <1>2, RefusalFits DEF Admit
<1>3. CASE Admits(call[r].request, free)
  <2> DEFINE c == [call[r] EXCEPT !.at = "admitted"]
  <2>1. CallsFit /\ call[r] \in [at : Pending, request : Requests] /\ Cleared(call[r].request)
    BY RequestInHand DEF Admit, DelegationInv, CallsFit
  <2>2. c \in Calls /\ c.request = call[r].request
    BY <2>1 DEF Calls, Pending
  <2>3. HasSlots(call[r].request)
    BY <1>3 DEF Admits, HasSlots, Agents
  <2>4. call' = [call EXCEPT ![r] = c]
    BY <1>1, <1>3
  <2>5. CallsFit'
    BY <2>1, <2>2, <2>3, <2>4, ThreadMoves
  <2>6. AnswersFit'
    BY <1>1, <1>3 DEF Admit, DelegationInv, AnswersFit, AnswersAreTrue, Bound, notifyVars
  <2> QED BY <2>5, <2>6, TablesUnchanged DEF Admit, DelegationInv
<1> QED
  BY <1>2, <1>3

LEMMA PersistFindsKeyFits ==
  ASSUME DelegationInv, NEW r \in Requesters, PersistFindsKey(r)
  PROVE  DelegationInv'
<1>1. CallsFit /\ call[r].request \in Requests
  BY RequestInHand DEF DelegationInv, PersistFindsKey
<1>2. CallsFit'
  BY <1>1, AnswerFitsCalls DEF PersistFindsKey
<1>3. AnswersFit'
  BY <1>1, ReplayIsTrue DEF PersistFindsKey, Answer
<1> QED
  BY <1>2, <1>3, TablesUnchanged DEF PersistFindsKey, DelegationInv

\* The one transaction: tasks, approval and delegation appear together.
LEMMA PersistFits ==
  ASSUME DelegationInv, NEW r \in Requesters, Persist(r)
  PROVE  DelegationInv'
<1>0. call[r].request \in Requests
  BY RequestInHand DEF DelegationInv, Persist
<1> PICK q \in Requests : q = call[r].request
  BY <1>0
<1>1. CallsFit /\ Cleared(q) /\ HasSlots(q)
  BY DEF DelegationInv, CallsFit, Persist
<1>2. ~Bound(q) /\ ~UsedApproval(q) /\ Answer(r, "delegated") /\ UNCHANGED notifyVars
  BY DEF Persist
<1>3. delegations' = [k \in DOMAIN delegations \cup {q.key} |->
                        IF k = q.key THEN q ELSE delegations[k]]
  BY DEF Persist
<1>4. approvals' = IF q.approval = None THEN approvals
                   ELSE [a \in DOMAIN approvals \cup {q.approval.id} |->
                           IF a = q.approval.id
                           THEN [request |-> q, delegation |-> DelegationId(q)]
                           ELSE approvals[a]]
  BY DEF Persist
<1>5. ledger' = [t \in DOMAIN ledger \cup TaskIds(q) |->
                   IF t \in DOMAIN ledger THEN ledger[t]
                   ELSE IF t.index = 0 THEN "planned" ELSE "assigned"]
  BY DEF Persist
<1>6. q.key \notin DOMAIN delegations
  BY <1>2 DEF Bound
<1>7. \A k \in DOMAIN delegations : k \in DOMAIN delegations' /\ delegations'[k] = delegations[k]
  BY <1>3, <1>6
<1>8. delegations'[q.key] = q /\ DOMAIN delegations' = DOMAIN delegations \cup {q.key}
  BY <1>3
<1>9. CallsFit'
  BY <1>1, <1>2, AnswerFitsCalls
<1>10. AnswersFit'
  <2>1. Bound(q)' /\ outbox' = outbox /\ AnswersFit
    BY <1>2, <1>8 DEF Bound, notifyVars, DelegationInv
  <2>2. answers' = answers \cup {[request |-> q, kind |-> "delegated"]}
    BY <1>2 DEF Answer
  <2> QED BY <1>1, <1>7, <1>8, <2>1, <2>2, AnswerFits
<1>11. RowsFit'
  <2>1. \A a \in DOMAIN approvals : a \in DOMAIN approvals' /\ approvals'[a] = approvals[a]
    BY <1>2, <1>4 DEF UsedApproval
  <2>2. q.approval # None => /\ q.approval.id \in DOMAIN approvals'
                             /\ approvals'[q.approval.id].delegation = DelegationId(q)
    BY <1>4
  <2>3. \A a \in DOMAIN approvals' : approvals'[a].request \in Requests
    BY <1>1, <1>4 DEF DelegationInv, RowsFit
  <2>4. ASSUME NEW k \in DOMAIN delegations', NEW p, p = delegations'[k]
        PROVE  p \in Requests /\ p.key = k /\ Recorded(p)'
    <3>1. CASE k = q.key
      BY <1>1, <1>8, <2>2, <2>4, <3>1 DEF Recorded
    <3>2. CASE k # q.key
      BY <1>7, <1>8, <2>1, <2>4, <3>2 DEF DelegationInv, RowsFit, Recorded
    <3> QED BY <3>1, <3>2
  <2> QED BY <2>3, <2>4 DEF RowsFit, Recorded
<1>12. LedgerFits'
  <2>1. Delegations' = Delegations \cup {q}
    BY <1>7, <1>8 DEF Delegations
  <2>2. DOMAIN ledger' = DOMAIN ledger \cup TaskIds(q) /\ TaskIds(q) \cap AgentRuns = {}
    BY <1>5, RunsAreNoDelegations
  <2>3. TasksAreWhole'
    BY <2>1, <2>2 DEF DelegationInv, LedgerFits, TasksAreWhole
  <2>4. \A t \in DOMAIN ledger' : ledger'[t] \in LiveStatuses \cup Notified
    BY <1>5 DEF DelegationInv, LedgerFits, LiveStatuses
  <2> QED BY <2>3, <2>4 DEF LedgerFits
<1>13. NotifyFits'
  BY <1>2 DEF DelegationInv, NotifyFits, notifyVars
<1> QED
  BY <1>9, <1>10, <1>11, <1>12, <1>13 DEF DelegationInv
-------------------------------------------------------------------------------
\* Ledger, outbox and threads fit as long as the tables of delegations stand still.
LEMMA RequestsUnchanged ==
  ASSUME DelegationInv, UNCHANGED <<delegations, approvals, answers>>,
         outbox \subseteq outbox'
  PROVE  RowsFit' /\ AnswersFit' /\ Delegations' = Delegations
<1>1. RowsFit'
  BY DEF DelegationInv, RowsFit, Recorded
<1>2. AnswersFit'
  BY DEF DelegationInv, AnswersFit, AnswersAreTrue, Bound
<1> QED
  BY <1>1, <1>2 DEF Delegations

\* A task of the ledger belongs to a request or an agent run: its events are events.
LEMMA TriggeredFits ==
  ASSUME NotifyFits, NEW t \in AgentRuns \cup UNION { TaskIds(q) : q \in Requests },
         NEW status \in Notified, outbox' = Triggered(t, status),
         UNCHANGED <<deliveries, worker, chat, lost, troubles>>
  PROVE  NotifyFits' /\ outbox \subseteq outbox'
<1>1. Category(status) \in SupportedCategories
  BY DEF Category, SupportedCategories, Notified
<1>2. TaskEvent(t, status) \in Events
  BY <1>1 DEF TaskEvent, Events
<1>3. outbox' = outbox \cup {TaskEvent(t, status)}
  BY DEF Triggered, Enqueued
<1> QED
  BY <1>2, <1>3 DEF NotifyFits

LEMMA TaskMovesFits ==
  ASSUME DelegationInv, NEW t \in DOMAIN ledger, NEW status \in Notified, TaskMoves(t, status)
  PROVE  DelegationInv'
<1>1. DOMAIN ledger \subseteq AgentRuns \cup UNION { TaskIds(q) : q \in Requests }
  BY DEF DelegationInv, LedgerFits, TasksAreWhole, Delegations, RowsFit
<1>2. NotifyFits' /\ outbox \subseteq outbox'
  BY <1>1, TriggeredFits DEF TaskMoves, DelegationInv
<1>3. UNCHANGED delegVars
  BY DEF TaskMoves
<1>4. CallsFit' /\ RowsFit' /\ AnswersFit' /\ Delegations' = Delegations
  BY <1>2, <1>3, RequestsUnchanged DEF delegVars, DelegationInv, CallsFit
<1>5. LedgerFits'
  BY <1>4 DEF TaskMoves, DelegationInv, LedgerFits, TasksAreWhole
<1> QED
  BY <1>2, <1>4, <1>5 DEF DelegationInv

LEMMA RunBeginsFits ==
  ASSUME DelegationInv, NEW t \in AgentRuns, RunBegins(t)
  PROVE  DelegationInv'
<1>1. "running" \in Notified
  BY DEF Notified
<1>2. NotifyFits' /\ outbox \subseteq outbox'
  BY <1>1, TriggeredFits DEF RunBegins, DelegationInv
<1>3. UNCHANGED delegVars
  BY DEF RunBegins
<1>4. CallsFit' /\ RowsFit' /\ AnswersFit' /\ Delegations' = Delegations
  BY <1>2, <1>3, RequestsUnchanged DEF delegVars, DelegationInv, CallsFit
<1>5. LedgerFits'
  BY <1>1, <1>4 DEF RunBegins, DelegationInv, LedgerFits, TasksAreWhole
<1> QED
  BY <1>2, <1>4, <1>5 DEF DelegationInv

\* The worker turns on events of the outbox only, and has one while it is busy.
LEMMA NotifyNextFits ==
  ASSUME DelegationInv, NotifyNext, UNCHANGED delegVars
  PROVE  DelegationInv'
<1>1. UNCHANGED <<ledger, outbox>>
  BY DEF NotifyNext, ClaimNext, MessageArrives, SendReturns, SendFails, MarkDelivered, Release,
         WriteFails
<1>2. CallsFit' /\ RowsFit' /\ AnswersFit' /\ Delegations' = Delegations
  BY <1>1, RequestsUnchanged DEF delegVars, DelegationInv, CallsFit
<1>3. LedgerFits'
  BY <1>1, <1>2 DEF DelegationInv, LedgerFits, TasksAreWhole
<1>4. NotifyFits'
  <2>1. NotifyFits /\ None \notin outbox
    BY NoneIsNoEvent DEF DelegationInv, NotifyFits
  <2>2. CASE ClaimNext
    BY <1>1, <2>1, <2>2 DEF ClaimNext, NotifyFits, WorkerStages
  <2>3. CASE MessageArrives
    <3>1. \A e \in DOMAIN chat' : chat'[e] \in Nat
      BY <2>1, <2>3 DEF MessageArrives, NotifyFits, Copies
    <3> QED BY <1>1, <2>1, <2>3, <3>1 DEF MessageArrives, NotifyFits, WorkerStages
  <2>4. CASE SendReturns
    BY <1>1, <2>1, <2>4 DEF SendReturns, NotifyFits, WorkerStages
  <2>5. CASE SendFails
    BY <1>1, <2>1, <2>5, TroublesAreCounted DEF SendFails, NotifyFits, WorkerStages
  <2>6. CASE MarkDelivered
    BY <1>1, <2>1, <2>6 DEF MarkDelivered, NotifyFits, WorkerStages, Idle
  <2>7. CASE Release
    BY <1>1, <2>1, <2>7 DEF Release, Rows, NotifyFits, WorkerStages, Idle
  <2>8. CASE WriteFails
    BY <1>1, <2>1, <2>8, TroublesAreCounted DEF WriteFails, NotifyFits, WorkerStages, Idle
  <2> QED BY <2>2, <2>3, <2>4, <2>5, <2>6, <2>7, <2>8 DEF NotifyNext
<1> QED
  BY <1>2, <1>3, <1>4 DEF DelegationInv

LEMMA RestartFits ==
  ASSUME DelegationInv, Restart
  PROVE  DelegationInv'
<1>1. UNCHANGED <<ledger, outbox, delegations, approvals, answers>>
  BY DEF Restart
<1>2. RowsFit' /\ AnswersFit' /\ Delegations' = Delegations
  BY <1>1, RequestsUnchanged
<1>3. LedgerFits'
  BY <1>1, <1>2 DEF DelegationInv, LedgerFits, TasksAreWhole
<1>4. CallsFit'
  BY DEF Restart, CallsFit, Calls, Quiet
<1>5. NotifyFits'
  BY TroublesAreCounted DEF DelegationInv, Restart, NotifyFits, WorkerStages, Idle
<1> QED
  BY <1>2, <1>3, <1>4, <1>5 DEF DelegationInv
-------------------------------------------------------------------------------
LEMMA StepFits == DelegationInv /\ [Next]_vars => DelegationInv'
<1> SUFFICES ASSUME DelegationInv, [Next]_vars PROVE DelegationInv'
  OBVIOUS
<1>1. ASSUME NEW r \in Requesters, Delegate(r) PROVE DelegationInv'
  <2>1. CASE AskApproval(r)
    BY <2>1, RefusalFits DEF AskApproval
  <2>2. CASE PersistFails(r)
    BY <2>2, RefusalFits DEF PersistFails
  <2> QED BY <1>1, <2>1, <2>2, ReceiveFits, RejectBlockedFits, AdmitFits, PersistFindsKeyFits,
             PersistFits DEF Delegate
<1>2. CASE UNCHANGED vars
  <2>1. UNCHANGED <<ledger, notifyVars, call, delegations, approvals, answers>> /\ outbox' = outbox
    BY <1>2 DEF vars, delegVars, notifyVars
  <2>2. CallsFit' /\ AnswersFit'
    BY <2>1, RequestsUnchanged DEF DelegationInv, CallsFit
  <2> QED BY <2>1, <2>2, TablesUnchanged DEF DelegationInv
<1> QED
  BY <1>1, <1>2, NotifyNextFits, TaskMovesFits, RunBeginsFits, RestartFits DEF Next

\* Whatever concurrent requests, reused keys and approvals, busy workers and restarts do:
\* every task of the ledger belongs to a whole recorded delegation or an agent run, nothing
\* is recorded that policy blocked or the owner did not approve as it is, no agent has two
\* tasks of one delegation, and every answer is true (delegation_service.py, repository.py).
THEOREM SpecDelegationsAreSound == Spec => []DelegationsAreSound
<1>1. Spec => []DelegationInv
  BY InitFits, StepFits, PTL DEF Spec
<1> QED
  BY <1>1, InvIsSound, PTL
-------------------------------------------------------------------------------
\* The messages of an event outnumber the sends that were wrongly reported as failed by
\* one at most, and not at all where a further message may come: when the event is untold
\* or in the hands of a worker that has not sent it, or is about to release it.
MaySend(e) == Untold(e) \/ (worker.event = e /\ worker.at \in {"claimed", "failed"})
CopiesFit ==
  \A e \in DOMAIN chat :
    /\ chat[e] \in Nat
    /\ chat[e] <= 1 + Cardinality(LostSends(e))
    /\ MaySend(e) => chat[e] <= Cardinality(LostSends(e))

\* Every accident is counted before it strands an event or loses an answer.
AccidentsFit ==
  /\ IsFiniteSet(lost) /\ IsFiniteSet(Stranded)
  /\ \A l \in lost : l.number \in Nat /\ l.number < troubles
  /\ troubles \in Nat
  /\ Cardinality(Stranded) + Cardinality(lost) <= troubles

\* A busy worker has claimed its event.
ClaimFits == worker.at # "idle" => ~Untold(worker.event)

ToldInv == ClaimFits /\ CopiesFit /\ AccidentsFit

LEMMA ToldInvInit == Init => ToldInv
<1> SUFFICES ASSUME Init PROVE ToldInv
  OBVIOUS
<1>1. lost = {} /\ Stranded = {} /\ DOMAIN chat = {} /\ troubles = 0
  BY DEF Init, NotifyInit, Stranded
<1>2. ClaimFits
  BY DEF Init, NotifyInit, Idle, ClaimFits
<1> QED
  BY <1>1, <1>2, FS_EmptySet DEF ToldInv, CopiesFit, AccidentsFit

LEMMA LostSendsFinite ==
  ASSUME IsFiniteSet(lost), NEW e
  PROVE  IsFiniteSet(LostSends(e)) /\ Cardinality(LostSends(e)) \in Nat
<1>1. LostSends(e) \in SUBSET lost
  BY DEF LostSends
<1> QED
  BY <1>1, FS_Subset, FS_CardinalityType

\* A step that loses no answer and counts no accident strands nothing.
LEMMA NoAccident ==
  ASSUME AccidentsFit, UNCHANGED <<lost, troubles>>, Stranded' \subseteq Stranded
  PROVE  AccidentsFit'
<1>1. IsFiniteSet(Stranded') /\ Cardinality(Stranded') <= Cardinality(Stranded)
  BY FS_Subset DEF AccidentsFit
<1>2. Cardinality(Stranded) \in Nat /\ Cardinality(Stranded') \in Nat /\ Cardinality(lost) \in Nat
  BY <1>1, FS_CardinalityType DEF AccidentsFit
<1> QED
  BY <1>1, <1>2 DEF AccidentsFit

\* A step that counts an accident strands one event at most.
LEMMA OneStranded ==
  ASSUME AccidentsFit, NEW e, UNCHANGED lost, troubles' = troubles + 1,
         Stranded' \subseteq Stranded \cup {e}
  PROVE  AccidentsFit'
<1>0. /\ IsFiniteSet(Stranded) /\ Cardinality(Stranded) \in Nat
      /\ IsFiniteSet(lost) /\ Cardinality(lost) \in Nat
  BY FS_CardinalityType DEF AccidentsFit
<1>1. /\ IsFiniteSet(Stranded \cup {e})
      /\ Cardinality(Stranded \cup {e}) <= Cardinality(Stranded) + 1
  <2>1. /\ IsFiniteSet(Stranded \cup {e})
        /\ Cardinality(Stranded \cup {e}) =
             IF e \in Stranded THEN Cardinality(Stranded) ELSE Cardinality(Stranded) + 1
    BY <1>0, FS_AddElement
  <2> QED BY <1>0, <2>1
<1>2. /\ IsFiniteSet(Stranded') /\ Cardinality(Stranded') <= Cardinality(Stranded \cup {e})
      /\ Cardinality(Stranded') \in Nat /\ Cardinality(Stranded \cup {e}) \in Nat
  BY <1>1, FS_Subset, FS_CardinalityType
<1> QED
  BY <1>0, <1>1, <1>2 DEF AccidentsFit

\* A step that moves neither messages nor accidents, and opens no event for sending.
LEMMA CopiesStay ==
  ASSUME CopiesFit, UNCHANGED <<chat, lost>>, 
         \A e \in DOMAIN chat :
            MaySend(e)' => MaySend(e) \/ chat[e] <= Cardinality(LostSends(e))
  PROVE  CopiesFit'
<1>1. ASSUME NEW e PROVE LostSends(e)' = LostSends(e)
  BY DEF LostSends
<1> QED
  BY <1>1 DEF CopiesFit

LEMMA ClaimNextOnce == ASSUME ToldInv, NotifyFits, ClaimNext PROVE ToldInv'
<1>1. None \notin outbox
  BY NoneIsNoEvent DEF NotifyFits
<1>2. PICK event \in outbox :
        /\ Untold(event)
        /\ worker' = [at |-> "claimed", event |-> event]
        /\ deliveries' = [e \in DOMAIN deliveries \cup {event} |->
                            IF e = event THEN "claimed" ELSE deliveries[e]]
  BY DEF ClaimNext
<1>3. Stranded' \subseteq Stranded
  BY <1>1, <1>2 DEF ClaimNext, Stranded, NotifyFits
<1>4. \A e : MaySend(e)' => MaySend(e)
  BY <1>2 DEF MaySend, Untold
<1>5. ClaimFits'
  BY <1>2 DEF ClaimFits, Untold
<1> QED
  BY <1>3, <1>4, <1>5, NoAccident, CopiesStay DEF ClaimNext, ToldInv

LEMMA MessageArrivesOnce == ASSUME ToldInv, NotifyFits, MessageArrives PROVE ToldInv'
<1>1. Stranded' \subseteq Stranded
  BY DEF MessageArrives, Stranded
<1>2. AccidentsFit'
  BY <1>1, NoAccident DEF MessageArrives, ToldInv
<1>3. /\ worker.event = worker'.event /\ worker'.at = "arrived"
      /\ ClaimFits'
  BY DEF MessageArrives, NotifyFits, ToldInv, ClaimFits, Untold
<1>4. ASSUME NEW e \in DOMAIN chat'
      PROVE  /\ chat'[e] \in Nat
             /\ chat'[e] <= 1 + Cardinality(LostSends(e)')
             /\ MaySend(e)' => chat'[e] <= Cardinality(LostSends(e)')
  <2>1. LostSends(e)' = LostSends(e) /\ Cardinality(LostSends(e)) \in Nat
    BY LostSendsFinite DEF MessageArrives, ToldInv, AccidentsFit, LostSends
  <2>2. CASE e = worker.event
    <3>1. Copies(e) \in Nat /\ Copies(e) <= Cardinality(LostSends(e))
      BY <2>1, <2>2 DEF Copies, ToldInv, CopiesFit, MaySend, MessageArrives
    <3>2. chat'[e] = Copies(e) + 1
      BY <2>2 DEF MessageArrives
    <3>3. ~MaySend(e)'
      <4>1. worker'.at # "claimed" /\ worker'.at # "failed"
        BY <1>3 DEF MessageArrives
      <4>2. ~Untold(e)'
        BY <1>3, <2>2 DEF ClaimFits, MessageArrives
      <4> QED BY <4>1, <4>2 DEF MaySend
    <3> QED BY <2>1, <3>1, <3>2, <3>3
  <2>3. CASE e # worker.event
    <3>1. e \in DOMAIN chat /\ chat'[e] = chat[e]
      BY <2>3 DEF MessageArrives
    <3>2. MaySend(e)' => MaySend(e)
      BY DEF MessageArrives, MaySend, Untold
    <3> QED BY <2>1, <3>1, <3>2 DEF ToldInv, CopiesFit
  <2> QED BY <2>2, <2>3
<1> QED
  BY <1>2, <1>3, <1>4 DEF ToldInv, CopiesFit
LEMMA SendReturnsOnce == ASSUME ToldInv, NotifyFits, SendReturns PROVE ToldInv'
<1>1. Stranded' \subseteq Stranded /\ ClaimFits'
  BY DEF SendReturns, Stranded, ToldInv, NotifyFits, ClaimFits, Untold
<1>2. \A e : MaySend(e)' => MaySend(e)
  BY DEF SendReturns, NotifyFits, MaySend, Untold
<1> QED
  BY <1>1, <1>2, NoAccident, CopiesStay DEF SendReturns, ToldInv

LEMMA MarkDeliveredOnce == ASSUME ToldInv, NotifyFits, MarkDelivered PROVE ToldInv'
<1>1. Stranded' \subseteq Stranded /\ ClaimFits'
  BY DEF MarkDelivered, Stranded, NotifyFits, ClaimFits, Idle
<1>2. \A e : MaySend(e)' => MaySend(e)
  BY DEF MarkDelivered, MaySend, Untold, Idle
<1> QED
  BY <1>1, <1>2, NoAccident, CopiesStay DEF MarkDelivered, ToldInv

LEMMA ReleaseOnce == ASSUME ToldInv, NotifyFits, Release PROVE ToldInv'
<1>1. Stranded' \subseteq Stranded /\ ClaimFits'
  BY DEF Release, Rows, Stranded, NotifyFits, ClaimFits, Idle
<1>2. \A e : MaySend(e)' => MaySend(e)
  BY DEF Release, Rows, MaySend, Untold, Idle
<1> QED
  BY <1>1, <1>2, NoAccident, CopiesStay DEF Release, ToldInv

LEMMA WriteFailsOnce == ASSUME ToldInv, NotifyFits, WriteFails PROVE ToldInv'
<1>1. Stranded' \subseteq Stranded \cup {worker.event} /\ ClaimFits'
  BY DEF WriteFails, Stranded, ClaimFits, Idle
<1>2. \A e : MaySend(e)' => MaySend(e)
  BY DEF WriteFails, MaySend, Untold, Idle
<1> QED
  BY <1>1, <1>2, OneStranded, CopiesStay DEF WriteFails, ToldInv

LEMMA RestartOnce == ASSUME ToldInv, Restart PROVE ToldInv'
<1>1. Stranded' \subseteq Stranded \cup {worker.event} /\ ClaimFits'
  BY DEF Restart, Stranded, ClaimFits, Idle
<1>2. \A e : MaySend(e)' => MaySend(e)
  BY DEF Restart, MaySend, Untold, Idle
<1> QED
  BY <1>1, <1>2, OneStranded, CopiesStay DEF Restart, ToldInv

\* A lost answer allows its event one more message.
LEMMA SendFailsOnce == ASSUME ToldInv, NotifyFits, SendFails PROVE ToldInv'
<1>1. /\ worker'.event = worker.event /\ worker'.at = "failed"
      /\ ClaimFits' /\ Stranded' \subseteq Stranded
  BY DEF SendFails, ToldInv, NotifyFits, ClaimFits, Stranded, Untold
<1>2. CASE worker.at = "claimed"
  <2>1. UNCHANGED <<lost, troubles, chat, deliveries>>
    BY <1>2 DEF SendFails
  <2>2. \A e : MaySend(e)' => MaySend(e)
    BY <1>1, <1>2, <2>1 DEF MaySend, Untold
  <2> QED BY <1>1, <2>1, <2>2, NoAccident, CopiesStay DEF ToldInv
<1>3. CASE worker.at = "arrived"
  <2> DEFINE l == [event |-> worker.event, number |-> troubles]
  <2>1. /\ lost' = lost \cup {l} /\ troubles' = troubles + 1
        /\ UNCHANGED <<chat, deliveries>>
    BY <1>3 DEF SendFails
  <2>2. /\ l \notin lost /\ IsFiniteSet(lost) /\ Cardinality(lost) \in Nat
        /\ IsFiniteSet(Stranded) /\ Cardinality(Stranded) \in Nat
    BY FS_CardinalityType DEF ToldInv, AccidentsFit
  <2>3. AccidentsFit'
    <3>1. IsFiniteSet(lost') /\ Cardinality(lost') = Cardinality(lost) + 1
      BY <2>1, <2>2, FS_AddElement
    <3>2. /\ IsFiniteSet(Stranded') /\ Cardinality(Stranded') <= Cardinality(Stranded)
          /\ Cardinality(Stranded') \in Nat
      BY <1>1, <2>2, FS_Subset, FS_CardinalityType
    <3> QED BY <2>1, <2>2, <3>1, <3>2 DEF ToldInv, AccidentsFit
  <2>4. ASSUME NEW e \in DOMAIN chat
        PROVE  /\ chat[e] <= 1 + Cardinality(LostSends(e)')
               /\ MaySend(e)' => chat[e] <= Cardinality(LostSends(e)')
    <3>1. IsFiniteSet(LostSends(e)) /\ Cardinality(LostSends(e)) \in Nat
      BY <2>2, LostSendsFinite
    <3>2. chat[e] \in Nat /\ chat[e] <= 1 + Cardinality(LostSends(e))
      BY DEF ToldInv, CopiesFit
    <3>3. CASE e = worker.event
      <4>1. LostSends(e)' = LostSends(e) \cup {l} /\ l \notin LostSends(e)
        BY <2>1, <2>2, <3>3 DEF LostSends
      <4>2. Cardinality(LostSends(e)') = Cardinality(LostSends(e)) + 1
        BY <3>1, <4>1, FS_AddElement
      <4> QED BY <3>1, <3>2, <4>2
    <3>4. CASE e # worker.event
      <4>1. LostSends(e)' = LostSends(e)
        BY <2>1, <3>4 DEF LostSends
      <4>2. MaySend(e)' => MaySend(e)
        BY <1>1, <2>1, <3>4 DEF MaySend, Untold
      <4> QED BY <3>2, <4>1, <4>2 DEF ToldInv, CopiesFit
    <3> QED BY <3>3, <3>4
  <2> QED BY <1>1, <2>1, <2>3, <2>4 DEF ToldInv, CopiesFit
<1> QED
  BY <1>2, <1>3 DEF SendFails

LEMMA ToldInvStep == ToldInv /\ NotifyFits /\ [Next]_vars => ToldInv'
<1> SUFFICES ASSUME ToldInv, NotifyFits, [Next]_vars PROVE ToldInv'
  OBVIOUS
<1>1. CASE UNCHANGED <<deliveries, worker, chat, lost, troubles>>
  <2>1. Stranded' \subseteq Stranded /\ ClaimFits' /\ \A e : MaySend(e)' => MaySend(e)
    BY <1>1 DEF Stranded, ToldInv, ClaimFits, MaySend, Untold
  <2> QED BY <1>1, <2>1, NoAccident, CopiesStay DEF ToldInv
<1>2. CASE NotifyNext
  BY <1>2, ClaimNextOnce, MessageArrivesOnce, SendReturnsOnce, SendFailsOnce, MarkDeliveredOnce,
     ReleaseOnce, WriteFailsOnce DEF NotifyNext
<1>3. CASE Restart
  BY <1>3, RestartOnce
<1>4. ASSUME NEW r \in Requesters, Delegate(r)
      PROVE  UNCHANGED <<deliveries, worker, chat, lost, troubles>>
  BY <1>4 DEF Delegate, Receive, RejectBlocked, AskApproval, Admit, PersistFindsKey, PersistFails,
              Persist, notifyVars
<1>5. ASSUME ~NotifyNext, ~Restart, ~(\E r \in Requesters : Delegate(r))
      PROVE  UNCHANGED <<deliveries, worker, chat, lost, troubles>>
  BY <1>5 DEF Next, TaskMoves, RunBegins, vars, notifyVars
<1> QED
  BY <1>1, <1>2, <1>3, <1>4, <1>5

\* An event is sent again only when a send that had arrived was reported as failed, and an
\* event is given up only when the backend stopped or a write was refused in between: each
\* such accident costs one event at most, whatever the requests and the tasks do
\* (telegram_notifications.py).
THEOREM SpecOwnerIsToldOnce == Spec => []OwnerIsToldOnce
<1>1. Spec => []DelegationInv
  BY InitFits, StepFits, PTL DEF Spec
<1>2. DelegationInv => NotifyFits
  BY DEF DelegationInv
<1>3. ToldInv => OwnerIsToldOnce
  BY DEF ToldInv, CopiesFit, AccidentsFit, OwnerIsToldOnce, Copies
<1> QED
  BY <1>1, <1>2, <1>3, ToldInvInit, ToldInvStep, PTL DEF Spec
-------------------------------------------------------------------------------
(* The refinement of Outbox.                                               *)

\* The worker's event is claimed, every copy is of an event that was written, and what
\* the worker has sent or marked has reached the chat.
HandFits ==
  /\ worker.at # "idle" => /\ worker.event \in DOMAIN deliveries
                           /\ deliveries[worker.event] = "claimed"
  /\ DOMAIN chat \subseteq outbox
  /\ worker.at \in {"arrived", "sent"} => Copies(worker.event) > 0
  /\ \A e \in DOMAIN deliveries : deliveries[e] = "delivered" => Copies(e) > 0

LEMMA HandFitsInit == Init => HandFits
<1>1. DOMAIN << >> = {}
  OBVIOUS
<1> QED
  BY <1>1 DEF Init, NotifyInit, HandFits, Idle

\* Deliveries, worker and chat move in steps of the worker and in a restart only.
LEMMA WorkerOnly ==
  ASSUME [Next]_vars, ~NotifyNext, ~Restart
  PROVE  UNCHANGED <<deliveries, worker, chat>> /\ outbox \subseteq outbox'
<1>1. ASSUME NEW r \in Requesters, Delegate(r)
      PROVE  UNCHANGED <<deliveries, worker, chat>> /\ outbox \subseteq outbox'
  BY <1>1 DEF Delegate, Receive, RejectBlocked, AskApproval, Admit, PersistFindsKey, PersistFails,
              Persist, notifyVars, Enqueued
<1>2. ASSUME NEW t, NEW status, TaskMoves(t, status)
      PROVE  UNCHANGED <<deliveries, worker, chat>> /\ outbox \subseteq outbox'
  BY <1>2 DEF TaskMoves, Triggered, Enqueued
<1>3. ASSUME NEW t, RunBegins(t)
      PROVE  UNCHANGED <<deliveries, worker, chat>> /\ outbox \subseteq outbox'
  BY <1>3 DEF RunBegins, Triggered, Enqueued
<1>4. CASE UNCHANGED vars
  BY <1>4 DEF vars, notifyVars
<1> QED
  BY <1>1, <1>2, <1>3, <1>4 DEF Next

LEMMA HandFitsStep == HandFits /\ NotifyFits /\ [Next]_vars => HandFits'
<1> SUFFICES ASSUME HandFits, NotifyFits, [Next]_vars PROVE HandFits'
  OBVIOUS
<1>1. CASE ~NotifyNext /\ ~Restart
  BY <1>1, WorkerOnly DEF HandFits, Copies
<1>2. CASE Restart
  BY <1>2 DEF Restart, Idle, HandFits, Copies
<1>3. CASE NotifyNext
  <2>1. None \notin outbox /\ DOMAIN deliveries \subseteq outbox
    BY NoneIsNoEvent DEF NotifyFits
  <2>2. CASE ClaimNext
    BY <2>2 DEF ClaimNext, HandFits, Copies, Untold
  <2>3. CASE MessageArrives
    <3>1. worker.event \in outbox /\ Copies(worker.event) \in Nat
      BY <2>1, <2>3 DEF MessageArrives, HandFits, NotifyFits, Copies
    <3>2. /\ UNCHANGED <<outbox, deliveries>> /\ worker.at = "claimed"
          /\ worker' = [worker EXCEPT !.at = "arrived"]
          /\ chat' = [e \in DOMAIN chat \cup {worker.event} |->
                        IF e = worker.event THEN Copies(e) + 1 ELSE chat[e]]
      BY <2>3 DEF MessageArrives
    <3>3. worker'.event = worker.event /\ worker'.at = "arrived"
      BY <3>2 DEF NotifyFits
    <3>4. \A e : Copies(e)' = IF e = worker.event THEN Copies(e) + 1 ELSE Copies(e)
      BY <3>2 DEF Copies
    <3>5. DOMAIN chat' \subseteq outbox
      BY <3>1, <3>2 DEF HandFits
    <3> QED BY <3>1, <3>2, <3>3, <3>4, <3>5 DEF HandFits
  <2>4. CASE SendReturns
    BY <2>4 DEF SendReturns, HandFits, Copies, NotifyFits
  <2>5. CASE SendFails
    BY <2>5 DEF SendFails, HandFits, Copies, NotifyFits
  <2>6. CASE MarkDelivered
    BY <2>6 DEF MarkDelivered, HandFits, Copies, Idle
  <2>7. CASE Release
    BY <2>7 DEF Release, Rows, HandFits, Copies, Idle
  <2>8. CASE WriteFails
    BY <2>8 DEF WriteFails, HandFits, Copies, Idle
  <2> QED BY <1>3, <2>2, <2>3, <2>4, <2>5, <2>6, <2>7, <2>8 DEF NotifyNext
<1> QED
  BY <1>1, <1>2, <1>3

\* What is marked as delivered did reach the owner, whatever was lost or restarted
\* (telegram_notifications.py, mark_delivered).
THEOREM DeliveredWasShown ==
  Spec => [](\A e \in DOMAIN deliveries : Told(e) => Copies(e) > 0)
<1>1. Spec => []DelegationInv
  BY InitFits, StepFits, PTL DEF Spec
<1>2. DelegationInv => NotifyFits
  BY DEF DelegationInv
<1>3. HandFits => \A e \in DOMAIN deliveries : Told(e) => Copies(e) > 0
  BY DEF HandFits, Told
<1> QED
  BY <1>1, <1>2, <1>3, HandFitsInit, HandFitsStep, PTL DEF Spec
\* The two variables of Outbox.
StageNow == [e \in outbox |-> EventStage(e)]
CopiesNow == [e \in outbox |-> Copies(e)]

\* An event's stage in one formula, now and next.
Where(e, rows, holder) ==
  IF e \notin DOMAIN rows THEN "pending"
  ELSE IF rows[e] = "delivered" THEN "told"
  ELSE IF rows[e] = "claimed" /\ holder.event # e THEN "stranded"
  ELSE IF holder.at = "claimed" THEN "taken"
  ELSE IF holder.at = "failed" THEN "failed" ELSE "shown"
LEMMA EventStageIs ==
  ASSUME NEW e
  PROVE  /\ EventStage(e) = Where(e, deliveries, worker)
         /\ EventStage(e)' = Where(e, deliveries', worker')
BY DEF EventStage, Where, Told, Stranded

\* A step that concerns one written event leaves the others where they are.
LEMMA OneEventMoves ==
  ASSUME NEW e \in outbox, UNCHANGED outbox,
         \A f \in outbox : f # e =>
           Where(f, deliveries', worker') = Where(f, deliveries, worker)
  PROVE  StageNow' = [StageNow EXCEPT ![e] = EventStage(e)']
BY EventStageIs DEF StageNow

\* A step that adds no event and touches no copies.
LEMMA CopiesAreKept ==
  ASSUME UNCHANGED <<outbox, chat>>
  PROVE  CopiesNow' = CopiesNow
BY DEF CopiesNow, Copies

\* A worker that is gone, or goes on without its write, strands what it had in hand.
LEMMA WorkerGone ==
  ASSUME HandFits, NotifyFits, UNCHANGED <<outbox, deliveries, chat>>, worker' = Idle
  PROVE  [Announcing!Next]_<<StageNow, CopiesNow>>
<1>0. PICK e : e = worker.event
  OBVIOUS
<1> USE <1>0
<1>1. None \notin outbox /\ DOMAIN deliveries \subseteq outbox /\ worker'.event = None
  BY NoneIsNoEvent DEF NotifyFits, Idle
<1>2. CASE worker.at = "idle"
  <2>1. worker.event = None
    BY <1>2 DEF NotifyFits
  <2>2. \A f \in outbox : Where(f, deliveries', worker') = Where(f, deliveries, worker)
    BY <1>1, <2>1 DEF Where, NotifyFits
  <2>3. StageNow' = StageNow /\ CopiesNow' = CopiesNow
    BY <2>2, EventStageIs, CopiesAreKept DEF StageNow
  <2> QED BY <2>3
<1>3. CASE worker.at # "idle"
  <2>1. e \in outbox /\ e \in DOMAIN deliveries /\ deliveries[e] = "claimed"
    BY <1>1, <1>3 DEF HandFits
  <2>2. \A f \in outbox : f # e => Where(f, deliveries', worker') = Where(f, deliveries, worker)
    BY <1>1 DEF Where, NotifyFits
  <2>3. EventStage(e)' = "stranded" /\ StageNow[e] \in {"taken", "shown", "failed"}
    BY <1>1, <2>1, EventStageIs DEF Where, StageNow
  <2>4. StageNow' = [StageNow EXCEPT ![e] = "stranded"] /\ CopiesNow' = CopiesNow
    BY <2>1, <2>2, <2>3, OneEventMoves, CopiesAreKept
  <2>5. Announcing!Strand(e)
    BY <2>3, <2>4 DEF Announcing!Strand, Announcing!Move, StageNow, CopiesNow
  <2> QED BY <2>1, <2>5 DEF Announcing!Next, StageNow
<1> QED
  BY <1>2, <1>3

LEMMA WorkerStep ==
  ASSUME HandFits, NotifyFits, NotifyNext
  PROVE  [Announcing!Next]_<<StageNow, CopiesNow>>
<1>1. None \notin outbox /\ DOMAIN deliveries \subseteq outbox
  BY NoneIsNoEvent DEF NotifyFits
<1>0. PICK e : e = worker.event
  OBVIOUS
<1> USE <1>0
<1>2. ASSUME worker.at # "idle"
      PROVE  /\ e \in outbox /\ e \in DOMAIN deliveries /\ deliveries[e] = "claimed"
             /\ e \in DOMAIN StageNow
             /\ StageNow[e] = IF worker.at = "claimed" THEN "taken"
                              ELSE IF worker.at = "failed" THEN "failed" ELSE "shown"
  <2>1. e \in outbox /\ e \in DOMAIN deliveries /\ deliveries[e] = "claimed"
    BY <1>1, <1>2 DEF HandFits
  <2>2. StageNow[e] = Where(e, deliveries, worker)
    BY <2>1, EventStageIs DEF StageNow
  <2> QED BY <2>1, <2>2 DEF StageNow, Where
<1>3. CASE ClaimNext
  <2>1. PICK x \in outbox :
          /\ x \notin DOMAIN deliveries
          /\ worker' = [at |-> "claimed", event |-> x]
          /\ deliveries' = [f \in DOMAIN deliveries \cup {x} |->
                              IF f = x THEN "claimed" ELSE deliveries[f]]
    BY <1>3 DEF ClaimNext, Untold
  <2>2. worker.at = "idle" /\ worker.event = None /\ UNCHANGED <<outbox, chat>>
    BY <1>3 DEF ClaimNext, NotifyFits
  <2>3. ASSUME NEW f \in outbox
        PROVE  Where(f, deliveries, worker) \in {"pending", "told", "stranded"}
    BY <1>1, <2>2, <2>3 DEF Where, NotifyFits
  <2>4. Announcing!InHand = {}
    BY <2>3, EventStageIs DEF Announcing!InHand, StageNow
  <2>5. \A f \in outbox : f # x => Where(f, deliveries', worker') = Where(f, deliveries, worker)
    BY <1>1, <2>1, <2>2 DEF Where, NotifyFits
  <2>6. StageNow[x] = "pending" /\ EventStage(x)' = "taken" /\ x \in DOMAIN StageNow
    BY <2>1, EventStageIs DEF StageNow, Where
  <2>7. StageNow' = [StageNow EXCEPT ![x] = "taken"]
    BY <2>2, <2>5, <2>6, OneEventMoves
  <2>8. CopiesNow' = CopiesNow
    BY <2>2, CopiesAreKept
  <2>9. Announcing!Take(x)
    BY <2>4, <2>6, <2>7, <2>8 DEF Announcing!Take, Announcing!Move, StageNow, CopiesNow
  <2> QED BY <2>6, <2>9 DEF Announcing!Next, StageNow
<1>4. CASE MessageArrives
  <2>1. /\ worker.at = "claimed" /\ UNCHANGED <<outbox, deliveries>>
        /\ worker' = [worker EXCEPT !.at = "arrived"]
        /\ chat' = [f \in DOMAIN chat \cup {e} |->
                      IF f = e THEN Copies(f) + 1 ELSE chat[f]]
    BY <1>4 DEF MessageArrives
  <2>2. worker'.at = "arrived" /\ worker'.event = e
    BY <2>1 DEF NotifyFits
  <2>3. \A f \in outbox : f # e => Where(f, deliveries', worker') = Where(f, deliveries, worker)
    BY <2>1, <2>2 DEF Where, NotifyFits
  <2>4. EventStage(e)' = "shown"
    BY <1>2, <2>1, <2>2, EventStageIs DEF Where
  <2>5. StageNow' = [StageNow EXCEPT ![e] = "shown"]
    BY <1>2, <2>1, <2>3, <2>4, OneEventMoves
  <2>6. \A f : Copies(f)' = IF f = e THEN Copies(f) + 1 ELSE Copies(f)
    BY <2>1 DEF Copies
  <2>7. CopiesNow' = [CopiesNow EXCEPT ![e] = @ + 1]
    BY <1>2, <2>1, <2>6 DEF CopiesNow
  <2>8. Announcing!Show(e)
    BY <1>2, <2>1, <2>5, <2>7 DEF Announcing!Show, Announcing!Move, StageNow, CopiesNow
  <2> QED BY <1>2, <2>1, <2>8 DEF Announcing!Next, StageNow
<1>5. CASE SendReturns
  <2>1. /\ worker.at = "arrived" /\ UNCHANGED <<outbox, deliveries, chat>>
        /\ worker'.at = "sent" /\ worker'.event = e
    BY <1>5 DEF SendReturns, NotifyFits
  <2>2. \A f \in outbox : Where(f, deliveries', worker') = Where(f, deliveries, worker)
    BY <2>1 DEF Where
  <2>3. StageNow' = StageNow /\ CopiesNow' = CopiesNow
    BY <2>1, <2>2, EventStageIs, CopiesAreKept DEF StageNow
  <2> QED BY <2>3
<1>6. CASE SendFails
  <2>1. /\ worker.at \in {"claimed", "arrived"} /\ UNCHANGED <<outbox, deliveries, chat>>
        /\ worker'.at = "failed" /\ worker'.event = e
    BY <1>6 DEF SendFails, NotifyFits
  <2>2. \A f \in outbox : f # e => Where(f, deliveries', worker') = Where(f, deliveries, worker)
    BY <2>1 DEF Where, NotifyFits
  <2>3. EventStage(e)' = "failed" /\ StageNow[e] \in {"taken", "shown"}
    BY <1>2, <2>1, EventStageIs DEF Where
  <2>4. StageNow' = [StageNow EXCEPT ![e] = "failed"] /\ CopiesNow' = CopiesNow
    BY <1>2, <2>1, <2>2, <2>3, OneEventMoves, CopiesAreKept
  <2>5. Announcing!Fail(e)
    BY <2>3, <2>4 DEF Announcing!Fail, Announcing!Move, StageNow, CopiesNow
  <2> QED BY <1>2, <2>1, <2>5 DEF Announcing!Next, StageNow
<1>7. CASE MarkDelivered
  <2>1. /\ worker.at = "sent" /\ UNCHANGED <<outbox, chat>> /\ worker'.event = None
        /\ deliveries' = [deliveries EXCEPT ![e] = "delivered"]
    BY <1>7 DEF MarkDelivered, Idle
  <2>2. \A f \in outbox : f # e => Where(f, deliveries', worker') = Where(f, deliveries, worker)
    BY <1>1, <2>1 DEF Where, NotifyFits
  <2>3. EventStage(e)' = "told" /\ StageNow[e] = "shown"
    BY <1>2, <2>1, EventStageIs DEF Where
  <2>4. StageNow' = [StageNow EXCEPT ![e] = "told"] /\ CopiesNow' = CopiesNow
    BY <1>2, <2>1, <2>2, <2>3, OneEventMoves, CopiesAreKept
  <2>5. Announcing!Tell(e)
    BY <2>3, <2>4 DEF Announcing!Tell, Announcing!Move, StageNow, CopiesNow
  <2> QED BY <1>2, <2>1, <2>5 DEF Announcing!Next, StageNow
<1>8. CASE Release
  <2>1. /\ worker.at = "failed" /\ UNCHANGED <<outbox, chat>> /\ worker'.event = None
        /\ deliveries' = [f \in DOMAIN deliveries \ {e} |-> deliveries[f]]
    BY <1>8 DEF Release, Rows, Idle
  <2>2. \A f \in outbox : f # e => Where(f, deliveries', worker') = Where(f, deliveries, worker)
    BY <1>1, <2>1 DEF Where, NotifyFits
  <2>3. EventStage(e)' = "pending" /\ StageNow[e] = "failed"
    BY <1>2, <2>1, EventStageIs DEF Where
  <2>4. StageNow' = [StageNow EXCEPT ![e] = "pending"] /\ CopiesNow' = CopiesNow
    BY <1>2, <2>1, <2>2, <2>3, OneEventMoves, CopiesAreKept
  <2>5. Announcing!GiveBack(e)
    BY <2>3, <2>4 DEF Announcing!GiveBack, Announcing!Move, StageNow, CopiesNow
  <2> QED BY <1>2, <2>1, <2>5 DEF Announcing!Next, StageNow
<1>9. CASE WriteFails
  BY <1>9, WorkerGone DEF WriteFails, Idle
<1> QED
  BY <1>3, <1>4, <1>5, <1>6, <1>7, <1>8, <1>9 DEF NotifyNext
\* What requests and tasks do to the outbox: nothing, or one event more.
LEMMA OneEventIsWritten ==
  ASSUME HandFits, NotifyFits, NEW x, outbox' = outbox \/ outbox' = outbox \cup {x},
         UNCHANGED <<deliveries, worker, chat>>
  PROVE  [Announcing!Next]_<<StageNow, CopiesNow>>
<1>1. CASE outbox' = outbox
  <2>1. StageNow' = StageNow
    BY <1>1, EventStageIs DEF StageNow
  <2> QED BY <1>1, <2>1, CopiesAreKept
<1>2. CASE x \notin outbox /\ outbox' = outbox \cup {x}
  <2>1. x \notin DOMAIN deliveries /\ x \notin DOMAIN chat
    BY <1>2 DEF NotifyFits, HandFits
  <2>2. \A f \in outbox : StageNow'[f] = StageNow[f] /\ CopiesNow'[f] = CopiesNow[f]
    BY <1>2, EventStageIs DEF StageNow, CopiesNow, Copies
  <2>3. StageNow'[x] = "pending" /\ CopiesNow'[x] = 0
    BY <1>2, <2>1, EventStageIs DEF StageNow, CopiesNow, Copies, Where
  <2>4. /\ DOMAIN StageNow = outbox /\ DOMAIN StageNow' = outbox \cup {x}
        /\ DOMAIN CopiesNow' = outbox \cup {x}
    BY <1>2 DEF StageNow, CopiesNow
  <2>5. Announcing!Write
    BY <1>2, <2>2, <2>3, <2>4 DEF Announcing!Write, StageNow, CopiesNow
  <2> QED BY <2>5 DEF Announcing!Next
<1> QED
  BY <1>1, <1>2

LEMMA OutboxStep ==
  HandFits /\ NotifyFits /\ [Next]_vars => [Announcing!Next]_<<StageNow, CopiesNow>>
<1> SUFFICES ASSUME HandFits, NotifyFits, [Next]_vars
             PROVE  [Announcing!Next]_<<StageNow, CopiesNow>>
  OBVIOUS
<1>1. CASE NotifyNext
  BY <1>1, WorkerStep
<1>2. CASE Restart
  BY <1>2, WorkerGone DEF Restart
<1>3. CASE ~NotifyNext /\ ~Restart
  <2>1. UNCHANGED <<deliveries, worker, chat>>
    BY <1>3, WorkerOnly
  <2>2. \E x : outbox' = outbox \/ outbox' = outbox \cup {x}
    <3>1. ASSUME NEW r \in Requesters, Delegate(r)
          PROVE  \E x : outbox' = outbox \/ outbox' = outbox \cup {x}
      BY <3>1 DEF Delegate, Receive, RejectBlocked, AskApproval, Admit, PersistFindsKey,
                  PersistFails, Persist, notifyVars, Enqueued
    <3>2. ASSUME NEW t, NEW status, TaskMoves(t, status)
          PROVE  \E x : outbox' = outbox \/ outbox' = outbox \cup {x}
      BY <3>2 DEF TaskMoves, Triggered, Enqueued
    <3>3. ASSUME NEW t, RunBegins(t)
          PROVE  \E x : outbox' = outbox \/ outbox' = outbox \cup {x}
      BY <3>3 DEF RunBegins, Triggered, Enqueued
    <3>4. CASE UNCHANGED vars
      BY <3>4 DEF vars, notifyVars
    <3> QED BY <1>3, <3>1, <3>2, <3>3, <3>4 DEF Next
  <2>3. PICK x : outbox' = outbox \/ outbox' = outbox \cup {x}
    BY <2>2
  <2> QED BY <2>1, <2>3, OneEventIsWritten
<1> QED
  BY <1>1, <1>2, <1>3

\* Triggers, the worker, restarts and refused writes together are an outbox: one event at
\* a time is in hand, only what is in hand is shown, only what was shown counts as told,
\* and what is told or stranded is not sent again (telegram_notifications.py).
THEOREM NotificationsAreAnOutbox == Spec => RefinesOutbox
<1>1. Init => Announcing!Init
  BY DEF Init, NotifyInit, Announcing!Init
<1>2. Spec => []DelegationInv
  BY InitFits, StepFits, PTL DEF Spec
<1>3. DelegationInv => NotifyFits
  BY DEF DelegationInv
<1> QED
  BY <1>1, <1>2, <1>3, HandFitsInit, HandFitsStep, OutboxStep, PTL
  DEF Spec, RefinesOutbox, Announcing!Spec, Announcing!vars, StageNow, CopiesNow
=============================================================================
