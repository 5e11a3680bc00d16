# Formal verification of the Dipen AI Platform

This directory holds TLA+ models of the parts of the platform whose correctness depends on the order in
which transactions, messages, crashes and owner requests come: the Executive Office (delegation and
execution), the Guardian's privileged restart path, the owner's Telegram channel in both directions, the
agents and their orchestration, chat attachments and the knowledge store behind them, the engineering
delivery, and research retrieval. TLC checks them on small instances, and TLAPS proves every safety property of
the state machines, and what the two pure algorithms compute, for every value of the constants. `PROJECT.json` maps every definition to the lines it translates. Paths below are relative to the repository.

## 1. Inventory

The backend (`platform/backend/app.py`) is **one** uvicorn process with one event loop and one SQLite file,
the *Agent Truth* database. The Guardian is a second HTTP process; its privileged broker is a third process
that runs as root and is reached over a Unix socket. A Next.js dashboard and a voice gateway are clients.

| Component (directory) | State it keeps | Operations | Talks to | What makes it correct |
|---|---|---|---|---|
| Planning, delegation (`executive_office/service.py`, `delegation_service.py`, `repository.py`) | `executive_delegations`, `executive_approvals`, parent and child rows of `task_ledger` | plan, delegate | registry, Agent Truth | one delegation for one key, all rows or none, nothing the policy forbids |
| **Execution core** (`executive_office/execution_*.py`) | `executive_execution_records`, `_reservations`, `_starts`, `_cancellations`, `_controls` | admit and reserve, start, run children, cancel, recover | agents, Agent Truth, HTTP, Telegram | no child runs twice, agents are leased exclusively, outcomes are final, nothing is left held |
| Agent truth, instrumentation (`agents/truth_*.py`, `runtime_instrumentation.py`) | `task_ledger`, `agent_heartbeats` | heartbeat, task writes, derived availability | every executor | a busy agent is seen busy, the ledger says what happened |
| Agents (`agents/router.py`, `executor.py`, `research_executor.py`, `service.py`) | none of their own; the history keeps a run | answer a request, plain, streamed or from the chat | tools, model | a failed or abandoned run is recorded as one |
| Orchestration (`agents/orchestration/`) | none; the run is stored by history | plan, execute, synthesise, validate, repair | agents, history | dependencies respected, only supported claims published, the run ends |
| **Privileged actions** (`platform/guardian/app.py` 975-1290, `broker*.py`, `root_authorization*.py`, `execution_*.py`, `executor.py`) | `action_plans`, `root_authorizations` | create, approve, reserve, authorize, execute, recover | systemd, operator CLIs | a restart runs once, only under its own authorization, and is recorded truly |
| Guardian status and questions (rest of `app.py`, clients) | none | collect, answer, forward | backend | read side |
| **Telegram commands and approvals** (`owner_channels/telegram_*.py`) | polling offset, receipts, proposals, two audits, rate events | poll, route, propose, tap, acknowledge | Telegram, planning, delegation, cancellation | no command lost or run twice, two taps before a delegation, truthful audit, the queue moves |
| Notifications (`telegram_notifications.py`) | an outbox fed by triggers, delivery rows | claim, send, mark, release | task ledger, Telegram | nothing lost without an accident, nothing repeated after a success |
| Chat attachments (`history/chat_*.py`) | conversations, messages, attachment rows | upload, bind, delete, pack a prompt | knowledge store | quotas, no orphan, no chat document outside its chat |
| Knowledge (`knowledge/`) | files, vectors | ingest, delete, search | vector store, embeddings | file and vectors agree, chunks cover the text |
| Engineering delivery (`engineering/`) | workspaces, receipts, clones, evidence, owner decisions | run codex, observe, build, publish, record, decide | git, codex, GitHub | only what the receipt names is published, on a branch that does not move |
| Research (`gateway/`, `tools/internet_research_tools.py`) | evidence, operations events | search, select, fetch, redirect, store | search engine, DNS, the internet | destination policy on every hop, evidence of what was read |
| Company, monitoring, collectors, tools, voice, dashboard, deployment | static or none | read, forward | | no state between requests |

**How they interact.** A plan becomes a *delegation* over HTTP or by two taps in Telegram: a parent task
`planned` and children `assigned`, one machine agent each. The execution core reserves the agents and queues
the children, claims the start and runs the children one after the other through instrumented executors that
write the task ledger and the agent's heartbeat. Owner controls (cancel, recover) arrive over HTTP on the
event loop; a cancellation may also arrive from Telegram, whose router runs in a worker thread
(`telegram_transport.py:323`). The privileged path is separate: three processes share two SQLite files.

**What is hard.** Async handlers over synchronous services keep the event loop, so on the backend only the
awaits interleave; but the Telegram thread and a crash can come between any two transactions.
Record, claim, parent, children, reservations and heartbeats are settled by different transactions of
different actors (runner, reconciler, owner recovery). Liveness of a run is judged by heartbeats that can age,
be suppressed or be overwritten. The Guardian's processes write the same row without a common lock, and its
restart is an external effect that outlives a timeout. Telegram delivers an update again after every failure.
An upload is a file, a row and points in a store that has no transactions, and each of its calls may take effect and
still fail. A delivery is a chain of separate programs over a workspace that may still be written to. DNS and
servers may answer differently each time they are asked.
Every such hazard is listed with its line under `hazards` in `PROJECT.json`, with the properties that watch it.

## 2. Modules

| Module | What it is |
|---|---|
| `ExecutiveExecution` | the execution core: detailed specification, properties |
| `ReservationLifecycle` | abstract: an execution is an exclusive lease of agents, acquired whole and returned once |
| `ExecutiveExecutionProofs` | theorems about the core, among them the refinement |
| `MCExecution` | small instances of the core |
| `ActionBroker` | the privileged action path over three processes |
| `SingleUseGrant` | abstract: an authorization is granted once, spent or void, and used once |
| `ActionBrokerProofs` | theorems about the privileged path, among them the refinement |
| `TelegramApprovals` | polling worker, receipts and two-step approvals |
| `TwoStepApproval` | abstract: a plan is offered, approved by a tap, confirmed by a later one, and delegated only then |
| `TelegramApprovalsProofs` | theorems about the channel, among them the refinement |
| `OwnerNotifications` | outbox, deliveries and the sending worker |
| `Outbox` | abstract: an event is written once, taken in hand, shown, and then told, given back or stranded |
| `ExecutiveDelegation` | planning and delegation; extends `OwnerNotifications`, which listens to its ledger |
| `ExecutiveDelegationProofs` | theorems about delegations and notifications, among them the refinement of `Outbox` |
| `AgentRuntime` | instrumented agent runs: handlers, ledger rows, heartbeats, the derived availability |
| `OrchestrationPlanner`, `EvidenceValidator` | the planner's and the validator's algorithms, as operators |
| `AgentOrchestration` | orchestrations and requests for one agent; composes the three modules above |
| `AgentOrchestrationProofs` | theorems about the runtime, the planner and the orchestration |
| `KnowledgeDocuments` | ingestion and removal in the knowledge store |
| `ChatAttachments` | uploads, messages, deletions and searches; composed with `KnowledgeDocuments` |
| `ChatAttachmentsProofs` | theorems about attachments and quotas, and about the two algorithms of `ChatContext` |
| `ChatContext` | the two pure algorithms: cutting a text into chunks, packing excerpts into a prompt |
| `EngineeringDelivery` | from an admitted ticket to a reviewed pull request |
| `ReviewedDelivery` | abstract: branches, proposals, evidence and decisions in atomic steps |
| `EngineeringDeliveryProofs` | theorems about the delivery, among them the refinement |
| `SourceSelection` | which URLs are retrieved, which queries tried |
| `ResearchRetrieval` | one research request; extends `SourceSelection` |
| `ResearchRetrievalProofs` | theorems about the selection and the request |
| `MCOrchestration`, `MCAttachments`, `MCEngineering`, `MCResearch`, `MCDelegation` | small instances |

A `.cfg` is named after the module it instantiates. No run replaces a definition. A definition that no
action uses (in the first modules it is marked `(fault: ...)`) is a plausible bug of the definition after it that has the
same parameters; it shows that some property notices that bug.

### 2.1 ExecutiveExecution

One action per transaction or per stretch of code between two awaits.

| Actions | Code |
|---|---|
| `Reserve`, `AnswerAdmission` | `admit`, `reserve_and_queue`, `persist` (one transaction) |
| `Claim`, `CheckWorkers` | `claim`, then the second availability check of `start` |
| `Dispatch`, `Refuse`, `ChildReturns/Raises/Cancelled`, `Deactivate` | the loop over children, `ExecutiveExistingTaskRunner`, `InstrumentedAgentExecutor.run` and its `finally` |
| `Observe`, `FinalizeCancellation`, `CancellationConflict` | checkpoints, `mark_observed`, `finalize_observed` and the errors the two raise |
| `ReviewParent`, `MarkManualReview`; `ReconcileParent`, `Complete` | the two-transaction ends of a run |
| `RequestCancellation`, `CancelReserved`, `AnswerControl`, `RecoverInterrupted`, `RecoverQuarantined` | owner controls |
| `BeginCancelledRecovery`, `FinalizeCancelledRecovery`, `RecordCancelledRecovery` | the cancellation-aware recovery, three transactions |
| `Heartbeat`, `GoStale`, `AgeClaim`, `OtherRun`, `Crash`, `Interrupt` | heartbeat loop, 90 s freshness, grace window, the ordinary agent API, death and forced stop of the process |

`LoopFree` is the event loop: a handler starts only when no coroutine is between two awaits. A coroutine that
leaves a child yields once, while it awaits its cancelled heartbeat task (`Leaving`). `RequestCancellation`
has no such guard because of the Telegram thread. A zombie whose execution a recovery settled meets a
`CancellationStateConflictError`: at a checkpoint ("observed") the error is an ambiguous failure, the parent goes to review
and the claim, no longer `claimed`, is left alone; in the handler of a child that left ("acknowledged") it ends the
coroutine, and nothing is written. Abstracted: the order of children (any child of `todo` may
be next), hashes, authorization texts and evidence, and times (`aged`, `stale`). Rejected requests store an
answer and change nothing else. `Dispatch` joins the checkpoint, the runner's validation and the two
instrumentation writes, none of which yields. The instrumented executor is created per run
(`execution_runner.py:112`), so its set of active tasks does not see another run of the same agent:
`OtherRun` may overwrite a busy heartbeat. Task writes by other clients of the agent API are not modelled.
`runs` is a history variable.

### 2.2 ActionBroker

| Actions | Code |
|---|---|
| `CreatePlan`, `Approve`, `DeadlinePasses` | Guardian HTTP process; the expiry branch writes whatever status it finds |
| `Reserve`, `CheckBeforeIssue`, `Issue`, `GrantLapses` | operator command lines; the validation and the insert are in different databases |
| `Accept`, `Begin`, `Consume`, `Review`, `Command`, `CommandReturns`, `Report`, `Complete` | one connection of the broker, each database transaction or external call a step |
| `Start`, `Crash`, `SystemdRestarts` | recovery at start, death, the restart job of systemd, which may finish after a timeout or a crash |

`commands` counts started restart commands, including ones that could not be started. "busy" is a
`sqlite3.Error` after the five-second timeout. The deadlines of 600 s and at most 300 s are the nondeterministic
`DeadlinePasses` and `GrantLapses`. Plans that target something else can be reserved and are never executed
(`Backend`). Not modelled: the health check's address. The deployed unit confines the broker to Unix
sockets while the executor verifies over `http://127.0.0.1:8002`, so in that deployment every performed restart
would be recorded as failed, an outcome the model contains.

### 2.3 TelegramApprovals

One worker, one update at a time. `Admit` (identity, rate limit), `Drop` or `Claim`, then `Command` or
`Decide` (`begin_action`), `Replan`, `Delegate`, `Finish`, `Record` (the receipt), `Reply`, `AnswerCallback`,
`Advance` (the offset). `Fails` is an error that the router stores under the receipt and raises; `Breaks` is any
other exception, which ends the iteration so that the update is delivered again; `Crash` may come at any step.
A batch of `getUpdates` is processed in order and stops at the first exception, so it equals one update at
a time. `Buttons` says which taps the chat offers: those of answers already shown, for ever. Whether the
deadline of a proposal has passed is a choice at each tap: the first tap that finds it passed closes the proposal,
so no clock is needed. Likewise `Replan` may come to another decision. `shown` is what the owner received.
The approvals implement `TwoStepApproval`: `StageOf` maps the states of a proposal, `TapsOnRecord` the rows of the audit. An update
that is delivered again repeats the latest tap and no earlier one. The abstract specification says that a plan is delegated
between its confirmation and its end, not which tap resumes a delegation that was cut off; that is the subject of `telegram_reject`.
Not modelled: that Telegram discards updates after a day, and the effects of commands other than plans.

### 2.4 OwnerNotifications and ExecutiveDelegation

`Receive`, `RejectBlocked`, `AskApproval`, `Admit` and `PersistFindsKey`, `Persist`,
`PersistFails` are the stages of `delegate()`: the routing decision, the policy, the approval, the look at each
worker, and the one transaction. There are two requesters, the event loop and the Telegram thread, so whatever was
read before the transaction may be stale in it. The key is looked at first, and again in the transaction. A decision's identifier
covers the objectives and not the permission for external work, as in the code. `TaskMoves` and `RunBegins` are what
executions and agent runs do to the ledger; the triggers that write the outbox are part of every step that writes a
ledger row. The notification worker is `ClaimNext`, `MessageArrives`, `SendReturns` or `SendFails`, `MarkDelivered`,
`Release`, `WriteFails`. The worker takes *any* unclaimed row, since rows are ordered by a clock that is read before
their transaction. `Restart` stops every thread; rows survive it. The notifications implement `Outbox`: `EventStage` reads
where an event is from the delivery rows and the worker, a claimed row that is in nobody's hands being "stranded", and
the copies of an event are those in the chat. Of `Outbox` all that a reader of the owner's chat may rely on is kept:
which events there are, that one at a time is in hand, and that nothing told or stranded is touched again.

### 2.5 AgentRuntime, AgentOrchestration and their algorithms

An agent run is `StartRow` and a heartbeat, then one step for every call of a tool or of the model, then `Leaves`,
the await of the cancelled heartbeat task. Kinds of handlers differ in the calls they make and in which of them end
the run. `Interval` is a heartbeat interval: every live run writes, others age, and `TTL` intervals later the truth service
reads an agent as offline. Any ledger or heartbeat write may raise, which the code logs and ignores (`lostRow`,
`lostBeat`). The orchestration is `Request`, `Dispatch`, `StartChild`, `ChildReturns`, `Gather`, `Synthesize`, `Repair`,
`FinishParent`, `Save`; requests for one agent are `Ask`, `DirectReturns`, and for streams `Show`, `Keep`, `Fail`,
`Disconnect`. What the keyword tables make of an objective is a score per agent, and `OrchestrationPlanner` computes the
plan from it. `EvidenceValidator` gives a line of an answer its form, style, metrics and values, which is
what the regular expressions tell apart, and decides as the code does; `PublishedIsSupported` restates
what a supported claim is without using it. A run that ends without a synthesis, because of a failed child or a circle,
answers with the fallback text, which nobody validates: `quoted` is whose answers it is made of, the completed children's that
are not empty (`Fallback`). The formatter's answer alone, which the code would prefer, never is that text: the formatter
runs last, so when it has completed there is nothing to fall back from, and `PublishedIsSupported` says so. A synthesized
answer (`published`) is checked, a fallback is marked `failed` in the row and in the history instead.

### 2.6 KnowledgeDocuments, ChatAttachments and ChatContext

Every stretch between two awaits is a step: `CreatePending` (one transaction, quotas in it), `Embeds`, `Upserts`,
`Finalize`, the compensation `Compensate`, `Compensated` of a failed upload, `Counts`, `Erases` and
`Deleted` of a deletion, `CreateMessage` (the binding), `DeleteConversation` (targets listed before the
awaits), `SearchAsks` and `SearchFinds` (chat documents excluded by a list read before the vector store is asked).
A call can fail without effect ("api") or with it ("lost"), a write of the database before its commit or, as each is read
back on another connection, after it ("db"). So `Compensate` may remove the document of a row that *is* indexed and stays so,
when `mark_indexed` committed and could not be read again (`chat_attachment_repository.py:387`): that upload was answered as
failed, and `AttachmentsAreWhole` asks for the document of answered uploads. `DeleteDocument`, `DocumentDeleted` are the
catalogue's `DELETE /knowledge/documents/{id}`, which takes the file and the points of any document and looks at no row; what it may
take is excepted in `EvidenceIsKept` by name (`Asked("document", u)`; section 5). The bytes of a conversation are counted as a set of pairs
(`Bytes`), one for each byte of each upload, so that sums need no recursion. `ChatContext` has the algorithms before and after a search. A text
is its length and the positions of its separators, an excerpt its length, its blanks and the length of its heading. `Starts`
is the loop of `chunk_text` without its end, and `Chunks` stops it at the first chunk that reaches the end of the text;
`Included` takes excerpts over whole until one is cut or has no `Room`. Their inputs are variables that never change:
`MCAttachments` adds them as initial states from which nothing happens.

### 2.7 EngineeringDelivery

A driver `Executes` (materialize the snapshot, extract what Codex changed, observe), `Builds` (prepare, clone, copy,
commit), `Publishes` (look at the remote, push, verify, list and create the pull request, confirm) and `Record`s.
Environment: `Writes` (Codex and whatever it left running), `CleanWorkspace`, `CleanClone`, `Owner` on GitHub, `Crash`.
Contents are "source", "new", "absent" or "link" per path, and `Tracked` are the paths that exist at the source commit, so
that a change of another path is a new file; a commit is its base, tree and time stamp; hashes are the values
they bind. Simplified: a snapshot is taken in one moment, one programme drives the chain (in the repository the
benchmarks do), a succeeded run that changed nothing is left without evidence of either kind, as in the code.
Symmetry of the drivers is sound since they are compared for equality only and no liveness is checked. The delivery
implements `ReviewedDelivery`, which has no drivers, workspaces or clones: its variables are what GitHub and the
review log hold, and each of its steps is one push, proposal, record or decision, or one of the owner's on GitHub. A push
whose answer was lost and that is repeated is a step in which nothing changes. `Agrees` is the comparison of `git status` with the plan as the
code makes it: the output is stripped first, so that a change of a tracked path is misread (`Misread`) and the build refused. What
can be delivered are new files; section 5.

### 2.8 SourceSelection and ResearchRetrieval

One request: `Discover` or `SearchFails` with fallback queries, `Select`, then for each URL `Preflight`, `Resolve`,
`Connect`, `HeadersArrive`, `ChunkArrives`, `BodyEnds` or a redirect, which starts over, and `StoreEvidence`,
`RecordEvent`, `Return`, two transactions and an answer. Each DNS lookup may answer any set of addresses, and each server
may do anything. The pinned address is the one of the last lookup. `wanted` is the cancellation; it is looked
at between the steps as in the code.

## 3. What the runs check

| Run | Instance | States | Question |
|---|---|---|---|
| `crash` | 1 delegation, 2 children with agents of their own, 2 executions, 1 key; crashes; fair | 164,430 | reservations whole, completed means done, recovery leaves a live run alone, no replay, record/claim/reservations agree, child outcomes stay, every claim is settled or quarantined |
| `faults` | 2 delegations of 2 and 1 children, which need one agent of 2; other runs of the agents | 962,665 | a settled execution stays settled and hands out nothing, refinement of `ReservationLifecycle` |
| `broker` | 2 plans, 2 reservations; crashes, busy database; fair | 190,728 | one authorized command per plan, true records, refinement of `SingleUseGrant`, every execution ends |
| `telegram_channel` | 3 updates, limit 1, all failures; fair | 1,080,078 | two taps before a delegation, no lost command, true and final answers, drained queue, refinement of `TwoStepApproval` |
| `delegation` | 2 requesters, 2 keys, 6 requests, 2 workers, 1 agent run, 2 calls, 1 move, 1 accident; fair | 723,190 | whole, authorized, truthfully answered delegations; the owner hears of everything, once; refinement of `Outbox` |
| `orchestration_plans` | 6 agents, 6 objectives, plans of 1 to 3 tasks, 2 readings, 4 lines, 1 lost write, 1 restart; fair | 312,086 | dependencies, no deadlock, true ledger, supported answers, the run ends |
| `orchestration_requests` | 2 requests for 2 agents, plain, streamed or chat; the same faults | 1,064,788 | true ledger, a busy agent is seen busy |
| `attachments` | 2 uploads, 2 deletions (an attachment, the conversation or a document), 1 message, 1 search, every call and write failing or lost, crash; or 3 uploads of 1 or 2 bytes that race for 2 places and 3 bytes; all texts of up to 11 characters with most placements of separators, all prompts of up to 3 excerpts; symmetry | 1,239,690 | evidence kept, no orphan, isolation, quotas; chunks cover the text, prompts fit |
| `engineering_delivery` | 2 drivers, 1 ticket, 3 paths (2 allowed and new, 1 tracked), 2 bases, 2 stamps, 2 runs, 2 pull requests, 1 trouble | 453,231 | publication within scope, true evidence, refinement of `ReviewedDelivery` (branches do not move) |
| `research` | 5 pages of 3 families, 3 queries, 3 addresses (2 public), 2 URLs, 1 redirect, 1 repeat; fair | 649,715 | admitted contacts, evidence of what was read, diverse selection, the request ends |
| `cancelled_work`, `telegram_reject` | | | counterexamples, see section 5 |

**Bounds.** Core: two executions are what it takes to contend for an agent or a task, to recover one while the other
starts, and to see a zombie; two children are needed for a partial run. One control key suffices because keys
are only compared for equality and a retried key is a stored answer. `crash` keeps the heartbeats reliable, because
`CompletionIsTrue` and `RunnerIsUndisturbed` are false otherwise (section 5). `faults` has the fault that makes zombies
in the most ways: an overwritten heartbeat, which may say anything a suppressed one leaves. What both runs check is proved
under the faults that section 4 names for each; suppressed ledger writes
together with crashes and zombies were also explored once with two children that share an agent (493,272 states) without
a violation. Broker: two reservations give a plan a wrong and a right authorization, two plans one that is
executed while the other is. Telegram: three updates are a proposal, an approval and a confirmation, and a limit of 1 makes
every immediate retry a dropped one; `Ahead` bounds the queue, whose later entries the worker does not look at. The
safety properties of `telegram_channel` were also explored once with four updates (30 million states) without a
violation. Delegation: the six requests are two plans under one key, the approval of another decision, that approval
used again, two objectives for one agent and a blocked plan; two calls are what can race, one accident is
restart, lost answer or refused write anywhere. Orchestration: three tasks are a lead, a specialist and the formatter;
the readings differ by more than the tolerance; one lost write at a time, since a write is lost independently of others.
Attachments: two uploads overlap, two deletions race for one target or for a conversation and a document of it; uploads are
compared for equality only, and so are deletions, and the run checks no liveness, so permutations of either are a sound symmetry.
A search that is asked before any upload has been answered is left out (`Lives`), since the property is about uploads
answered before. The quotas bite in the initial states that are `crowded`: three uploads look before any has a row, the third of size
one is then turned away by count and the second of size two by bytes, both in the transaction that inserts. The race has only the steps
that add and take away rows (`Races`); two uploads of size 1 cannot exceed the limits, and it is by `QuotaAlwaysHolds` that the other steps
do not matter. Eleven
characters with a chunk size of six give up to three chunks, cut at their size, at a blank or at a paragraph. Delivery: two drivers race for one branch against two bases; the
two allowed paths are new files, as no other is ever delivered, and the third, tracked, is the one that is not allowed. Research: one redirect and one repeat make all nestings of both; one of
the three addresses is private.

**Deadlock** is checked where the system never stops (`broker`, and `research`, whose finished request stutters). The
other instances stop when their executions, updates, calls or requests are used up.

**Fairness.** *Core*: weak fairness of each runner and of a recovery in progress, which has no await. A claimed
coroutine is scheduled by the event loop and agent calls end, as transports and model calls have timeouts. *Broker*: weak
fairness of the handler (every call it makes has a timeout) and of `Start` (systemd has `Restart=on-failure`); a
busy database really leaves a plan executing until the next start, and `ExecutionEnds` says so. *Telegram*:
weak fairness of the worker, which polls again after every exception with bounded backoff, and outages that end
(`OutagesEnd`); errors stored by the router may recur for ever. *Delegation*: weak fairness of the notification
worker's loop, strong fairness of a message that is tried again and again to arrive, which is what an outage
that ends means for a retried call. *Orchestration*: weak fairness of the event loop and of every call, all of
which have timeouts. *Research*: weak fairness of the request, every wait of which has a timeout. Nothing is assumed of
the owner, of clients or of the network.

## 4. What is proved

All theorems hold for any constants that satisfy the named `ASSUME`s, and for every combination of faults unless
stated. TLC evaluates each `ASSUME` on every run of its module. They say that names are different (a run is no delegation,
an orchestration's row is no task), that agents, uploads and addresses are finitely many, that registry and objectives are
typed, that a URL's duplicate key determines its host (`UrlAssumption`) and that every reading of the machine delivers
the same metrics (`ReadingAssumption`; `collectors/system.py:45` always returns all of them). Each inductive invariant
was also checked by TLC on the run of its module.

*Execution core.* Two inductive invariants. `HistoryInv` says how selection, ledger and coroutine fit: what
is selected stays taken, children of different executions are disjoint, a coroutine's current and remaining
children are selected and `runs` counts exactly those it has handed over. `NoReplay` alone is not inductive: it
needs that a child outside `assigned` is never admitted again and that a child leaves `todo` when it is handed over.
Steps that touch none of this are covered by one lemma. From it: `ChildrenAreNeverReplayed`.
`LeaseInv` says that record, claim, reservations and cancellation agree; every
step is one of a few *moves* of the lease or leaves it alone, and one lemma for each move shows that it is preserved.
From it: `LeaseIsConsistent` with its parts `TypeCorrectness`, `RecordAndClaimAgree`, `NoSharedReservation`, `NoLeakedReservation`,
`ResolvedOnlyByCancelling`; `SettledStaysSettled` with its parts `OutcomesAreFinal` and `NothingRunsLate`; and
`CoreIsALease`, the refinement of `ReservationLifecycle`. `NothingRunsLate` needs one more invariant,
`SettledIsOver`: whoever settles an execution under a live coroutine takes what is left for that coroutine out of the
queue in the same transaction, and nobody puts it back. `ReservationsAreWhole` is proved from both invariants: a child
belongs to one execution, every step of another execution writes its own children only, and an execution without a
claim has no coroutine and no run of a child.

Four theorems are about the ends of runs, where two transactions follow each other. `ParentsAreDone` holds under every
fault: a parent recorded as completed has completed children only. `CompletedMeansDone` (`CompletionIsTrue`) assumes that
"ledger" is not among the faults, since a suppressed ledger write leaves a child `running` under a completed
execution. `LiveRunnerIsUndisturbed` (`RunnerIsUndisturbed`) and `ChildOutcomesAreFinal` (`ChildOutcomeIsFinal`) assume
that neither "heartbeat" nor "other_run" is (`Attended`), and allow crashes and lost ledger writes: without those two
faults the heartbeats of a live runner are busy and fresh, so no recovery takes it for dead. TLC finds each property
violated once the fault its theorem excludes is added, so the assumptions are needed.

*Privileged path.* `BrokerInv` joins the type invariant, the safety properties and three strengthenings:
a plan that has a reservation is past approval (`ReservationFollows`), only the reserved pair has
a usable authorization and its state follows the plan's (`GrantsFollow`), and what the handler knows in each phase
(`HandlerKnows`). From it: `AuthorizationsAreUsedOnce` with its parts `BrokerTypeCorrectness`, `NoSecondCommand`,
`CommandsAreAuthorized`, `SpendingIsRecorded`; `RecordsAreTrue`, `SettledPlansStay`, `BrokerIsSingleUse`, and
`ExecutingHasOwner` under the assumption that "busy" is not among the faults.

*Telegram.* `ChannelInv` adds to the types: a button is about an earlier update (`ChatFits`), what the worker's phase
says of the receipt and of the proposal it works on (`ReceiptFits`, `TapFits`), that a row of the audit is a tap that
changed a proposal (`AuditFits`), and that proposals past their steps have the rows of those steps (`StagesTold`). The
theorem that a delegated plan was confirmed needs all of them: only because rows are taps of their own update is
an approval earlier than its confirmation, however often either is delivered. From it: `ChannelTypeCorrectness`,
`DelegationsWereConfirmed`, `AnswersStandOnRecord` with its parts `AcknowledgedAreAnswered` and `AuditIsTrue`,
`AnswersStay`, and `ApprovalsAreTwoSteps`, the refinement of `TwoStepApproval`: for each step of the worker one lemma that says
which move of one plan it is. That a tap is later than the plan and than every earlier tap for it comes from `ChatFits` and
`AuditFits`: no row of the audit is of an update behind the current one in the queue.

*Engineering delivery.* `DeliveryInv` says what a driver knows at each stage: a ticket while it executes, a plan for a
deliverable receipt from `planned` on, and from `built` on a commit that changes exactly what that receipt names; GitHub
holds such commits only. `PublishedWithinScope` alone is not inductive, since a push publishes what was built several
steps, and writes of others, earlier. From it: `PublicationsAreWithinScope` and, as a push that is accepted found its own
commit or nothing, `BranchesNeverMove`, which no run checks by itself: the refinement implies it, since an abstract step only adds a
branch or, when the owner acts, removes one. Besides `DeliveryAssumption` it needs only that `Nothing` is no commit.

`EvidenceInvariant` adds what evidence records and owner decisions say of receipts, commits and pull requests; from it
`EvidenceIsAlwaysTrue`: evidence names the observation, the commit and the pull request that were there, and a decision is
about evidence that was recorded. `DeliveriesAreReviewed` is the refinement of `ReviewedDelivery`, from both invariants,
one lemma for each kind of step that GitHub or the review log sees: a push is in scope because of what `DeliveryInv` says of
the stage before it, and leaves an existing branch as it is because GitHub accepts no other commit for it; a record is
true because of what `EvidenceInv` says of a driver that has published. `WhoIsSeen` says that every other step is a stutter.

*Delegation and notifications.* The invariant says what each requester has read and what of it still holds at its
transaction, whichever of the two commits first, and follows each event of a ledger write through the outbox,
the worker and the chat. From it: `SpecDelegationsAreSound` (all rows or none, one delegation for one key, nothing the policy
forbids, answers that say what was stored) and `SpecOwnerIsToldOnce` (a message is repeated only after an answer or a mark that
was lost, and what is not announced is still queued or was stranded by an accident). The argument counts: troubles
are counted, copies in the chat are bounded by one more than the lost ones. `HandFits` ties the worker to the tables: its event
is claimed, and what it has sent or marked has reached the chat. From it: `DeliveredWasShown`, that a delivery row marked
"delivered" is never a lie, and with it `NotificationsAreAnOutbox`, the refinement of `Outbox`. A step of the worker moves one
event, a step of the ledger writes at most one, and whatever takes the worker away leaves its event stranded.

*Agents and orchestration.* First the planner, for any scores: its order of candidates is strict and total, so places count
the candidates ahead, and the plan is `Layered`, that is, without repetition, and with a formatter in front only when alone.
From any set of finished tasks of a layered plan somebody can go on (`SomebodyIsReady`). `OrchestrationInvariant` then joins
what the rows, heartbeats, calls and stages of each run say of each other (`TaskFits`, `BeatFits`, `ReadingFits`) to where
the orchestration is (`PhaseFits`, `ResultsFit`, `NeedsFit`, `ParentFits`, `PublishedFits`). From it:
`PlansAreAlwaysExecutable`, `LedgerIsAlwaysTrue`, `BusyAgentsAreAlwaysVisible`, and `PublishedAnswersAreSupported`, whose proof
shows that the check, which looks at the last reading, and the property, which looks for the last reading with the metric,
mean the same reading; this is where `ReadingAssumption` is used. For the fallback text `PublishedFits` says that only
completed children are quoted and only after an error, and `NeedsFit` that a completed formatter leaves no child to fail.

*Attachments.* The invariant says which row, file and points go with where the request of an upload is, and what
a deletion may still have in its queue. A step of an upload leaves alone whatever had been answered, a step of a deletion
does one of three things to a row. A document goes while its row stays only in the hands of a compensation, whose upload
has not been answered, or of a catalogue request that named it. From it: `AttachmentsAreAlwaysWhole`, and `QuotaAlwaysHolds`,
for files and for bytes.

*Chunks and prompts.* TLA+ defines a recursive function by choosing one that satisfies its equation, so nothing is known of
it before one is shown to exist. The library's theorems that do so take operators as parameters, which the provers cannot
instantiate; here the function is built instead: `Begun` are the beginnings of an iteration, of which there is one of each
length (`BegunOnce`), and their last values are the function (`IterationExists`). From it: `ChunksLoseNothing` for any text
and any overlap, with the steps that a start never lies behind the previous end and grows at every step; `ChunksAlwaysCoverText`,
which adds that each chunk ends later than the one before, if the overlap is at most half the size and one
(`ModestOverlap`: 150 of 900 as configured); and `IncludedIsPacked` and `ContextAlwaysFits` for any excerpts and any budget.
`ModestOverlap` is needed: with an overlap of five of six TLC finds a text in which a chunk lies within the one before it, and the
code accepts such an overlap.

*Research.* `SelectIsDiverse` is about the algorithm alone, for any list of candidates: the selection repeats no page, is as
long as it can be, and has as many hosts as the candidates allow. The invariant of a request says which step has
decided what about the current URL. From it: `SpecContactsAreAdmitted` (every connection, after any redirects,
is to an address the policy admitted, of the last lookup), `SpecSelectionIsDiverse`, `SpecEvidenceIsWhole`.

**Only model-checked.** Liveness (`ClaimIsSettled`, `ExecutionEnds`, `QueueIsDrained`, `OwnerHears`, `OrchestrationEnds`,
`ResearchEnds`) is out of the prover's reach. Where an induction was needed over numbers or finite sets, the proofs
take a smallest counterexample (`LeastNumber`), since the library's induction takes an operator as its parameter. The properties
of section 5 are the subjects of runs that refute them.

## 5. Disagreements found

Each is the counterexample of a run; the quoted text is in `PROJECT.json`.

- `cancelled_work`: after a crash the cancellation-aware recovery leaves the interrupted child `running` for ever
  under a cancelled execution.
- `telegram_reject`: a tap on *Reject* delegates a plan whose confirmation was begun and then dropped.

Seen while modelling and stated here without a run.

*Execution core.* An ordinary run of the same agent overwrites the busy heartbeat, so that a recovery settles a live
execution and a second one runs the agent at the same time (`execution_recovery_service.py:857`; against "one
active task per machine agent", `docs/executive-owner-triggered-execution.md:70`). A cancellation accepted during
the last child is never looked at and stays `requested` (`execution_start_service.py:350`;
`docs/executive-cooperative-cancellation.md:81`). The cancellation-aware recovery changes the execution before it looks
at its idempotency key (`execution_cancellation_recovery.py:143`; `docs/executive-cancellation-recovery.md:130`). Between
the two transactions that end a run the parent is completed while its execution still runs, for ever if the
process dies there. A suppressed ledger write leaves a child `running` under a completed execution.

*Privileged path.* An approval request after the deadline turns an executing plan into an expired one
(`app.py:1198`), and the outcome of a restart that was carried out is lost. The deployed unit confines the broker to
Unix sockets while the executor verifies over `http://127.0.0.1:8002`.

*Telegram.* A confirmation resumed by a version that plans differently is answered "No task was changed" after its
delegation was persisted. A callback query that Telegram no longer accepts holds up the queue until the rate limit drops it.

*Delegation, notifications.* A delegation makes nobody busy, so two of them may be admitted to one worker. An
approval given where none is required is stored unchecked; an approval id that is used again aborts the
transaction with an HTTP 500; the objectives in a decision id are joined with "|". No trigger fires for
`manual_review` or `queued`, so the owner is not told of a task under review. An event that was claimed when the worker
stopped is never sent; one whose release fails is stranded too; the oldest event that always fails blocks the rest.

*Agents, orchestration.* Rows left `running` by a crash are never reconciled. A stream shows its answer before it
stores the run. The documentation agent is moved to the end even when it leads, and the role "lead" goes to another while
`lead_agent_id` stays (`planner.py:376`); `max_agents=1` with documentation terms replaces the lead. Of two system
readings the later counts. Claims about percentages go unchecked without a system reading. A line that names two metrics
compares every percentage with both. The status "warning" is unreachable.

*Attachments, knowledge.* The catalogue deletes the document of an attachment that is bound to a message (`knowledge/routes.py:63`), which
the chat's own route says cannot be removed without its conversation (`chat_attachment_service.py:124`). When `mark_indexed` has committed and the row cannot be read again, the document of the row, which stays
indexed, is removed and the upload answered as failed. A search between the writing of points and the `indexed` row finds a chat attachment from
outside its chat. A conversation deletion lists its targets before it awaits, so that the document of an upload
indexed meanwhile is orphaned; one target that is gone aborts the whole deletion with 404. A lost answer of the vector
store leaves points behind a failed row, or a file behind a deleted document. A crash leaves `pending` rows,
which count against the quota for ever. An overlap of more than half a chunk, which the configuration accepts, can make a
chunk that adds nothing to the one before.

*Engineering.* A build that changes exactly what its plan names is refused as different from it if one of the paths
exists at the source commit: the whole output of `git status` is stripped (`local_git_delivery.py:308`), so that the first line, " M path",
loses its leading space and `line[3:]` cuts a letter off the path (line 262). The model refuses
such builds (`Misread`). A receipt names paths and no contents, so contents changed between the observation and the copy are
delivered. A clone rebuilt after it was lost has another commit, and its publication is refused for ever. A publication
repeated on an existing pull request makes a second evidence id, and the owner may approve one and reject the other.
Two publishers with different bases can leave two open pull requests for one branch.

*Research.* `urljoin` raises for a redirect location it cannot parse and nobody catches it (`internet_transport.py:762`): the request
ends without evidence of the URL being retrieved and without the results of the URLs before, although failures are
"first-class terminal evidence" (`docs/phase12f-retrieval-evidence-persistence.md:47`). `RedirectUnparsable` is the only step that
leaves a URL so, apart from a crash. A request's id is a hash of its objective, so
the evidence of a cancelled request appears with a later one. An error of the provider ends the search
without the other queries. A cancellation that arrives while the last URL fails otherwise is lost. Redirects can lead
two diverse sources to one page. A crash between the two records leaves evidence without its event.

## 6. Plan

The components planned first are modelled, and their abstract specifications are stated and refined. What is worth adding:
making a work order and its ticket, the evidence of a run cancelled before it started, the hosted search provider.

## 7. Not modelled

- *Status projections and routes*, *run history and analytics*, *research projections and probes*, *Guardian status and
  questions*: read side. The Guardian's look-up of a delegation's task only reads the last fifty (`delegation_client.py`).
- *Model providers*, *company registry, monitoring, collectors, tools*: stateless calls and static catalogues.
- *Ruflo adapter, benchmarks, smoke programs*: contracts over immutable records, and one-shot programs.
- *Voice gateway*, *dashboard*, *deployment and scripts*: pure I/O, view state, configuration.
- *Parts of modelled components*: chat titles, settings, edits and listings; catalogue uploads outside a chat (the same
  steps as those of a chat); the hosted search provider (differs in its transport); the work order and ticket makers and the
  read-only workspace view of engineering. That Telegram discards updates after a day; task writes of other
  clients of the agent API.
