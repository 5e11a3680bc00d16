------------------------- MODULE OwnerNotifications -------------------------
(***************************************************************************)
(* What the owner is told in Telegram without asking: lifecycle events of  *)
(* tasks, written to an outbox by triggers on the task ledger, and plans   *)
(* the policy blocked.  One worker claims the oldest event without a       *)
(* delivery row, sends it, and marks it delivered or releases it.          *)
(*                                                                         *)
(* The rows survive a restart, the worker does not.  Rows are ordered by   *)
(* the clock their writers read before they committed, in any order of the *)
(* commits: the model lets the worker take whichever unclaimed row.        *)
(***************************************************************************)
EXTENDS Naturals, Sequences, FiniteSets

CONSTANTS
    Categories,    \* the configured categories
    MaxTroubles,   \* bound on crashes, lost answers and failed writes
    None

VARIABLES
    ledger,        \* task_ledger: task |-> status
    outbox,        \* owner_notification_outbox: the events
    deliveries,    \* telegram_notification_deliveries: event |-> state
    worker,        \* where the worker is, with which event
    chat,          \* the owner's chat: event |-> copies of its message
    lost,          \* sends that arrived and were reported as failed, numbered
    troubles       \* how much went wrong so far

notifyVars == <<outbox, deliveries, worker, chat, lost, troubles>>

LiveStatuses == {"planned", "assigned"}
Notified == {"running", "completed", "failed", "cancelled"}
SupportedCategories ==
    {"task_started", "task_completed", "task_failed", "task_cancelled",
     "guardian_blocked"}
ASSUME CategoriesSupported == Categories \subseteq SupportedCategories
ASSUME TroublesAreCounted == MaxTroubles \in Nat

Category(status) ==
    CASE status = "running"   -> "task_started"
      [] status = "completed" -> "task_completed"
      [] status = "failed"    -> "task_failed"
      [] status = "cancelled" -> "task_cancelled"

TaskEvent(task, status) == [category |-> Category(status), subject |-> task]
BlockEvent(decision) == [category |-> "guardian_blocked", subject |-> decision]

Idle == [at |-> "idle", event |-> None]

NotifyInit ==
    /\ outbox = {}
    /\ deliveries = <<>>
    /\ worker = Idle
    /\ chat = <<>>
    /\ lost = {}
    /\ troubles = 0

NotifyTypeOK ==
    /\ \A e \in outbox : e.category \in SupportedCategories
    /\ DOMAIN deliveries \subseteq outbox
    /\ \A e \in DOMAIN deliveries : deliveries[e] \in {"claimed", "delivered"}
    /\ worker.at \in {"idle", "claimed", "arrived", "sent", "failed"}
    /\ (worker.at = "idle") <=> (worker.event = None)
    /\ \A e \in DOMAIN chat : chat[e] \in Nat
    /\ troubles \in 0 .. MaxTroubles
-----------------------------------------------------------------------------
\* INSERT OR IGNORE: an event is written once
Enqueued(event) == outbox \cup {event}

\* mutant of Triggered: the trigger fires at the end of a task only
TriggeredAtEnd(task, status) ==
    IF status \in Notified \ {"running"}
    THEN Enqueued(TaskEvent(task, status)) ELSE outbox
\* the trigger that fires when `task' is inserted with or moved to `status'
Triggered(task, status) ==
    IF status \in Notified THEN Enqueued(TaskEvent(task, status)) ELSE outbox

\* mutant of Untold: what was claimed and left behind is taken again
UntoldOrLeft(event) == event \in DOMAIN deliveries => deliveries[event] = "claimed"
Untold(event) == event \notin DOMAIN deliveries

\* claim_next, in one immediate transaction
ClaimNext ==
    /\ worker.at = "idle"
    /\ \E event \in outbox :
         /\ event.category \in Categories
         /\ Untold(event)
         /\ worker' = [at |-> "claimed", event |-> event]
         /\ deliveries' = [e \in DOMAIN deliveries \cup {event} |->
                             IF e = event THEN "claimed" ELSE deliveries[e]]
    /\ UNCHANGED <<ledger, outbox, chat, lost, troubles>>

Copies(event) == IF event \in DOMAIN chat THEN chat[event] ELSE 0

\* the message reaches the chat; the answer of the API is still outstanding
MessageArrives ==
    /\ worker.at = "claimed"
    /\ worker' = [worker EXCEPT !.at = "arrived"]
    /\ chat' = [e \in DOMAIN chat \cup {worker.event} |->
                  IF e = worker.event THEN Copies(e) + 1 ELSE chat[e]]
    /\ UNCHANGED <<ledger, outbox, deliveries, lost, troubles>>

SendReturns ==
    /\ worker.at = "arrived"
    /\ worker' = [worker EXCEPT !.at = "sent"]
    /\ UNCHANGED <<ledger, outbox, deliveries, chat, lost, troubles>>

\* send_message raises, before or after the message arrived
SendFails ==
    /\ \/ worker.at = "claimed" /\ UNCHANGED <<lost, troubles>>
       \/ /\ worker.at = "arrived"
          /\ troubles < MaxTroubles
          /\ lost' = lost \cup {[event |-> worker.event, number |-> troubles]}
          /\ troubles' = troubles + 1
    /\ worker' = [worker EXCEPT !.at = "failed"]
    /\ UNCHANGED <<ledger, outbox, deliveries, chat>>

MarkDelivered ==
    /\ worker.at = "sent"
    /\ deliveries' = [deliveries EXCEPT ![worker.event] = "delivered"]
    /\ worker' = Idle
    /\ UNCHANGED <<ledger, outbox, chat, lost, troubles>>

\* mutant of Rows: the row is kept
RowsKept(event) == deliveries
Rows(event) == [e \in DOMAIN deliveries \ {event} |-> deliveries[e]]

Release ==
    /\ worker.at = "failed"
    /\ deliveries' = Rows(worker.event)
    /\ worker' = Idle
    /\ UNCHANGED <<ledger, outbox, chat, lost, troubles>>

\* the database refuses the write; the loop goes on without it
WriteFails ==
    /\ worker.at \in {"sent", "failed"}
    /\ troubles < MaxTroubles
    /\ troubles' = troubles + 1
    /\ worker' = Idle
    /\ UNCHANGED <<ledger, outbox, deliveries, chat, lost>>

NotifyNext == \/ ClaimNext \/ MessageArrives \/ SendReturns \/ SendFails
              \/ MarkDelivered \/ Release \/ WriteFails
-----------------------------------------------------------------------------
\* claimed, and nobody is going to send or release it
Stranded == { e \in DOMAIN deliveries : /\ deliveries[e] = "claimed"
                                        /\ worker.event # e }
\* the sends of the event that were wrongly reported as failed
LostSends(event) == { l \in lost : l.event = event }
Told(event) == event \in DOMAIN deliveries /\ deliveries[event] = "delivered"
=============================================================================
