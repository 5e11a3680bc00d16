--------------------------- MODULE TelegramApprovals ---------------------------
(***************************************************************************)
(* The owner's Telegram channel: the long-polling worker that takes one    *)
(* update after the other (telegram_transport.py), the receipt each        *)
(* command is claimed under (telegram_repository.py), and the two-step     *)
(* approval of a proposed plan (telegram_approvals.py), whose confirmation *)
(* delegates the planned tasks.                                            *)
(*                                                                         *)
(* There is one worker.  Each of its database transactions and each call   *)
(* of Telegram is one step; an exception that leaves the router ends the   *)
(* iteration and the same update is delivered again; the process may die   *)
(* between any two steps.                                                  *)
(***************************************************************************)
EXTENDS Naturals, Sequences

CONSTANTS
  MaxUpdates,   \* how many updates the owner's chat produces (a bound)
  Ahead,        \* how many updates may wait for the worker (a bound)
  Limit,        \* how many updates of a bucket are let through in a window
  Faults        \* what may go wrong

(* "crash": the process dies and is started again.  "busy": a transaction   *)
(* raises sqlite3.Error.  "error": planning or delegation raises an error   *)
(* that the router stores.  "api": a call of Telegram fails.                *)
ASSUME TelegramAssumption ==
  /\ MaxUpdates \in Nat
  /\ Ahead \in Nat \ {0}
  /\ Limit \in Nat \ {0}
  /\ Faults \subseteq {"crash", "busy", "error", "api"}

VARIABLES
  inbox,      \* the updates of the chat, in the order Telegram numbers them
  offset,     \* telegram_polling_state.next_update_id
  receipt,    \* telegram_owner_command_receipts: state, or the stored response
  proposal,   \* telegram_approval_proposals.state, by source update
  audit,      \* telegram_approval_audit
  delegated,  \* executive_delegations under the key of a proposal
  dropped,    \* telegram_security_audit
  recent,     \* telegram_rate_events within the window, by bucket
  shown,      \* updates the owner got an answer to
  phase,      \* the next thing the worker does
  response,   \* the router's response, before it is stored
  stable      \* the outages are over: no more crashes and failing calls

stored == <<offset, receipt, proposal, audit, delegated, dropped, recent>>
world  == <<inbox, shown>>
worker == <<phase, response>>
vars   == <<stored, world, worker, stable>>

Ids == 1 .. MaxUpdates
Callbacks == {"approve", "confirm", "reject"}
\* "command" is any command in the owner's own words, "unknown" a text or button
\* the gateway does not know, "foreign" anybody else's or a malformed update.
Messages == {"command", "unknown", "foreign"}
Updates == [kind : Messages \cup Callbacks, about : Ids \cup {0}]
Buckets == {"owner-command", "owner-callback"}
\* A response carries the buttons of the first or of the second step, or none.
Responses == {"offer", "ask", "plain"}
\* (fault: a plan that is being delegated may still run out of time)
OpenOrProcessing == {"pending", "awaiting_confirmation", "processing"}
Open == {"pending", "awaiting_confirmation"}
Closed == {"approved", "failed", "rejected", "expired"}
ProposalStates == {"none", "processing"} \cup Open \cup Closed
Answered == {"failed"} \cup Responses
Phases == {"idle", "drop", "claim", "act", "replan", "delegate",
           "approved", "failed", "record", "reply", "answer", "ack"}
AuditRows == [proposal : Ids, action : Callbacks, update : Ids,
              outcome : ProposalStates]

Init ==
  /\ inbox = <<>>
  /\ offset = 1
  /\ receipt = [u \in Ids |-> "none"]
  /\ proposal = [u \in Ids |-> "none"]
  /\ audit = {}
  /\ delegated = {}
  /\ dropped = {}
  /\ recent = [b \in Buckets |-> 0]
  /\ shown = {}
  /\ phase = "idle"
  /\ response = "plain"
  /\ stable = FALSE

-------------------------------------------------------------------------------
(* The chat, and the window of the rate limit.                             *)

\* A button can be pressed once the answer that carries it was shown, and
\* stays in the chat for ever.
Buttons(p) ==
  (IF p \in shown /\ receipt[p] = "offer" THEN {"approve", "reject"} ELSE {})
  \cup (IF \E u \in shown : receipt[u] = "ask" /\ inbox[u].about = p
        THEN {"confirm", "reject"} ELSE {})

Sends ==
  /\ Len(inbox) < MaxUpdates /\ Len(inbox) < offset + Ahead - 1
  /\ \/ \E k \in Messages :
          inbox' = Append(inbox, [kind |-> k, about |-> 0])
     \/ \E p \in Ids : \E k \in Buttons(p) :
          inbox' = Append(inbox, [kind |-> k, about |-> p])
  /\ UNCHANGED <<stored, shown, worker, stable>>

WindowMoves(b) ==
  /\ recent[b] > 0
  /\ recent' = [recent EXCEPT ![b] = @ - 1]
  /\ UNCHANGED <<offset, receipt, proposal, audit, delegated, dropped,
                 world, worker, stable>>

-------------------------------------------------------------------------------
(* The worker takes the update at the offset.                              *)

Update == inbox[offset]
Bucket == IF Update.kind \in Callbacks THEN "owner-callback" ELSE "owner-command"
Step(from, to) == phase = from /\ phase' = to

\* The owner's identity, then the rate limit, which counts retries too.
Admit ==
  /\ offset <= Len(inbox)
  /\ IF Update.kind = "foreign" \/ recent[Bucket] >= Limit
     THEN Step("idle", "drop") /\ UNCHANGED recent
     ELSE Step("idle", "claim") /\ recent' = [recent EXCEPT ![Bucket] = @ + 1]
  /\ UNCHANGED <<offset, receipt, proposal, audit, delegated, dropped,
                 world, response, stable>>

\* (fault: a rejected update is not acknowledged)
Unacknowledged == "idle"
\* A rejected update is acknowledged without an answer.
Acknowledged == "ack"

Drop ==
  /\ Step("drop", Acknowledged)
  /\ dropped' = dropped \cup {offset}
  /\ UNCHANGED <<offset, receipt, proposal, audit, delegated, recent,
                 world, response, stable>>

\* (fault: a stored response is not replayed, the command runs again)
ClaimedAnew(r) == TRUE
\* A receipt that was claimed and never finished is worked on again.
Claimed(r) == r \in {"none", "claimed"}

Claim ==
  /\ phase = "claim"
  /\ IF Update.kind # "unknown" /\ Claimed(receipt[offset])
     THEN Step("claim", "act") /\ receipt' = [receipt EXCEPT ![offset] = "claimed"]
     ELSE Step("claim", "reply") /\ UNCHANGED receipt
  /\ UNCHANGED <<offset, proposal, audit, delegated, dropped, recent, world,
                 response, stable>>

Responds(r) == Step("act", "record") /\ response' = r

\* One proposal for each source update, however often it is delivered.
Proposed ==
  proposal' = [proposal EXCEPT ![offset] = IF @ = "none" THEN "pending" ELSE @]

\* Every command is answered.  A plan that is not blocked, while approvals are
\* switched on, is also proposed.
Command ==
  /\ phase = "act" /\ Update.kind = "command"
  /\ \/ Responds("plain") /\ UNCHANGED proposal
     \/ Responds("offer") /\ Proposed
  /\ UNCHANGED <<offset, receipt, audit, delegated, dropped, recent, world, stable>>

-------------------------------------------------------------------------------
(* begin_action: what a tap makes of the proposal it is about.             *)

\* (fault: one tap is enough)
TappedOnce(p, action, lapsed) ==
  IF proposal[p] # "pending" THEN proposal[p]
  ELSE IF action = "reject" THEN "rejected" ELSE "processing"

Tapped(p, action, lapsed) ==
  IF lapsed /\ proposal[p] \in Open THEN "expired"
  ELSE IF proposal[p] = "awaiting_confirmation" /\ action = "confirm" THEN "processing"
  ELSE IF proposal[p] = "awaiting_confirmation" /\ action = "reject" THEN "rejected"
  ELSE IF proposal[p] # "pending" THEN proposal[p]
  ELSE IF action = "approve" THEN "awaiting_confirmation" ELSE "rejected"

Row(p, outcome) ==
  [proposal |-> p, action |-> Update.kind, update |-> offset, outcome |-> outcome]

\* decide: from "processing" the plan is delegated, whatever the tap was.  While
\* approvals are switched off the tap is only answered.  The deadline may have
\* passed at any tap: the first one that finds it passed closes the proposal.
Decide ==
  /\ phase = "act" /\ Update.kind \in Callbacks
  /\ \/ Responds("plain") /\ UNCHANGED <<proposal, audit>>
     \/ \E lapsed \in BOOLEAN :
        LET p == Update.about
            s == Tapped(p, Update.kind, lapsed) IN
        /\ proposal' = [proposal EXCEPT ![p] = s]
        /\ audit' = IF s = proposal[p] THEN audit ELSE audit \cup {Row(p, s)}
        /\ IF s = "processing" THEN Step("act", "replan") /\ UNCHANGED response
           ELSE Responds(IF s = "awaiting_confirmation" THEN "ask" ELSE "plain")
  /\ UNCHANGED <<offset, receipt, delegated, dropped, recent, world, stable>>

\* The plan is made again; a program or registry that was changed in between
\* may come to another decision, which ends the proposal as failed.
Replan ==
  /\ \E next \in {"delegate", "failed"} : Step("replan", next)
  /\ UNCHANGED <<stored, world, response, stable>>

\* delegate: the delegation stored under the proposal's key, a new one, or none
\* because a worker is not available.
Delegate ==
  /\ Step("delegate", "approved")
  /\ delegated' \in {delegated, delegated \cup {Update.about}}
  /\ UNCHANGED <<offset, receipt, proposal, audit, dropped, recent, world,
                 response, stable>>

\* (fault: the audit is not told)
AuditUntold(p, outcome) == audit
\* The latest confirmation of the proposal is told how it ended.
AuditTold(p, outcome) ==
  {IF r.proposal = p /\ r.action = "confirm" THEN [r EXCEPT !.outcome = outcome]
   ELSE r : r \in audit}

Finish ==
  /\ phase \in {"approved", "failed"}
  /\ proposal' = [proposal EXCEPT ![Update.about] = IF @ = "processing" THEN phase ELSE @]
  /\ audit' = AuditTold(Update.about, phase)
  /\ phase' = "record"
  /\ response' = "plain"
  /\ UNCHANGED <<offset, receipt, delegated, dropped, recent, world, stable>>

-------------------------------------------------------------------------------
(* The answer and the acknowledgement.                                     *)

Record ==
  /\ Step("record", "reply") /\ response' = "plain"
  /\ receipt' = [receipt EXCEPT ![offset] = IF @ = "claimed" THEN response ELSE @]
  /\ UNCHANGED <<offset, proposal, audit, delegated, dropped, recent, world, stable>>

Reply ==
  /\ Step("reply", IF Update.kind \in Callbacks THEN "answer" ELSE "ack")
  /\ shown' = shown \cup {offset}
  /\ UNCHANGED <<stored, inbox, response, stable>>

AnswerCallback == Step("answer", "ack") /\ UNCHANGED <<stored, world, response, stable>>

Advance ==
  /\ Step("ack", "idle")
  /\ offset' = offset + 1
  /\ UNCHANGED <<receipt, proposal, audit, delegated, dropped, recent, world,
                 response, stable>>

\* After a failed iteration the update at the offset is delivered again.
SameUpdate == offset

\* An error the router knows is stored under the receipt, and raised.
Fails(from) ==
  /\ "error" \in Faults
  /\ Step(from, "idle")
  /\ receipt' = [receipt EXCEPT ![offset] = "failed"]
  /\ UNCHANGED <<offset, proposal, audit, delegated, dropped, recent, world,
                 response, stable>>

\* Any other error only ends the iteration; a message may have gone out.
Breaks ==
  /\ ~stable
  /\ \/ "busy" \in Faults /\ phase \notin {"idle", "reply", "answer"}
        /\ UNCHANGED shown
     \/ "api" \in Faults /\ phase = "reply" /\ shown' \in {shown, shown \cup {offset}}
     \/ "api" \in Faults /\ phase = "answer" /\ UNCHANGED shown
  /\ phase' = "idle" /\ response' = "plain"
  /\ offset' = SameUpdate
  /\ UNCHANGED <<receipt, proposal, audit, delegated, dropped, recent,
                 inbox, stable>>

\* The process dies and is started again.
Crash ==
  /\ "crash" \in Faults /\ ~stable
  /\ phase' = "idle" /\ response' = "plain"
  /\ UNCHANGED <<stored, world, stable>>

OutagesEnd ==
  /\ ~stable /\ stable' = TRUE
  /\ UNCHANGED <<stored, world, worker>>

\* What the router does with a claimed command, or the error it ends in.
Act == Command \/ Decide \/ Fails("act")
Revalidate == Replan \/ Fails("replan")
Confirm == Delegate \/ Fails("delegate")

Work == \/ Admit \/ Drop \/ Claim \/ Act \/ Revalidate \/ Confirm \/ Finish
        \/ Record \/ Reply \/ AnswerCallback \/ Advance

Next ==
  \/ Sends
  \/ \E b \in Buckets : WindowMoves(b)
  \/ Work \/ Breaks \/ Crash \/ OutagesEnd

Spec == Init /\ [][Next]_vars

(* The worker polls again after every failed iteration, and outages of the   *)
(* database, of Telegram and of the process end.  The errors that the router *)
(* stores may come back every time.                                          *)
FairSpec == Spec /\ WF_vars(Work) /\ WF_vars(OutagesEnd)

-------------------------------------------------------------------------------
(* What the channel promises.                                              *)

\* The tables and the worker keep to their types, and the worker works only on
\* an update that was sent.
TypeOK ==
  /\ inbox \in Seq(Updates) /\ Len(inbox) <= MaxUpdates
  /\ offset \in 1 .. Len(inbox) + 1
  /\ receipt \in [Ids -> {"none", "claimed"} \cup Answered]
  /\ proposal \in [Ids -> ProposalStates]
  /\ audit \in SUBSET AuditRows
  /\ delegated \in SUBSET Ids
  /\ dropped \in SUBSET Ids
  /\ recent \in [Buckets -> 0 .. Limit]
  /\ shown \in SUBSET Ids
  /\ phase \in Phases
  /\ response \in Responses
  /\ stable \in BOOLEAN
  /\ phase # "idle" => offset <= Len(inbox)

\* A plan is delegated only after two taps of the owner, an approval and a later
\* confirmation, each of them in the audit; and a plan that was rejected or ran
\* out of time is not among the delegated ones, whatever crashed in between.
DelegationWasConfirmed ==
  \A p \in delegated :
    /\ \E a, c \in audit :
         /\ a.proposal = p /\ a.action = "approve"
         /\ c.proposal = p /\ c.action = "confirm"
         /\ p < a.update /\ a.update < c.update
    /\ proposal[p] \in {"processing", "approved", "failed"}

\* An update that is acknowledged to Telegram was answered, or is in the security
\* audit: no failure between the steps of an iteration loses a command.
AckedIsAnswered ==
  \A u \in 1 .. offset - 1 :
    \/ u \in dropped
    \/ /\ u \in shown
       /\ receipt[u] \in Answered \/ inbox[u].kind = "unknown"

\* The latest row of the audit tells the state the proposal is in.
AuditTellsOutcome ==
  \A p \in Ids :
    LET rows == {r \in audit : r.proposal = p} IN
    \/ rows = {} /\ proposal[p] \in {"none", "pending"}
    \/ \E r \in rows : /\ \A q \in rows : q.update <= r.update
                       /\ r.outcome = proposal[p]

\* What the owner was answered is on record, and what is on record was answered.
AnswersAreOnRecord == AckedIsAnswered /\ AuditTellsOutcome

\* A stored answer and a closed proposal are never rewritten, however often an
\* update is delivered and whatever the owner taps.
AnswersAreFinal ==
  [][\A u \in Ids :
       /\ receipt[u] \in Answered => UNCHANGED receipt[u]
       /\ proposal[u] \in Closed => UNCHANGED proposal[u]]_vars

\* Every update is acknowledged in the end, also a rejected one and one whose
\* command always fails.
QueueIsDrained == []<>(offset > Len(inbox))

\* A tap on "Reject" never delegates the plan.
RejectNeverDelegates ==
  [][delegated' # delegated => Update.kind # "reject"]_vars

-------------------------------------------------------------------------------
(* The approval, as an abstract specification.                             *)

StageOf(state) ==
  CASE state = "none" -> "none"
    [] state = "pending" -> "offered"
    [] state = "awaiting_confirmation" -> "approved"
    [] state = "processing" -> "confirmed"
    [] state \in {"rejected", "expired"} -> "closed"
    [] state \in {"approved", "failed"} -> "done"

\* The rows of the audit without their outcomes, which are told later.
TapsOnRecord == {[plan |-> r.proposal, action |-> r.action, at |-> r.update] : r \in audit}

Approving == INSTANCE TwoStepApproval WITH
  Plans <- Ids, stage <- [p \in Ids |-> StageOf(proposal[p])], taps <- TapsOnRecord

\* However often an update is delivered, whatever fails and whenever the process dies,
\* each plan goes through the two steps once and in order, each by a tap of its own that is
\* on record, and is delegated only between its confirmation and its end; whichever tap
\* resumes the delegation (telegram_approvals.py, telegram_command_service.py).
RefinesTwoStep == Approving!Spec
===============================================================================
