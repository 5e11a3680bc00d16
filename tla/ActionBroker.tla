----------------------------- MODULE ActionBroker -----------------------------
(***************************************************************************)
(* The Guardian's privileged action path: an owner proposes and approves a *)
(* restart plan over HTTP (guardian/app.py), root reserves it (broker.py)  *)
(* and issues a short-lived single-use authorization                       *)
(* (root_authorization.py), and the root broker, one connection at a time  *)
(* (broker_server.py), executes it (execution_service.py, executor.py).    *)
(*                                                                         *)
(* Three processes share two SQLite files.  Every write is one BEGIN       *)
(* IMMEDIATE transaction, so an action is one transaction or one external  *)
(* call, and whatever the program does between two of them is two actions: *)
(* the other processes, the clock and a crash can come in between.         *)
(***************************************************************************)
EXTENDS Naturals

CONSTANTS
  Plans,          \* plan_id values
  Backend,        \* the plans whose target is the backend
  Reservations,   \* reservation_id values (secrets.token_hex)
  NoReservation, NoRequest,
  Faults          \* subset of {"crash", "busy"}: what may go wrong

ASSUME BrokerAssumption ==
  /\ Backend \subseteq Plans
  /\ NoReservation \notin Reservations
  /\ NoRequest \notin [plan : Plans, reservation : Reservations, dry : BOOLEAN]

VARIABLES
  status,       \* action_plans.status, "absent" before the plan exists
  lapsed,       \* plans whose expires_at has passed
  reservation,  \* plan_json.execution_reservation.reservation_id
  record,       \* plan_json.execution
  checked,      \* authorization CLIs between plan validation and insert
  auth,         \* root_authorizations.status by (plan, reservation)
  stale,        \* authorizations whose expires_at has passed
  phase,        \* where the broker process is
  request,      \* the request it serves
  result,       \* what restart_backend_service came back with
  commands,     \* how often the restart command was started for a plan
  restarted     \* plans for which systemd really restarted the backend

planVars == <<status, lapsed, reservation, record>>
authVars == <<checked, auth, stale>>
brokerVars == <<phase, request, result>>
worldVars == <<commands, restarted>>
vars == <<planVars, authVars, brokerVars, worldVars>>

Grants == Plans \X Reservations
Requests == [plan : Plans, reservation : Reservations, dry : BOOLEAN]
Settled == {"succeeded", "failed", "manual_review"}
Statuses == {"absent", "approval_required", "approved", "expired",
             "execution_reserved", "executing"} \cup Settled
Results == {"none", "not_performed", "unverified", "verified"}
Phases == {"down", "idle", "checked", "begun", "refused", "authorized",
           "running", "returned"}

\* plan_json.execution: whether execution was entered, and what it says of
\* the command ("unknown" is the null a recovery writes)
Said == {"no", "yes", "unknown"}
Records == [entered : BOOLEAN, attempted : Said, performed : Said]
NotEntered == [entered |-> FALSE, attempted |-> "no", performed |-> "no"]
Entered(a, d) == [entered |-> TRUE, attempted |-> a, performed |-> d]

Init ==
  /\ status = [p \in Plans |-> "absent"]
  /\ lapsed = {}
  /\ reservation = [p \in Plans |-> NoReservation]
  /\ record = [p \in Plans |-> NotEntered]
  /\ checked = {}
  /\ auth = [g \in Grants |-> "none"]
  /\ stale = {}
  /\ phase = "down"
  /\ request = NoRequest
  /\ result = "none"
  /\ commands = [p \in Plans |-> 0]
  /\ restarted = {}

-------------------------------------------------------------------------------
(* The Guardian HTTP process and the clock.                                *)

CreatePlan(p) ==
  /\ status[p] = "absent"
  /\ status' = [status EXCEPT ![p] = "approval_required"]
  /\ UNCHANGED <<lapsed, reservation, record, authVars, brokerVars, worldVars>>

\* (fault: an approved plan can be approved again whatever became of it)
ApprovedAgain(p) ==
  IF p \in lapsed THEN "expired" ELSE "approved"

\* The deadline, whatever the status, turns any approval request into expiry.
Approved(p) ==
  IF p \in lapsed THEN "expired"
  ELSE IF status[p] = "approval_required" THEN "approved" ELSE status[p]

Approve(p) ==
  /\ status[p] # "absent"
  /\ status' = [status EXCEPT ![p] = Approved(p)]
  /\ UNCHANGED <<lapsed, reservation, record, authVars, brokerVars, worldVars>>

DeadlinePasses(p) ==
  /\ status[p] # "absent" /\ p \notin lapsed
  /\ lapsed' = lapsed \cup {p}
  /\ UNCHANGED <<status, reservation, record, authVars, brokerVars, worldVars>>

-------------------------------------------------------------------------------
(* The root operator's command lines.                                      *)

\* validate_loaded_plan, inside the transaction of the reservation
Reservable(p) == status[p] = "approved" /\ p \notin lapsed

Reserve(p, r) ==
  /\ Reservable(p)
  /\ \A q \in Plans : reservation[q] # r
  /\ status' = [status EXCEPT ![p] = "execution_reserved"]
  /\ reservation' = [reservation EXCEPT ![p] = r]
  /\ record' = [record EXCEPT ![p] = NotEntered]
  /\ UNCHANGED <<lapsed, authVars, brokerVars, worldVars>>

\* validate_reserved_backend_plan, on its own read-only connection
Executable(p, r) ==
  /\ status[p] = "execution_reserved"
  /\ p \in Backend
  /\ reservation[p] = r
  /\ p \notin lapsed

CheckBeforeIssue(p, r) ==
  /\ Executable(p, r)
  /\ checked' = checked \cup {<<p, r>>}
  /\ UNCHANGED <<planVars, auth, stale, brokerVars, worldVars>>

\* The insert: the unique index refuses a second row for the reservation.
Issue(p, r) ==
  /\ <<p, r>> \in checked
  /\ checked' = checked \ {<<p, r>>}
  /\ auth' = IF auth[<<p, r>>] # "none" THEN auth
             ELSE [auth EXCEPT ![<<p, r>>] = "pending"]
  /\ UNCHANGED <<planVars, stale, brokerVars, worldVars>>

GrantLapses(p, r) ==
  /\ auth[<<p, r>>] = "pending" /\ <<p, r>> \notin stale
  /\ stale' = stale \cup {<<p, r>>}
  /\ UNCHANGED <<planVars, checked, auth, brokerVars, worldVars>>

-------------------------------------------------------------------------------
(* The broker process.  It serves one connection at a time; a request that *)
(* fails validation is only answered, so Accept starts with one that       *)
(* passed.  phase names the next thing the handler does.                   *)

Plan == request.plan
Grant == <<request.plan, request.reservation>>
Busy == "busy" \in Faults       \* sqlite3.Error after the 5 s busy timeout

Idle ==
  /\ phase' = "idle" /\ request' = NoRequest /\ result' = "none"

Accept(req) ==
  /\ phase = "idle"
  /\ Executable(req.plan, req.reservation)
  /\ phase' = "checked" /\ request' = req
  /\ UNCHANGED <<planVars, authVars, result, worldVars>>

\* transition_execution_state: compare-and-set on the status of the request's
\* plan; otherwise (or when the database is busy) it raises and writes nothing
CanMove(from) ==
  status[Plan] = from /\ reservation[Plan] = request.reservation

Moved(from, to, rec) ==
  /\ CanMove(from)
  /\ status' = [status EXCEPT ![Plan] = to]
  /\ record' = [record EXCEPT ![Plan] = rec]

NotMoved(from) ==
  /\ ~CanMove(from) \/ Busy
  /\ UNCHANGED <<status, record>>

Begin ==
  /\ phase = "checked"
  /\ \/ /\ Moved("execution_reserved", "executing", Entered("no", "no"))
        /\ phase' = "begun" /\ UNCHANGED <<request, result>>
     \/ NotMoved("execution_reserved") /\ Idle
  /\ UNCHANGED <<lapsed, reservation, authVars, worldVars>>

\* consume_backend_restart_authorization: the row after it (Consumed), and
\* whether the handler may go on (Allowed)
Consumed(g) ==
  IF auth[g] # "pending" THEN auth[g]
  ELSE IF g \in stale THEN "expired" ELSE "consumed"

Allowed(g) == auth[g] = "pending" /\ g \notin stale

Consume ==
  /\ phase = "begun"
  /\ \/ /\ auth' = [auth EXCEPT ![Grant] = Consumed(Grant)]
        /\ phase' = IF Allowed(Grant) THEN "authorized" ELSE "refused"
     \/ Busy /\ auth' = auth /\ phase' = "refused"
  /\ UNCHANGED <<planVars, checked, stale, request, result, worldVars>>

\* mark_authorization_failure_for_manual_review
Review ==
  /\ phase = "refused"
  /\ \/ Moved("executing", "manual_review", Entered("no", "no"))
     \/ NotMoved("executing")
  /\ Idle
  /\ UNCHANGED <<lapsed, reservation, authVars, worldVars>>

Command ==
  /\ phase = "authorized" /\ ~request.dry
  /\ phase' = "running"
  /\ commands' = [commands EXCEPT ![Plan] = @ + 1]
  /\ UNCHANGED <<planVars, authVars, request, result, restarted>>

\* systemd carries the job out on its own time, also after the client gave up
SystemdRestarts(p) ==
  /\ commands[p] > 0 /\ p \notin restarted
  /\ restarted' = restarted \cup {p}
  /\ UNCHANGED <<planVars, authVars, brokerVars, commands>>

\* (fault: a command that was not performed is tried again)
RetryUnperformed(res) ==
  IF res = "not_performed" THEN "authorized" ELSE "returned"

\* Where the handler goes from a result of the command: to the record, always.
AfterCommand(res) == "returned"

\* After the job the backend is asked for its health, and may not answer so.
Verdicts == {"unverified", "verified"}

\* A timeout, a failed start or a nonzero exit says nothing of systemd; exit
\* code 0 means the job was done, whatever the verification then finds.
CommandReturns ==
  /\ phase = "running"
  /\ \E res \in {"not_performed"} \cup Verdicts :
       /\ res # "not_performed" => Plan \in restarted
       /\ phase' = AfterCommand(res)
       /\ result' = res
  /\ UNCHANGED <<planVars, authVars, request, worldVars>>

Outcome == IF request.dry \/ result = "verified" THEN "succeeded" ELSE "failed"

\* (fault: a command that timed out is reported as never attempted)
ReportOptimistic ==
  IF request.dry \/ result = "not_performed" THEN Entered("no", "no")
  ELSE Entered("yes", "yes")

Report ==
  IF request.dry THEN Entered("no", "no")
  ELSE Entered("yes", IF result = "not_performed" THEN "no" ELSE "yes")

Complete ==
  /\ phase = "returned" \/ (phase = "authorized" /\ request.dry)
  /\ \/ Moved("executing", Outcome, Report)
     \/ NotMoved("executing")
  /\ Idle
  /\ UNCHANGED <<lapsed, reservation, authVars, worldVars>>

Crash ==
  /\ "crash" \in Faults /\ phase # "down"
  /\ phase' = "down" /\ request' = NoRequest /\ result' = "none"
  /\ UNCHANGED <<planVars, authVars, worldVars>>

\* (fault: the broker starts serving without recovering)
NeverInterrupted(p) == FALSE

\* (fault: recovery also reopens what a previous process recorded as failed)
InterruptedOrFailed(p) == status[p] \in {"executing", "failed"}

\* What recover_interrupted_executions selects
Interrupted(p) == status[p] = "executing"

\* recover_interrupted_executions, in one transaction
RecoverInterrupted ==
  /\ status' = [p \in Plans |->
                  IF Interrupted(p) THEN "manual_review" ELSE status[p]]
  /\ record' = [p \in Plans |->
                  IF Interrupted(p) THEN Entered("unknown", "unknown")
                  ELSE record[p]]

\* broker_entrypoint: recovery first, then serve
Start ==
  /\ phase = "down"
  /\ RecoverInterrupted
  /\ Idle
  /\ UNCHANGED <<lapsed, reservation, authVars, worldVars>>

Handler ==
  \/ Begin \/ Consume \/ Review \/ Command \/ CommandReturns \/ Complete

Next ==
  \/ \E p \in Plans : CreatePlan(p) \/ Approve(p) \/ DeadlinePasses(p)
                      \/ SystemdRestarts(p)
  \/ \E p \in Plans, r \in Reservations :
       Reserve(p, r) \/ CheckBeforeIssue(p, r) \/ Issue(p, r)
       \/ GrantLapses(p, r)
  \/ \E req \in Requests : Accept(req)
  \/ Handler \/ Crash \/ Start

Spec == Init /\ [][Next]_vars

\* The handler runs to its end (every call in it has a timeout) and systemd
\* restarts a failed broker (Restart=on-failure).
FairSpec == Spec /\ WF_vars(Handler) /\ WF_vars(Start)

-------------------------------------------------------------------------------
(* Properties.                                                             *)

TypeOK ==
  /\ status \in [Plans -> Statuses]
  /\ lapsed \subseteq Plans
  /\ reservation \in [Plans -> Reservations \cup {NoReservation}]
  /\ record \in [Plans -> Records]
  /\ checked \subseteq Grants
  /\ auth \in [Grants -> {"none", "pending", "consumed", "expired"}]
  /\ stale \subseteq Grants
  /\ phase \in Phases
  /\ request \in Requests \cup {NoRequest}
  /\ result \in Results
  /\ commands \in [Plans -> Nat]
  /\ restarted \subseteq Plans
  /\ request = NoRequest <=> phase \in {"down", "idle"}

\* No sequence of requests, retries, crashes and recoveries starts the
\* privileged command twice for one plan.
OneCommand == \A p \in Plans : commands[p] <= 1

\* The command runs only for a backend plan that was reserved, and whose
\* reservation's own root authorization was consumed.
CommandIsAuthorized ==
  \A p \in Plans : commands[p] > 0 =>
    /\ p \in Backend
    /\ reservation[p] \in Reservations
    /\ auth[<<p, reservation[p]>>] = "consumed"

\* An authorization is spent only on an execution that has been entered in the
\* plan's record before: a crash after the spending leaves a plan that recovery
\* sees, never a plan that still looks reserved.
SpentMeansEntered ==
  \A p \in Plans, r \in Reservations : auth[<<p, r>>] = "consumed" =>
    /\ reservation[p] = r
    /\ record[p].entered
    /\ status[p] \in {"executing", "expired"} \cup Settled

\* The single use of an authorization (root_authorization.py, execution_service.py):
\* one command at most, by the authorization of its own reservation, spent on
\* an execution already on record, in stores that keep to their types.
AuthorizedOnce == TypeOK /\ OneCommand /\ CommandIsAuthorized /\ SpentMeansEntered

\* What a settled plan says of the command is true: "not attempted" only if no
\* command was started, "performed" only if systemd did restart the backend.
RecordIsTrue ==
  \A p \in Plans : status[p] \in Settled =>
    /\ record[p].attempted = "no" => commands[p] = 0
    /\ record[p].performed = "yes" => p \in restarted

\* Unless the database was too busy to write the outcome, a plan is executing
\* only while the broker works on it or is down.
ExecutingIsOwned ==
  \A p \in Plans : status[p] = "executing" =>
    \/ phase = "down"
    \/ phase \in {"begun", "refused", "authorized", "running", "returned"}
       /\ Plan = p

\* A settled plan is never executed, reviewed or settled again; only an approval
\* request after its deadline still changes it.
SettledOnlyExpires ==
  [][\A p \in Plans : status[p] \in Settled =>
       \/ UNCHANGED <<status[p], record[p]>>
       \/ status'[p] = "expired" /\ p \in lapsed /\ record'[p] = record[p]]_vars

\* An execution ends with its handler, unless the database is too busy for the
\* outcome; and whatever a handler or a crash left executing ends with the
\* recovery of the next start (execution_recovery.py).
ExecutionEnds ==
  \A p \in Plans :
    /\ status[p] = "executing" ~> \/ status[p] # "executing"
                                  \/ Busy /\ phase = "idle"
    /\ []<>(phase = "down") => (status[p] = "executing" ~> status[p] # "executing")

\* The broker implements the single-use grant.
StageOf(a) ==
  IF a = "pending" THEN "granted"
  ELSE IF a = "consumed" THEN "spent"
  ELSE IF a = "expired" THEN "void" ELSE "none"

GrantStage(p) ==
  IF reservation[p] = NoReservation THEN "none"
  ELSE StageOf(auth[<<p, reservation[p]>>])

SingleUse == INSTANCE SingleUseGrant WITH
  stage <- [p \in Plans |-> GrantStage(p)],
  used <- {p \in Plans : commands[p] > 0}

RefinesSingleUse == SingleUse!Spec
===============================================================================
