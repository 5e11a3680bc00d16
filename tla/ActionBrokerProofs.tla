-------------------------- MODULE ActionBrokerProofs --------------------------
(***************************************************************************)
(* Proofs about ActionBroker, for any plans, reservations and faults.      *)
(*                                                                         *)
(* BrokerInv is the inductive invariant: the safety properties, together   *)
(* with what ties the four stores to the handler's position: a reservation *)
(* is written once, an authorization exists only for it, and the handler   *)
(* remembers what the databases said when it last looked.                  *)
(***************************************************************************)
EXTENDS ActionBroker, TLAPS

Unreserved == {"absent", "approval_required", "approved"}
AfterEntry == {"executing", "expired"} \cup Settled

ReservationFollows ==
  \A p \in Plans :
    /\ status[p] \in Unreserved => reservation[p] = NoReservation
    /\ record[p].entered => status[p] \in AfterEntry

GrantsFollow ==
  \A p \in Plans, r \in Reservations :
    (auth[p, r] # "none" \/ <<p, r>> \in checked) => reservation[p] = r

HandlerKnows ==
  phase \notin {"down", "idle"} =>
    /\ Plan \in Backend /\ reservation[Plan] = request.reservation
    /\ phase # "checked" =>
         record[Plan] = Entered("no", "no") /\ status[Plan] \in {"executing", "expired"}
    /\ phase \in {"checked", "begun", "refused", "authorized"} => commands[Plan] = 0
    /\ phase = "authorized" => auth[Grant] = "consumed"
    /\ phase \in {"running", "returned"} => ~request.dry /\ commands[Plan] = 1
    /\ phase = "returned" =>
         /\ result # "none"
         /\ result # "not_performed" => Plan \in restarted

BrokerInv ==
  /\ TypeOK /\ OneCommand /\ CommandIsAuthorized /\ SpentMeansEntered
  /\ RecordIsTrue /\ ReservationFollows /\ GrantsFollow /\ HandlerKnows

-------------------------------------------------------------------------------
(* Types.                                                                  *)

LEMMA TypesInitially == Init => TypeOK
<1> SUFFICES ASSUME Init PROVE TypeOK OBVIOUS
<1>1. NotEntered \in Records BY DEF NotEntered, Records, Said
<1>2. auth \in [Grants -> {"none", "pending", "consumed", "expired"}] BY DEF Init
<1> QED BY <1>1, <1>2 DEF Init, TypeOK, Statuses, Phases, Results

LEMMA EnteredIsRecord ==
  ASSUME NEW a \in Said, NEW d \in Said
  PROVE  Entered(a, d) \in Records
  BY DEF Entered, Records, Said

\* The broker's own steps keep the part of the type they touch.
LEMMA MovedType ==
  ASSUME TypeOK, NEW from, NEW to \in Statuses, NEW rec \in Records,
         Moved(from, to, rec) \/ NotMoved(from)
  PROVE  status' \in [Plans -> Statuses] /\ record' \in [Plans -> Records]
  BY DEF TypeOK, Moved, NotMoved

LEMMA IdleType ==
  ASSUME Idle
  PROVE  /\ phase' \in Phases /\ request' \in Requests \cup {NoRequest}
         /\ result' \in Results
         /\ request' = NoRequest <=> phase' \in {"down", "idle"}
  BY DEF Idle, Phases, Results

LEMMA TypesInductive ==
  ASSUME TypeOK, [Next]_vars
  PROVE  TypeOK'
<1> USE DEF planVars, authVars, brokerVars, worldVars
<1>1. ASSUME NEW p \in Plans,
             CreatePlan(p) \/ Approve(p) \/ DeadlinePasses(p) \/ SystemdRestarts(p)
      PROVE  TypeOK'
  BY <1>1 DEF TypeOK, CreatePlan, Approve, Approved, DeadlinePasses, SystemdRestarts,
     Statuses
<1>2. ASSUME NEW p \in Plans, NEW r \in Reservations, Reserve(p, r) PROVE TypeOK'
  <2>1. NotEntered \in Records BY DEF NotEntered, Records, Said
  <2> QED BY <1>2, <2>1 DEF TypeOK, Reserve, Reservable, Statuses
<1>3. ASSUME NEW p \in Plans, NEW r \in Reservations,
             CheckBeforeIssue(p, r) \/ Issue(p, r) \/ GrantLapses(p, r)
      PROVE  TypeOK'
  <2>1. <<p, r>> \in Grants BY DEF Grants
  <2> QED BY <1>3, <2>1 DEF TypeOK, CheckBeforeIssue, Issue, GrantLapses
<1>4. ASSUME NEW req \in Requests, Accept(req) PROVE TypeOK'
  BY <1>4, BrokerAssumption DEF TypeOK, Accept, Phases, Requests
<1>5. CASE Begin
  <2>1. status' \in [Plans -> Statuses] /\ record' \in [Plans -> Records]
    BY <1>5, MovedType, EnteredIsRecord DEF Begin, Said, Statuses
  <2> QED BY <1>5, <2>1, IdleType DEF TypeOK, Begin, Phases
<1>6. CASE Consume
  BY <1>6 DEF TypeOK, Consume, Consumed, Phases
<1>7. CASE Review
  <2>1. status' \in [Plans -> Statuses] /\ record' \in [Plans -> Records]
    BY <1>7, MovedType, EnteredIsRecord DEF Review, Said, Statuses, Settled
  <2> QED BY <1>7, <2>1, IdleType DEF TypeOK, Review
<1>8. CASE Command
  <2>1. Plan \in Plans BY <1>8 DEF TypeOK, Command, Plan, Requests
  <2>2. commands' \in [Plans -> Nat] BY <1>8, <2>1 DEF TypeOK, Command
  <2> QED BY <1>8, <2>2 DEF TypeOK, Command, Phases
<1>9. CASE CommandReturns
  BY <1>9 DEF TypeOK, CommandReturns, Verdicts, AfterCommand, Phases, Results
<1>10. CASE Complete
  <2>1. Outcome \in Statuses /\ Report \in Records
    BY EnteredIsRecord DEF Outcome, Report, Said, Statuses, Settled
  <2>2. status' \in [Plans -> Statuses] /\ record' \in [Plans -> Records]
    BY <1>10, <2>1, MovedType DEF Complete
  <2> QED BY <1>10, <2>2, IdleType DEF TypeOK, Complete
<1>11. CASE Crash
  BY <1>11 DEF TypeOK, Crash, Phases, Results
<1>12. CASE Start
  <2>1. status' \in [Plans -> Statuses]
    BY <1>12 DEF TypeOK, Start, RecoverInterrupted, Statuses, Settled
  <2>2. record' \in [Plans -> Records]
    BY <1>12, EnteredIsRecord DEF TypeOK, Start, RecoverInterrupted, Said
  <2> QED BY <1>12, <2>1, <2>2, IdleType DEF TypeOK, Start, RecoverInterrupted
<1>13. CASE UNCHANGED vars
  BY <1>13 DEF TypeOK, vars
<1> QED
  BY <1>1, <1>2, <1>3, <1>4, <1>5, <1>6, <1>7, <1>8, <1>9, <1>10, <1>11, <1>12, <1>13
  DEF Next, Handler

\* The stores and the handler keep to their types, whatever fails.
THEOREM BrokerTypeCorrectness == Spec => []TypeOK
  BY TypesInitially, TypesInductive, PTL DEF Spec

-------------------------------------------------------------------------------
(* The inductive invariant, one action after the other.                    *)

LEMMA BrokerInitially == Init => BrokerInv
<1> SUFFICES ASSUME Init PROVE BrokerInv OBVIOUS
<1> USE DEF Init
<1>1. TypeOK BY TypesInitially
<1>2. OneCommand /\ CommandIsAuthorized BY DEF OneCommand, CommandIsAuthorized
<1>3. SpentMeansEntered /\ GrantsFollow
  BY DEF SpentMeansEntered, GrantsFollow, Grants
<1>4. RecordIsTrue /\ ReservationFollows
  BY DEF RecordIsTrue, ReservationFollows, Settled, NotEntered
<1>5. HandlerKnows BY DEF HandlerKnows
<1> QED BY <1>1, <1>2, <1>3, <1>4, <1>5 DEF BrokerInv

LEMMA HandlerPlan ==
  ASSUME BrokerInv, phase \notin {"down", "idle"}
  PROVE  /\ request \in Requests /\ Plan \in Plans /\ request.reservation \in Reservations
         /\ Plan \in Backend /\ reservation[Plan] = request.reservation
  BY DEF BrokerInv, TypeOK, HandlerKnows, Plan, Requests

\* Before execution is entered no command has run.
LEMMA NoCommandBeforeEntry ==
  ASSUME BrokerInv, NEW p \in Plans, ~record[p].entered
  PROVE  commands[p] = 0
<1>1. commands[p] \in Nat BY DEF BrokerInv, TypeOK
<1>2. CASE commands[p] > 0
  <2>1. reservation[p] \in Reservations /\ auth[<<p, reservation[p]>>] = "consumed"
    BY <1>2 DEF BrokerInv, CommandIsAuthorized
  <2> QED BY <2>1 DEF BrokerInv, SpentMeansEntered
<1> QED BY <1>1, <1>2

LEMMA IdleKnows == ASSUME Idle PROVE HandlerKnows'
  BY DEF Idle, HandlerKnows

\* The HTTP process: statuses move before execution, or expire.
LEMMA OwnersKeep ==
  ASSUME BrokerInv, NEW p \in Plans, CreatePlan(p) \/ Approve(p)
  PROVE  BrokerInv'
<1>1. UNCHANGED <<lapsed, reservation, record, checked, auth, stale, phase, request,
                  result, commands, restarted>>
  BY DEF CreatePlan, Approve, authVars, brokerVars, worldVars
<1>2. \A q \in Plans :
        \/ status'[q] = status[q]
        \/ status'[q] = "expired"
        \/ /\ status[q] \in {"absent", "approval_required"}
           /\ status'[q] \in {"approval_required", "approved"}
  BY DEF BrokerInv, TypeOK, CreatePlan, Approve, Approved
<1>3. TypeOK' BY TypesInductive DEF BrokerInv, Next
<1>4. OneCommand' /\ CommandIsAuthorized' /\ GrantsFollow'
  BY <1>1 DEF BrokerInv, OneCommand, CommandIsAuthorized, GrantsFollow
<1>5. SpentMeansEntered'
  BY <1>1, <1>2 DEF BrokerInv, SpentMeansEntered, Settled
<1>6. RecordIsTrue'
  BY <1>1, <1>2 DEF BrokerInv, RecordIsTrue, Settled
<1>7. ReservationFollows'
  BY <1>1, <1>2 DEF BrokerInv, ReservationFollows, Unreserved, AfterEntry, Settled
<1>8. HandlerKnows'
  <2>1. SUFFICES ASSUME phase \notin {"down", "idle"} PROVE HandlerKnows'
    BY <1>1 DEF HandlerKnows
  <2>2. Plan \in Plans /\ Plan' = Plan BY <1>1, <2>1, HandlerPlan DEF Plan
  <2> QED BY <1>1, <1>2, <2>1, <2>2 DEF BrokerInv, HandlerKnows, Grant, Plan
<1> QED BY <1>3, <1>4, <1>5, <1>6, <1>7, <1>8 DEF BrokerInv

\* The clock and systemd: what is known of them only grows.
LEMMA WorldKeeps ==
  ASSUME BrokerInv, NEW p \in Plans, DeadlinePasses(p) \/ SystemdRestarts(p)
  PROVE  BrokerInv'
<1>1. UNCHANGED <<status, reservation, record, checked, auth, stale, phase, request,
                  result, commands>>
  BY DEF DeadlinePasses, SystemdRestarts, planVars, authVars, brokerVars, worldVars
<1>2. restarted \subseteq restarted'
  BY DEF DeadlinePasses, SystemdRestarts, worldVars
<1>3. TypeOK' BY TypesInductive DEF BrokerInv, Next
<1>4. OneCommand' /\ CommandIsAuthorized' /\ GrantsFollow' /\ SpentMeansEntered'
  BY <1>1 DEF BrokerInv, OneCommand, CommandIsAuthorized, GrantsFollow, SpentMeansEntered
<1>5. RecordIsTrue' BY <1>1, <1>2 DEF BrokerInv, RecordIsTrue
<1>6. ReservationFollows' BY <1>1 DEF BrokerInv, ReservationFollows
<1>7. HandlerKnows'
  BY <1>1, <1>2 DEF BrokerInv, HandlerKnows, Plan, Grant
<1> QED BY <1>3, <1>4, <1>5, <1>6, <1>7 DEF BrokerInv

\* A reservation is written once, when nobody knows the plan's reservation yet.
LEMMA ReserveKeeps ==
  ASSUME BrokerInv, NEW p \in Plans, NEW r \in Reservations, Reserve(p, r)
  PROVE  BrokerInv'
<1>1. UNCHANGED <<lapsed, checked, auth, stale, phase, request, result, commands,
                  restarted>>
  BY DEF Reserve, Reservable, authVars, brokerVars, worldVars
<1>2. /\ status[p] = "approved" /\ reservation[p] = NoReservation
      /\ ~record[p].entered
  BY DEF Reserve, Reservable, BrokerInv, ReservationFollows, Unreserved, AfterEntry, Settled
<1>3. /\ status' = [status EXCEPT ![p] = "execution_reserved"]
      /\ reservation' = [reservation EXCEPT ![p] = r]
      /\ record' = [record EXCEPT ![p] = NotEntered]
  BY DEF Reserve, Reservable
<1>4. \A s \in Reservations : auth[<<p, s>>] = "none" /\ <<p, s>> \notin checked
  BY <1>2, BrokerAssumption DEF BrokerInv, GrantsFollow
<1>5. commands[p] = 0 BY <1>2, NoCommandBeforeEntry
<1>6. TypeOK' BY TypesInductive DEF BrokerInv, Next
<1> USE DEF BrokerInv, TypeOK
<1>7. OneCommand' BY <1>1 DEF OneCommand
<1>8. CommandIsAuthorized' BY <1>1, <1>3, <1>5 DEF CommandIsAuthorized
<1>9. GrantsFollow' BY <1>1, <1>3, <1>4 DEF GrantsFollow
<1>10. SpentMeansEntered'
  BY <1>1, <1>3, <1>4 DEF SpentMeansEntered, Settled
<1>11. RecordIsTrue' BY <1>1, <1>3 DEF RecordIsTrue, Settled
<1>12. ReservationFollows'
  BY <1>3 DEF ReservationFollows, Unreserved, AfterEntry, NotEntered, Settled
<1>13. HandlerKnows'
  <2>1. SUFFICES ASSUME phase \notin {"down", "idle"} PROVE HandlerKnows'
    BY <1>1 DEF HandlerKnows
  <2>2. Plan \in Plans /\ Plan' = Plan /\ Plan # p
    BY <1>1, <1>2, <2>1, HandlerPlan, BrokerAssumption DEF Plan
  <2> QED BY <1>1, <1>3, <2>1, <2>2 DEF HandlerKnows, Grant, Plan
<1> QED BY <1>6, <1>7, <1>8, <1>9, <1>10, <1>11, <1>12, <1>13

\* The authorization command line: rows appear for the plan's own reservation,
\* and no row that exists is written again.
LEMMA IssueKeeps ==
  ASSUME BrokerInv, NEW p \in Plans, NEW r \in Reservations,
         CheckBeforeIssue(p, r) \/ Issue(p, r) \/ GrantLapses(p, r)
  PROVE  BrokerInv'
<1>1. UNCHANGED <<status, lapsed, reservation, record, phase, request, result, commands,
                  restarted>>
  BY DEF CheckBeforeIssue, Issue, GrantLapses, planVars, brokerVars, worldVars
<1>2. <<p, r>> \in Grants BY DEF Grants
<1>3. \A g \in Grants :
        /\ auth[g] = "consumed" <=> auth'[g] = "consumed"
        /\ auth'[g] # "none" => auth[g] # "none" \/ g \in checked
        /\ g \in checked' => g \in checked \/ (g = <<p, r>> /\ reservation[p] = r)
  BY <1>2 DEF BrokerInv, TypeOK, CheckBeforeIssue, Executable, Issue, GrantLapses
<1>4. TypeOK' BY TypesInductive DEF BrokerInv, Next
<1>5. \A q \in Plans, s \in Reservations : <<q, s>> \in Grants BY DEF Grants
<1>6. OneCommand' /\ RecordIsTrue' /\ ReservationFollows'
  BY <1>1 DEF BrokerInv, OneCommand, RecordIsTrue, ReservationFollows
<1>7. CommandIsAuthorized'
  BY <1>1, <1>3, <1>5 DEF BrokerInv, CommandIsAuthorized
<1>8. SpentMeansEntered'
  BY <1>1, <1>3, <1>5 DEF BrokerInv, SpentMeansEntered
<1>9. GrantsFollow'
  BY <1>1, <1>3, <1>5 DEF BrokerInv, GrantsFollow
<1>10. HandlerKnows'
  <2>1. SUFFICES ASSUME phase \notin {"down", "idle"} PROVE HandlerKnows'
    BY <1>1 DEF HandlerKnows
  <2>2. Grant \in Grants /\ Grant' = Grant /\ Plan' = Plan
    BY <1>1, <2>1, HandlerPlan DEF Grants, Grant, Plan
  <2> QED BY <1>1, <1>3, <2>2 DEF BrokerInv, HandlerKnows
<1> QED BY <1>4, <1>6, <1>7, <1>8, <1>9, <1>10 DEF BrokerInv

\* The handler learns that the plan is reserved, so that nothing has run.
LEMMA AcceptKeeps ==
  ASSUME BrokerInv, NEW req \in Requests, Accept(req)
  PROVE  BrokerInv'
<1>1. /\ UNCHANGED <<status, lapsed, reservation, record, checked, auth, stale, result,
                     commands, restarted>>
      /\ phase' = "checked" /\ request' = req
  BY DEF Accept, planVars, authVars, worldVars
<1>2. /\ req.plan \in Plans /\ req.plan \in Backend
      /\ status[req.plan] = "execution_reserved"
      /\ reservation[req.plan] = req.reservation
  BY DEF Accept, Executable, Requests
<1>3. commands[req.plan] = 0
  <2>1. ~record[req.plan].entered
    BY <1>2 DEF BrokerInv, ReservationFollows, AfterEntry, Settled
  <2> QED BY <1>2, <2>1, NoCommandBeforeEntry
<1>4. TypeOK' BY TypesInductive DEF BrokerInv, Next
<1>5. OneCommand' /\ CommandIsAuthorized' /\ GrantsFollow' /\ SpentMeansEntered'
  BY <1>1 DEF BrokerInv, OneCommand, CommandIsAuthorized, GrantsFollow, SpentMeansEntered
<1>6. RecordIsTrue' /\ ReservationFollows'
  BY <1>1 DEF BrokerInv, RecordIsTrue, ReservationFollows
<1>7. HandlerKnows' BY <1>1, <1>2, <1>3 DEF HandlerKnows, Plan
<1> QED BY <1>4, <1>5, <1>6, <1>7 DEF BrokerInv

Stores ==
  /\ OneCommand /\ CommandIsAuthorized /\ SpentMeansEntered
  /\ RecordIsTrue /\ ReservationFollows /\ GrantsFollow

\* A compare-and-set of the handler, whether or not it took place.
LEMMA WriteKeeps ==
  ASSUME BrokerInv, phase \notin {"down", "idle"},
         UNCHANGED <<reservation, checked, auth, commands, restarted>>,
         NEW from, NEW to \in {"executing"} \cup Settled, NEW rec \in Records,
         Moved(from, to, rec) \/ NotMoved(from),
         rec.entered,
         to \in Settled => /\ rec.attempted = "no" => commands[Plan] = 0
                           /\ rec.performed = "yes" => Plan \in restarted
  PROVE  Stores'
<1> USE DEF BrokerInv
<1>1. Plan \in Plans BY HandlerPlan
<1>2. \A p \in Plans :
        \/ status'[p] = status[p] /\ record'[p] = record[p]
        \/ p = Plan /\ status'[p] = to /\ record'[p] = rec
  BY <1>1 DEF Moved, NotMoved, TypeOK
<1>3. OneCommand' /\ CommandIsAuthorized' /\ GrantsFollow'
  BY DEF OneCommand, CommandIsAuthorized, GrantsFollow
<1>4. SpentMeansEntered' BY <1>2 DEF SpentMeansEntered
<1>5. RecordIsTrue'
  <2>1. SUFFICES ASSUME NEW p \in Plans, status'[p] \in Settled
        PROVE  /\ record'[p].attempted = "no" => commands'[p] = 0
               /\ record'[p].performed = "yes" => p \in restarted'
    BY DEF RecordIsTrue
  <2>2. CASE status'[p] = status[p] /\ record'[p] = record[p]
    BY <2>1, <2>2 DEF RecordIsTrue
  <2>3. CASE p = Plan /\ status'[p] = to /\ record'[p] = rec
    <3>1. to \in Settled /\ commands'[p] = commands[Plan] /\ restarted' = restarted
      BY <2>1, <2>3
    <3>2. rec.attempted = "no" => commands'[p] = 0 BY <3>1
    <3>3. rec.performed = "yes" => p \in restarted' BY <2>3, <3>1
    <3> QED BY <2>3, <3>2, <3>3
  <2> QED BY <1>2, <2>2, <2>3
<1>6. ReservationFollows'
  <2>1. to \notin Unreserved BY DEF Unreserved, Settled
  <2>2. to \in AfterEntry BY DEF AfterEntry
  <2> QED BY <1>2, <2>1, <2>2 DEF ReservationFollows
<1> QED BY <1>3, <1>4, <1>5, <1>6 DEF Stores

\* The plan is entered before anything irrevocable happens.
LEMMA BeginKeeps == ASSUME BrokerInv, Begin PROVE BrokerInv'
<1>1. /\ phase = "checked"
      /\ UNCHANGED <<lapsed, reservation, checked, auth, stale, commands, restarted>>
  BY DEF Begin, authVars, worldVars
<1>2. TypeOK' BY TypesInductive DEF BrokerInv, Next, Handler
<1>3. Stores'
  BY <1>1, WriteKeeps, EnteredIsRecord DEF Begin, Entered, Settled, Said
<1>4. HandlerKnows'
  <2>1. CASE Idle BY <2>1, IdleKnows
  <2>2. CASE /\ Moved("execution_reserved", "executing", Entered("no", "no"))
             /\ phase' = "begun" /\ UNCHANGED <<request, result>>
    <3>1. Plan \in Plans /\ Plan' = Plan BY <1>1, <2>2, HandlerPlan DEF Plan
    <3>2. status'[Plan] = "executing" /\ record'[Plan] = Entered("no", "no")
      BY <2>2, <3>1 DEF Moved, BrokerInv, TypeOK
    <3> QED BY <1>1, <2>2, <3>1, <3>2 DEF BrokerInv, HandlerKnows, Plan
  <2> QED BY <2>1, <2>2 DEF Begin
<1> QED BY <1>2, <1>3, <1>4 DEF BrokerInv, Stores

\* Spending the authorization of a plan whose execution is entered.
LEMMA ConsumeKeeps == ASSUME BrokerInv, Consume PROVE BrokerInv'
<1>1. /\ phase = "begun" /\ phase' \in {"refused", "authorized"}
      /\ UNCHANGED <<status, lapsed, reservation, record, checked, stale, request, result,
                     commands, restarted>>
  BY DEF Consume, planVars, worldVars
<1>2. Plan \in Plans /\ Grant \in Grants /\ Grant = <<Plan, reservation[Plan]>>
      /\ reservation[Plan] = request.reservation /\ Plan' = Plan /\ Grant' = Grant
  BY <1>1, HandlerPlan DEF Grants, Grant, Plan
<1>3. \A g \in Grants :
        /\ auth[g] = "consumed" => auth'[g] = "consumed"
        /\ g # Grant => auth'[g] = auth[g]
  BY <1>2 DEF Consume, Consumed, BrokerInv, TypeOK
<1>4. phase' = "authorized" => auth'[Grant] = "consumed"
  BY <1>2 DEF Consume, Consumed, Allowed, BrokerInv, TypeOK
<1>5. record[Plan].entered /\ status[Plan] \in {"executing", "expired"}
  BY <1>1 DEF BrokerInv, HandlerKnows, Entered
<1>6. \A q \in Plans, s \in Reservations : <<q, s>> \in Grants BY DEF Grants
<1>7. TypeOK' BY TypesInductive DEF BrokerInv, Next, Handler
<1>8. OneCommand' /\ RecordIsTrue' /\ ReservationFollows'
  BY <1>1 DEF BrokerInv, OneCommand, RecordIsTrue, ReservationFollows
<1>9. CommandIsAuthorized'
  BY <1>1, <1>3, <1>6 DEF BrokerInv, CommandIsAuthorized
<1>10. \A q \in Plans, s \in Reservations : <<q, s>> = Grant => q = Plan /\ s = reservation[Plan]
  BY <1>2
<1>11. SpentMeansEntered'
  BY <1>1, <1>3, <1>5, <1>6, <1>10 DEF BrokerInv, SpentMeansEntered
<1>12. GrantsFollow'
  BY <1>1, <1>3, <1>6, <1>10 DEF BrokerInv, GrantsFollow
<1>13. HandlerKnows'
  BY <1>1, <1>2, <1>4 DEF BrokerInv, HandlerKnows
<1> QED BY <1>7, <1>8, <1>9, <1>11, <1>12, <1>13 DEF BrokerInv

LEMMA ReviewKeeps == ASSUME BrokerInv, Review PROVE BrokerInv'
<1>1. /\ phase = "refused"
      /\ UNCHANGED <<lapsed, reservation, checked, auth, stale, commands, restarted>>
      /\ Idle
  BY DEF Review, authVars, worldVars
<1>2. commands[Plan] = 0 BY <1>1 DEF BrokerInv, HandlerKnows
<1>3. TypeOK' BY TypesInductive DEF BrokerInv, Next, Handler
<1>4. Stores'
  BY <1>1, <1>2, WriteKeeps, EnteredIsRecord DEF Review, Entered, Settled, Said
<1> QED BY <1>1, <1>3, <1>4, IdleKnows DEF BrokerInv, Stores

\* The command: the only step that runs anything, on a spent authorization.
LEMMA CommandKeeps == ASSUME BrokerInv, Command PROVE BrokerInv'
<1>1. /\ phase = "authorized" /\ phase' = "running" /\ ~request.dry
      /\ UNCHANGED <<status, lapsed, reservation, record, checked, auth, stale, request,
                     result, restarted>>
      /\ commands' = [commands EXCEPT ![Plan] = @ + 1]
  BY DEF Command, planVars, authVars
<1>2. /\ Plan \in Plans /\ Plan' = Plan /\ Plan \in Backend
      /\ reservation[Plan] \in Reservations
      /\ Grant = <<Plan, reservation[Plan]>> /\ auth[Grant] = "consumed"
      /\ commands[Plan] = 0 /\ status[Plan] \in {"executing", "expired"}
  BY <1>1, HandlerPlan DEF BrokerInv, HandlerKnows, Grant, Plan
<1>3. commands'[Plan] = 1 /\ \A p \in Plans : p # Plan => commands'[p] = commands[p]
  BY <1>1, <1>2 DEF BrokerInv, TypeOK
<1>4. TypeOK' BY TypesInductive DEF BrokerInv, Next, Handler
<1>5. OneCommand' BY <1>3 DEF BrokerInv, OneCommand
<1>6. CommandIsAuthorized'
  BY <1>1, <1>2, <1>3 DEF BrokerInv, CommandIsAuthorized
<1>7. SpentMeansEntered' /\ ReservationFollows' /\ GrantsFollow'
  BY <1>1 DEF BrokerInv, SpentMeansEntered, ReservationFollows, GrantsFollow
<1>8. RecordIsTrue'
  BY <1>1, <1>2, <1>3 DEF BrokerInv, RecordIsTrue, Settled
<1>9. HandlerKnows'
  BY <1>1, <1>2, <1>3 DEF BrokerInv, HandlerKnows
<1> QED BY <1>4, <1>5, <1>6, <1>7, <1>8, <1>9 DEF BrokerInv

LEMMA ReturnKeeps == ASSUME BrokerInv, CommandReturns PROVE BrokerInv'
<1>1. /\ phase = "running" /\ phase' = "returned" /\ result' # "none"
      /\ result' # "not_performed" => Plan \in restarted
      /\ UNCHANGED <<status, lapsed, reservation, record, checked, auth, stale, request,
                     commands, restarted>>
  BY DEF CommandReturns, Verdicts, AfterCommand, planVars, authVars, worldVars
<1>2. TypeOK' BY TypesInductive DEF BrokerInv, Next, Handler
<1>3. OneCommand' /\ CommandIsAuthorized' /\ SpentMeansEntered'
  BY <1>1 DEF BrokerInv, OneCommand, CommandIsAuthorized, SpentMeansEntered
<1>4. RecordIsTrue' /\ ReservationFollows' /\ GrantsFollow'
  BY <1>1 DEF BrokerInv, RecordIsTrue, ReservationFollows, GrantsFollow
<1>5. HandlerKnows'
  BY <1>1 DEF BrokerInv, HandlerKnows, Plan
<1> QED BY <1>2, <1>3, <1>4, <1>5 DEF BrokerInv

LEMMA CompleteKeeps == ASSUME BrokerInv, Complete PROVE BrokerInv'
<1>1. /\ phase \in {"returned", "authorized"} /\ (phase = "authorized" => request.dry)
      /\ UNCHANGED <<lapsed, reservation, checked, auth, stale, commands, restarted>>
      /\ Idle
  BY DEF Complete, authVars, worldVars
<1>2. /\ phase = "authorized" => commands[Plan] = 0
      /\ phase = "returned" => /\ ~request.dry
                               /\ result # "not_performed" => Plan \in restarted
  BY <1>1 DEF BrokerInv, HandlerKnows
<1>3. Report \in Records /\ Outcome \in Settled
  BY EnteredIsRecord DEF Report, Outcome, Said, Settled
<1>4. /\ Report.entered
      /\ Report.attempted = "no" => commands[Plan] = 0
      /\ Report.performed = "yes" => Plan \in restarted
  BY <1>1, <1>2 DEF Report, Entered
<1>5. TypeOK' BY TypesInductive DEF BrokerInv, Next, Handler
<1>6. Stores' BY <1>1, <1>3, <1>4, WriteKeeps DEF Complete
<1> QED BY <1>1, <1>5, <1>6, IdleKnows DEF BrokerInv, Stores

LEMMA CrashKeeps == ASSUME BrokerInv, Crash PROVE BrokerInv'
<1>1. TypeOK' BY TypesInductive DEF BrokerInv, Next
<1>2. HandlerKnows' BY DEF Crash, HandlerKnows
<1> QED
  BY <1>1, <1>2
  DEF Crash, BrokerInv, planVars, authVars, worldVars, OneCommand, CommandIsAuthorized,
      SpentMeansEntered, RecordIsTrue, ReservationFollows, GrantsFollow

\* Recovery says of an interrupted execution that nothing is known.
LEMMA StartKeeps == ASSUME BrokerInv, Start PROVE BrokerInv'
<1>1. /\ UNCHANGED <<lapsed, reservation, checked, auth, stale, commands, restarted>>
      /\ Idle
  BY DEF Start, RecoverInterrupted, authVars, worldVars
<1>2. \A p \in Plans :
        \/ status'[p] = status[p] /\ record'[p] = record[p]
        \/ /\ status[p] = "executing" /\ status'[p] = "manual_review"
           /\ record'[p] = Entered("unknown", "unknown")
  BY DEF Start, RecoverInterrupted, Interrupted
<1>3. TypeOK' BY TypesInductive DEF BrokerInv, Next
<1>4. OneCommand' /\ CommandIsAuthorized' /\ GrantsFollow'
  BY <1>1 DEF BrokerInv, OneCommand, CommandIsAuthorized, GrantsFollow
<1>5. SpentMeansEntered'
  BY <1>1, <1>2 DEF BrokerInv, SpentMeansEntered, Entered, Settled
<1>6. RecordIsTrue' BY <1>1, <1>2 DEF BrokerInv, RecordIsTrue, Entered
<1>7. ReservationFollows'
  BY <1>1, <1>2 DEF BrokerInv, ReservationFollows, Unreserved, AfterEntry, Settled
<1> QED BY <1>1, <1>3, <1>4, <1>5, <1>6, <1>7, IdleKnows DEF BrokerInv

LEMMA BrokerInductive == ASSUME BrokerInv, [Next]_vars PROVE BrokerInv'
<1>1. CASE UNCHANGED vars
  <2>1. TypeOK' BY TypesInductive DEF BrokerInv
  <2>2. HandlerKnows'
    BY <1>1 DEF BrokerInv, HandlerKnows, vars, planVars, authVars, brokerVars, worldVars,
       Plan, Grant
  <2> QED
    BY <1>1, <2>1, <2>2
    DEF BrokerInv, vars, planVars, authVars, brokerVars, worldVars, OneCommand,
        CommandIsAuthorized, SpentMeansEntered, RecordIsTrue, ReservationFollows,
        GrantsFollow
<1>2. CASE Handler
  BY <1>2, BeginKeeps, ConsumeKeeps, ReviewKeeps, CommandKeeps, ReturnKeeps, CompleteKeeps
  DEF Handler
<1>3. CASE Next
  BY <1>2, <1>3, OwnersKeep, WorldKeeps, ReserveKeeps, IssueKeeps, AcceptKeeps, CrashKeeps,
     StartKeeps
  DEF Next
<1> QED BY <1>1, <1>3

THEOREM BrokerInvariant == Spec => []BrokerInv
  BY BrokerInitially, BrokerInductive, PTL DEF Spec

\* No plan is executed twice.
THEOREM NoSecondCommand == Spec => []OneCommand
<1>1. BrokerInv => OneCommand BY DEF BrokerInv
<1> QED BY BrokerInvariant, <1>1, PTL

\* Nothing runs without a reservation and its own spent authorization.
THEOREM CommandsAreAuthorized == Spec => []CommandIsAuthorized
<1>1. BrokerInv => CommandIsAuthorized BY DEF BrokerInv
<1> QED BY BrokerInvariant, <1>1, PTL

\* An authorization is spent on an execution that is on record.
THEOREM SpendingIsRecorded == Spec => []SpentMeansEntered
<1>1. BrokerInv => SpentMeansEntered BY DEF BrokerInv
<1> QED BY BrokerInvariant, <1>1, PTL

\* The three together: an authorization is used once, by the plan it is for.
THEOREM AuthorizationsAreUsedOnce == Spec => []AuthorizedOnce
<1>1. TypeOK /\ OneCommand /\ CommandIsAuthorized /\ SpentMeansEntered => AuthorizedOnce
  BY DEF AuthorizedOnce
<1> QED
  BY <1>1, BrokerTypeCorrectness, NoSecondCommand, CommandsAreAuthorized,
     SpendingIsRecorded, PTL

\* A settled record makes no false claim about the command.
THEOREM RecordsAreTrue == Spec => []RecordIsTrue
<1>1. BrokerInv => RecordIsTrue BY DEF BrokerInv
<1> QED BY BrokerInvariant, <1>1, PTL

\* With a database that is never too busy, an executing plan has its handler, or
\* the recovery of the next start still to come.
LEMMA OwnershipStep ==
  ASSUME "busy" \notin Faults, BrokerInv, ExecutingIsOwned, [Next]_vars
  PROVE  ExecutingIsOwned'
<1> USE DEF BrokerInv, TypeOK, ExecutingIsOwned
<1>1. ASSUME \A p \in Plans : status'[p] = "executing" => status[p] = "executing",
             UNCHANGED <<phase, request>>
      PROVE  ExecutingIsOwned'
  BY <1>1 DEF Plan
<1>2. ASSUME NEW q \in Plans,
             CreatePlan(q) \/ Approve(q) \/ DeadlinePasses(q) \/ SystemdRestarts(q)
      PROVE  ExecutingIsOwned'
  <2>1. \A p \in Plans : status'[p] = "executing" => status[p] = "executing"
    BY <1>2 DEF CreatePlan, Approve, Approved, DeadlinePasses, SystemdRestarts, planVars
  <2>2. UNCHANGED <<phase, request>>
    BY <1>2 DEF CreatePlan, Approve, DeadlinePasses, SystemdRestarts, brokerVars
  <2> QED BY <1>1, <2>1, <2>2
<1>3. ASSUME NEW q \in Plans, NEW r \in Reservations,
             \/ Reserve(q, r) \/ CheckBeforeIssue(q, r) \/ Issue(q, r) \/ GrantLapses(q, r)
      PROVE  ExecutingIsOwned'
  <2>1. \A p \in Plans : status'[p] = "executing" => status[p] = "executing"
    BY <1>3 DEF Reserve, Reservable, CheckBeforeIssue, Issue, GrantLapses, planVars
  <2>2. UNCHANGED <<phase, request>>
    BY <1>3 DEF Reserve, Reservable, CheckBeforeIssue, Issue, GrantLapses, brokerVars
  <2> QED BY <1>1, <2>1, <2>2
<1>4. ASSUME NEW req \in Requests, Accept(req) PROVE ExecutingIsOwned'
  BY <1>4 DEF Accept, planVars
<1>5. ASSUME phase \notin {"down", "idle"} PROVE Plan \in Plans /\ CanMove(status[Plan])
  BY <1>5, HandlerPlan DEF CanMove
<1>6. CASE Begin
  <2>1. CASE NotMoved("execution_reserved") /\ Idle
    BY <1>6, <2>1 DEF Begin, NotMoved, Idle
  <2>2. CASE /\ Moved("execution_reserved", "executing", Entered("no", "no"))
             /\ phase' = "begun" /\ UNCHANGED <<request, result>>
    BY <1>6, <2>2 DEF Begin, Moved, Plan
  <2> QED BY <1>6, <2>1, <2>2 DEF Begin
<1>7. ASSUME Review \/ Complete PROVE ExecutingIsOwned'
  <2>1. phase \notin {"down", "idle"} BY <1>7 DEF Review, Complete
  <2>2. Outcome # "executing" BY DEF Outcome
  <2>3. status'[Plan] # "executing"
    BY <1>5, <1>7, <2>1, <2>2 DEF Review, Complete, Moved, NotMoved, Busy, CanMove
  <2>4. \A p \in Plans : p # Plan => status'[p] = status[p]
    BY <1>7 DEF Review, Complete, Moved, NotMoved
  <2> QED BY <2>1, <2>3, <2>4
<1>8. CASE Consume \/ Command \/ CommandReturns
  <2>1. /\ UNCHANGED <<status, request>>
        /\ phase' \in {"authorized", "refused", "running", "returned"}
        /\ phase \in {"begun", "authorized", "running"}
    BY <1>8 DEF Consume, Command, CommandReturns, Verdicts, AfterCommand, planVars
  <2> QED BY <2>1 DEF Plan
<1>9. CASE Crash BY <1>9 DEF Crash
<1>10. CASE Start BY <1>10 DEF Start, RecoverInterrupted, Interrupted
<1>11. CASE UNCHANGED vars
  BY <1>1, <1>11 DEF vars, planVars, brokerVars
<1> QED
  BY <1>2, <1>3, <1>4, <1>6, <1>7, <1>8, <1>9, <1>10, <1>11 DEF Next, Handler

\* No plan is left executing behind a broker that is up.
THEOREM ExecutingHasOwner ==
  ASSUME "busy" \notin Faults
  PROVE  Spec => []ExecutingIsOwned
<1>1. Init => ExecutingIsOwned BY DEF Init, ExecutingIsOwned
<1> QED BY <1>1, OwnershipStep, BrokerInvariant, PTL DEF Spec

-------------------------------------------------------------------------------
(* What the steps may not do.                                              *)

\* What may become of a settled plan.
Stays(p) ==
  \/ UNCHANGED <<status[p], record[p]>>
  \/ status'[p] = "expired" /\ p \in lapsed /\ record'[p] = record[p]

\* A settled plan only expires.
THEOREM SettledPlansStay == Spec => SettledOnlyExpires
<1>1. ASSUME TypeOK, [Next]_vars
      PROVE  [\A p \in Plans : status[p] \in Settled =>
                \/ UNCHANGED <<status[p], record[p]>>
                \/ status'[p] = "expired" /\ p \in lapsed /\ record'[p] = record[p]]_vars
  <2>1. SUFFICES ASSUME Next, NEW p \in Plans, status[p] \in Settled PROVE Stays(p)
    BY <1>1 DEF Stays
  <2> USE <1>1, <2>1 DEF TypeOK, Settled, planVars, Stays
  <2>2. ASSUME NEW q \in Plans, CreatePlan(q) \/ Approve(q) PROVE Stays(p)
    BY <2>2 DEF CreatePlan, Approve, Approved
  <2>3. ASSUME NEW q \in Plans, NEW r \in Reservations, Reserve(q, r) PROVE Stays(p)
    BY <2>3 DEF Reserve, Reservable
  <2>4. ASSUME NEW from \in {"execution_reserved", "executing"}, NEW to, NEW rec,
               Moved(from, to, rec) \/ NotMoved(from)
        PROVE  UNCHANGED <<status[p], record[p]>>
    BY <2>4 DEF Moved, NotMoved, CanMove
  <2>5. CASE Begin \/ Review \/ Complete BY <2>4, <2>5 DEF Begin, Review, Complete
  <2>6. CASE Start BY <2>6 DEF Start, RecoverInterrupted, Interrupted
  <2>7. CASE UNCHANGED <<status, record>> BY <2>7
  <2> QED
    BY <2>2, <2>3, <2>5, <2>6, <2>7
    DEF Next, Handler, Consume, Command, CommandReturns, Verdicts, Crash, Accept,
         CheckBeforeIssue,
        Issue, GrantLapses, DeadlinePasses, SystemdRestarts
<1> QED BY <1>1, BrokerTypeCorrectness, PTL DEF Spec, SettledOnlyExpires

-------------------------------------------------------------------------------
(* The broker implements the single-use grant.                             *)

Stage == [p \in Plans |-> GrantStage(p)]
Used == {p \in Plans : commands[p] > 0}

\* A row written for one plan leaves the rows of the others alone.
LEMMA OtherGrants ==
  ASSUME TypeOK, NEW p \in Plans, NEW r, NEW a, auth' = [auth EXCEPT ![<<p, r>>] = a],
         NEW q \in Plans, q # p, reservation[q] # NoReservation
  PROVE  auth'[<<q, reservation[q]>>] = auth[<<q, reservation[q]>>]
<1>1. <<q, reservation[q]>> \in Grants BY DEF TypeOK, Grants
<1>2. <<q, reservation[q]>> # <<p, r>> OBVIOUS
<1> QED BY <1>1, <1>2 DEF TypeOK

LEMMA GrantStep ==
  ASSUME BrokerInv, [Next]_vars
  PROVE  [SingleUse!Next]_<<Stage, Used>>
<1> USE DEF BrokerInv
<1>1. ASSUME UNCHANGED <<reservation, auth, commands>> PROVE UNCHANGED <<Stage, Used>>
  BY <1>1 DEF Stage, Used, GrantStage
<1>2. ASSUME NEW p \in Plans, NEW r \in Reservations, Reserve(p, r)
      PROVE  UNCHANGED <<Stage, Used>>
  <2>1. reservation[p] = NoReservation
    BY <1>2 DEF Reserve, Reservable, ReservationFollows, Unreserved
  <2>2. auth[<<p, r>>] = "none" BY <2>1, BrokerAssumption DEF GrantsFollow
  <2>3. UNCHANGED <<auth, commands>> BY <1>2 DEF Reserve, Reservable, authVars, worldVars
  <2>4. reservation' = [reservation EXCEPT ![p] = r] BY <1>2 DEF Reserve, Reservable
  <2>5. GrantStage(p) = "none" /\ GrantStage(p)' = "none"
    <3>1. reservation'[p] = r /\ r # NoReservation BY <2>4, BrokerAssumption DEF TypeOK
    <3> QED BY <2>1, <2>2, <2>3, <3>1 DEF GrantStage, StageOf
  <2>6. \A q \in Plans : q # p => GrantStage(q)' = GrantStage(q)
    BY <2>3, <2>4 DEF GrantStage, TypeOK
  <2> QED BY <2>3, <2>5, <2>6 DEF Stage, Used
<1>3. ASSUME NEW p \in Plans, NEW r \in Reservations, Issue(p, r)
      PROVE  [SingleUse!Next]_<<Stage, Used>>
  <2>1. UNCHANGED <<reservation, commands>> BY <1>3 DEF Issue, planVars, worldVars
  <2>2. CASE auth[<<p, r>>] # "none" BY <1>1, <1>3, <2>1, <2>2 DEF Issue
  <2>3. CASE auth[<<p, r>>] = "none"
    <3>1. reservation[p] = r BY <1>3 DEF Issue, GrantsFollow
    <3>2. auth' = [auth EXCEPT ![<<p, r>>] = "pending"] BY <1>3, <2>3 DEF Issue
    <3>3. <<p, r>> \in Grants BY DEF Grants
    <3>4. GrantStage(p) = "none" /\ GrantStage(p)' = "granted"
      BY <2>1, <2>3, <3>1, <3>2, <3>3, BrokerAssumption DEF GrantStage, StageOf, TypeOK
    <3>5. ASSUME NEW q \in Plans, q # p PROVE GrantStage(q)' = GrantStage(q)
      BY <2>1, <3>2, <3>5, OtherGrants DEF GrantStage, TypeOK
    <3>6. Stage' = [Stage EXCEPT ![p] = "granted"] BY <3>4, <3>5 DEF Stage
    <3>7. SingleUse!Grant(p)
      BY <2>1, <3>4, <3>6 DEF SingleUse!Grant, SingleUse!Move, Stage, Used
    <3> QED BY <3>7 DEF SingleUse!Next
  <2> QED BY <2>2, <2>3
<1>4. ASSUME Consume PROVE [SingleUse!Next]_<<Stage, Used>>
  <2>1. UNCHANGED <<reservation, commands>> BY <1>4 DEF Consume, planVars, worldVars
  <2>2. PICK p \in Plans : /\ Grant \in Grants /\ Grant = <<p, reservation[p]>>
                           /\ reservation[p] # NoReservation
    BY <1>4, HandlerPlan, BrokerAssumption DEF Consume, Grants, Grant, Plan
  <2>3. CASE auth' = auth BY <1>1, <2>1, <2>3
  <2>4. CASE auth[Grant] = "pending" /\ auth' = [auth EXCEPT ![Grant] = Consumed(Grant)]
    <3>1. PICK s \in {"consumed", "expired"} : auth' = [auth EXCEPT ![Grant] = s]
      BY <2>4 DEF Consumed
    <3> DEFINE t == IF s = "consumed" THEN "spent" ELSE "void"
    <3>2. GrantStage(p) = "granted"
      BY <2>2, <2>4 DEF GrantStage, StageOf
    <3>3. /\ reservation' = reservation
          /\ auth'[<<p, reservation[p]>>] = s
      BY <2>1, <2>2, <3>1 DEF TypeOK
    <3>4. GrantStage(p)' = t BY <2>2, <3>3 DEF GrantStage, StageOf
    <3>5. ASSUME NEW q \in Plans, q # p PROVE GrantStage(q)' = GrantStage(q)
      BY <2>1, <2>2, <3>1, <3>5, OtherGrants DEF GrantStage, TypeOK
    <3>6. Stage' = [Stage EXCEPT ![p] = t] BY <2>2, <3>4, <3>5 DEF Stage
    <3>7. SingleUse!Spend(p) \/ SingleUse!Lapse(p)
      BY <2>1, <2>2, <3>2, <3>6
      DEF SingleUse!Spend, SingleUse!Lapse, SingleUse!Move, Stage, Used
    <3> QED BY <2>2, <3>7 DEF SingleUse!Next
  <2> QED BY <1>4, <2>2, <2>3, <2>4 DEF Consume, Consumed, TypeOK
<1>5. ASSUME Command PROVE SingleUse!Next
  <2>1. UNCHANGED <<reservation, auth>> BY <1>5 DEF Command, planVars, authVars
  <2>2. PICK p \in Plans : /\ p = Plan /\ Grant = <<p, reservation[p]>>
                           /\ reservation[p] # NoReservation
                           /\ auth[Grant] = "consumed" /\ commands[p] = 0
    BY <1>5, HandlerPlan, BrokerAssumption DEF Command, HandlerKnows, Grant, Plan
  <2>3. commands' = [commands EXCEPT ![p] = @ + 1] BY <1>5, <2>2 DEF Command
  <2>4. GrantStage(p) = "spent" BY <2>2 DEF GrantStage, StageOf
  <2>5. Stage' = Stage BY <2>1 DEF Stage, GrantStage
  <2>6. p \notin Used /\ Used' = Used \cup {p}
    <3>1. commands'[p] = 1 BY <2>2, <2>3 DEF TypeOK
    <3>2. \A q \in Plans : q # p => commands'[q] = commands[q]
      BY <2>3 DEF TypeOK
    <3> QED BY <2>2, <3>1, <3>2 DEF Used
  <2>7. SingleUse!Use(p) BY <2>2, <2>4, <2>5, <2>6 DEF SingleUse!Use, Stage, Used
  <2> QED BY <2>2, <2>7 DEF SingleUse!Next
<1>6. CASE UNCHANGED vars
  BY <1>1, <1>6 DEF vars, planVars, authVars, worldVars
<1>7. CASE \E p \in Plans :
             CreatePlan(p) \/ Approve(p) \/ DeadlinePasses(p) \/ SystemdRestarts(p)
  BY <1>1, <1>7
  DEF CreatePlan, Approve, DeadlinePasses, SystemdRestarts, planVars, authVars, worldVars
<1>8. CASE \E p \in Plans, r \in Reservations : CheckBeforeIssue(p, r) \/ GrantLapses(p, r)
  BY <1>1, <1>8 DEF CheckBeforeIssue, GrantLapses, planVars, worldVars
<1>9. CASE \/ \E req \in Requests : Accept(req)
           \/ Begin \/ Review \/ CommandReturns \/ Complete \/ Crash \/ Start
  BY <1>1, <1>9
  DEF Accept, Begin, Review, CommandReturns, Verdicts, Complete, Crash, Start, RecoverInterrupted,
     planVars, authVars,
      worldVars
<1> QED
  BY <1>2, <1>3, <1>4, <1>5, <1>6, <1>7, <1>8, <1>9 DEF Next, Handler

\* From outside, an authorization is granted once, spent or void, and used once.
THEOREM BrokerIsSingleUse == Spec => RefinesSingleUse
<1>1. Init => SingleUse!Init
  <2> SUFFICES ASSUME Init PROVE SingleUse!Init OBVIOUS
  <2>1. Stage = [p \in Plans |-> "none"] BY DEF Init, Stage, GrantStage
  <2>2. Used = {} BY DEF Init, Used
  <2> QED BY <2>1, <2>2 DEF SingleUse!Init, Stage, Used
<1>2. ASSUME BrokerInv, [Next]_vars PROVE [SingleUse!Next]_<<Stage, Used>>
  BY <1>2, GrantStep
<1> QED
  BY <1>1, <1>2, BrokerInvariant, PTL
  DEF Spec, RefinesSingleUse, SingleUse!Spec, SingleUse!vars, Stage, Used
===============================================================================
