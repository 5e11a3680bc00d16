------------------------ MODULE TelegramApprovalsProofs ------------------------
(***************************************************************************)
(* Proofs about TelegramApprovals, for any number of updates, any limit    *)
(* and any faults.                                                         *)
(*                                                                         *)
(* ChannelInv is the inductive invariant.  To the types it adds what ties  *)
(* the chat to the tables (a button is about an earlier update), the       *)
(* worker to the receipt and proposal it works on, and the audit to the    *)
(* updates and to the state of each proposal.  The refinement of           *)
(* TwoStepApproval, at the end, follows from it.                           *)
(***************************************************************************)
EXTENDS TelegramApprovals, SequenceTheorems, TLAPS

Sent == 1 .. Len(inbox)
IsTap(u) == inbox[u].kind \in Callbacks
AnswerKept(u) == receipt[u] \in Answered \/ inbox[u].kind = "unknown"
Deciding == {"replan", "delegate", "approved", "failed"}
Executed == {"processing", "approved", "failed"}

\* A tap is about an update sent before it, as only answers that were shown have
\* buttons.
ChatFits ==
  /\ shown \subseteq Sent
  /\ \A u \in Sent : inbox[u].about < u /\ (IsTap(u) => inbox[u].about \in Ids)

\* Between claim and record the receipt is claimed; afterwards the answer is kept.
ReceiptFits ==
  /\ phase \in {"act", "record"} \cup Deciding => receipt[offset] = "claimed"
  /\ phase \in {"reply", "answer"} => AnswerKept(offset)
  /\ phase = "answer" => offset \in shown
  /\ phase = "ack" => \/ offset \in dropped
                      \/ offset \in shown /\ AnswerKept(offset)

\* From the second tap to the end, the proposal is processing.
TapFits ==
  phase \in Deciding => IsTap(offset) /\ proposal[Update.about] = "processing"

\* A row of the audit is a tap that changed a proposal.
AuditFits ==
  \A r \in audit :
    /\ r.update \in Sent /\ r.update <= offset /\ IsTap(r.update)
    /\ r.action = inbox[r.update].kind /\ r.proposal = inbox[r.update].about
    /\ r.outcome \notin {"none", "pending"}
    /\ r.outcome = "processing" => r.action = "confirm"

ApprovedIn(p, rows) == {a \in rows : a.proposal = p /\ a.action = "approve"}
ConfirmedIn(p, rows) == {c \in rows : c.proposal = p /\ c.action = "confirm"}

\* A proposal that waits for its confirmation was approved, and one whose plan
\* was executed was confirmed after that.
StagesTold ==
  \A p \in Ids :
    /\ proposal[p] = "awaiting_confirmation" => ApprovedIn(p, audit) # {}
    /\ proposal[p] \in Executed =>
         \E a \in ApprovedIn(p, audit), c \in ConfirmedIn(p, audit) : a.update < c.update

DelegatedFits == \A p \in delegated : proposal[p] \in Executed

ChannelInv ==
  /\ TypeOK /\ ChatFits /\ ReceiptFits /\ TapFits /\ AckedIsAnswered
  /\ AuditFits /\ StagesTold /\ DelegatedFits /\ AuditTellsOutcome

-------------------------------------------------------------------------------
(* Types.                                                                  *)

LEMMA CurrentUpdate ==
  ASSUME TypeOK, phase # "idle"
  PROVE  offset \in Ids /\ offset \in Sent /\ Update \in Updates
<1>1. offset \in Sent /\ Len(inbox) \in Nat /\ Len(inbox) <= MaxUpdates
  BY TelegramAssumption DEF TypeOK, Sent
<1>2. inbox[offset] \in Updates BY <1>1 DEF TypeOK, Sent
<1> QED BY <1>1, <1>2, TelegramAssumption DEF Ids, Update, Sent

LEMMA CurrentTap ==
  ASSUME TypeOK, ChatFits, phase # "idle", Update.kind \in Callbacks
  PROVE  Update.about \in Ids /\ Update.about < offset
BY CurrentUpdate DEF ChatFits, IsTap, Update

\* What the chat may send next.
Sendable(x) ==
  \/ x.about = 0 /\ x.kind \notin Callbacks
  \/ x.about \in Ids /\ x.kind \in Buttons(x.about)

LEMMA SentGrows ==
  ASSUME TypeOK, Sends
  PROVE  /\ inbox' \in Seq(Updates)
         /\ Len(inbox') = Len(inbox) + 1 /\ Len(inbox') <= MaxUpdates
         /\ \A u \in Sent : inbox'[u] = inbox[u]
         /\ Sendable(inbox'[Len(inbox')])
<1>1. PICK x \in Updates : inbox' = Append(inbox, x) /\ Sendable(x)
  <2>1. CASE \E k \in Messages : inbox' = Append(inbox, [kind |-> k, about |-> 0])
    BY <2>1 DEF Messages, Updates, Callbacks, Sendable
  <2>2. CASE \E p \in Ids : \E k \in Buttons(p) :
                inbox' = Append(inbox, [kind |-> k, about |-> p])
    <3>1. PICK p \in Ids : \E k \in Buttons(p) :
            inbox' = Append(inbox, [kind |-> k, about |-> p])
      BY <2>2
    <3>2. PICK k \in Buttons(p) : inbox' = Append(inbox, [kind |-> k, about |-> p])
      BY <3>1
    <3>3. k \in Callbacks BY <3>2 DEF Buttons, Callbacks
    <3>4. [kind |-> k, about |-> p] \in Updates BY <3>1, <3>3 DEF Updates
    <3>5. Sendable([kind |-> k, about |-> p]) BY <3>1, <3>2 DEF Sendable
    <3> QED BY <3>2, <3>4, <3>5
  <2> QED BY <2>1, <2>2 DEF Sends
<1>2. Len(inbox) \in Nat /\ Len(inbox) < MaxUpdates BY DEF TypeOK, Sends
<1>3. /\ inbox' \in Seq(Updates) /\ Len(inbox') = Len(inbox) + 1
      /\ inbox'[Len(inbox')] = x
      /\ \A u \in Sent : inbox'[u] = inbox[u]
  BY <1>1, <1>2, AppendProperties DEF TypeOK, Sent
<1>4. Len(inbox') <= MaxUpdates BY <1>2, <1>3, TelegramAssumption
<1> QED BY <1>1, <1>3, <1>4

LEMMA TypesInitially == Init => TypeOK
<1> SUFFICES ASSUME Init PROVE TypeOK OBVIOUS
<1>1. /\ inbox \in Seq(Updates) /\ Len(inbox) <= MaxUpdates
      /\ offset \in 1 .. Len(inbox) + 1
  BY TelegramAssumption DEF Init
<1>2. recent \in [Buckets -> 0 .. Limit] BY TelegramAssumption DEF Init
<1>3. proposal \in [Ids -> ProposalStates] BY DEF Init, ProposalStates
<1> QED BY <1>1, <1>2, <1>3 DEF Init, TypeOK, Phases, Responses

\* A tap leaves a proposal in a state of a proposal.
LEMMA TappedType ==
  ASSUME TypeOK, NEW p \in Ids, NEW action, NEW lapsed \in BOOLEAN
  PROVE  Tapped(p, action, lapsed) \in ProposalStates
<1>1. proposal[p] \in ProposalStates BY DEF TypeOK
<1> QED BY <1>1 DEF Tapped, ProposalStates, Open, Closed

LEMMA AuditToldType ==
  ASSUME TypeOK, NEW p, NEW outcome \in ProposalStates
  PROVE  AuditTold(p, outcome) \in SUBSET AuditRows
<1> SUFFICES ASSUME NEW r \in audit
             PROVE  /\ r \in AuditRows
                    /\ [r EXCEPT !.outcome = outcome] \in AuditRows
  BY DEF AuditTold
<1>1. r \in AuditRows BY DEF TypeOK
<1> QED BY <1>1 DEF AuditRows

LEMMA RowType ==
  ASSUME offset \in Ids, Update.kind \in Callbacks,
         NEW p \in Ids, NEW outcome \in ProposalStates
  PROVE  Row(p, outcome) \in AuditRows
BY DEF Row, AuditRows

LEMMA TypesInductive ==
  ASSUME TypeOK, ChatFits, TapFits, [Next]_vars
  PROVE  TypeOK'
<1> USE DEF stored, world, worker
<1>0. phase # "idle" => offset \in Ids /\ offset \in Sent BY CurrentUpdate
<1>1. CASE Sends
  <2>1. offset' \in 1 .. Len(inbox') + 1
    <3>1. Len(inbox) \in Nat /\ Len(inbox') = Len(inbox) + 1 BY <1>1, SentGrows DEF TypeOK
    <3> QED BY <1>1, <3>1 DEF TypeOK, Sends
  <2>2. phase # "idle" => offset <= Len(inbox')
    BY <1>1, SentGrows DEF TypeOK
  <2> QED BY <1>1, SentGrows, <2>1, <2>2 DEF TypeOK, Sends
<1>2. ASSUME NEW b \in Buckets, WindowMoves(b) PROVE TypeOK'
  <2>1. recent' \in [Buckets -> 0 .. Limit]
    BY <1>2, TelegramAssumption DEF WindowMoves, TypeOK
  <2> QED BY <1>2, <2>1 DEF TypeOK, WindowMoves
<1>3. CASE Admit
  <2>1. Bucket \in Buckets BY DEF Bucket, Buckets
  <2>2. recent' \in [Buckets -> 0 .. Limit]
    BY <1>3, <2>1, TelegramAssumption DEF Admit, TypeOK
  <2> QED BY <1>3, <2>2 DEF TypeOK, Admit, Step, Phases
<1>4. CASE Drop
  BY <1>4, <1>0 DEF TypeOK, Drop, Step, Acknowledged, Phases
<1>5. CASE Claim
  BY <1>5, <1>0 DEF TypeOK, Claim, Step, Phases
<1>6. CASE Command
  BY <1>6, <1>0 DEF TypeOK, Command, Proposed, Responds, Step, Phases, Responses,
     ProposalStates, Open
<1>7. CASE Decide
  <2>1. phase = "act" /\ Update.kind \in Callbacks BY <1>7 DEF Decide
  <2>2. Update.about \in Ids BY <2>1, CurrentTap
  <2>3. CASE Responds("plain") /\ UNCHANGED <<proposal, audit>>
    BY <1>7, <2>3 DEF TypeOK, Decide, Responds, Step, Phases, Responses
  <2>4. ASSUME NEW lapsed \in BOOLEAN, NEW s,
               s = Tapped(Update.about, Update.kind, lapsed),
               proposal' = [proposal EXCEPT ![Update.about] = s],
               audit' = IF s = proposal[Update.about] THEN audit
                        ELSE audit \cup {Row(Update.about, s)},
               IF s = "processing" THEN Step("act", "replan") /\ UNCHANGED response
               ELSE Responds(IF s = "awaiting_confirmation" THEN "ask" ELSE "plain")
        PROVE  TypeOK'
    <3>1. s \in ProposalStates BY <2>2, <2>4, TappedType
    <3>2. Row(Update.about, s) \in AuditRows BY <1>0, <2>1, <2>2, <3>1, RowType
    <3>3. audit' \in SUBSET AuditRows BY <2>4, <3>2 DEF TypeOK
    <3>4. phase' \in Phases /\ response' \in Responses
      BY <2>4 DEF TypeOK, Responds, Step, Phases, Responses
    <3> QED BY <1>7, <1>0, <2>1, <2>4, <3>1, <3>3, <3>4 DEF TypeOK, Decide
  <2> QED BY <1>7, <2>3, <2>4 DEF Decide
<1>8. CASE Replan BY <1>8, <1>0 DEF TypeOK, Replan, Step, Phases
<1>9. CASE Delegate
  <2>1. Update.about \in Ids
    BY <1>9, CurrentTap DEF Delegate, Step, TapFits, IsTap, Update, Deciding
  <2> QED BY <1>9, <1>0, <2>1 DEF TypeOK, Delegate, Step, Phases
<1>10. CASE Finish
  <2>1. Update.about \in Ids
    BY <1>10, CurrentTap DEF Finish, TapFits, IsTap, Update, Deciding
  <2>2. phase \in ProposalStates BY <1>10 DEF Finish, ProposalStates, Closed
  <2>3. audit' \in SUBSET AuditRows BY <1>10, <2>1, <2>2, AuditToldType DEF Finish
  <2>4. proposal' \in [Ids -> ProposalStates] BY <1>10, <2>1, <2>2 DEF TypeOK, Finish
  <2> QED BY <1>10, <1>0, <2>3, <2>4 DEF TypeOK, Finish, Phases, Responses
<1>11. CASE Record
  BY <1>11, <1>0 DEF TypeOK, Record, Step, Phases, Responses, Answered
<1>12. CASE Reply BY <1>12, <1>0 DEF TypeOK, Reply, Step, Phases
<1>13. CASE AnswerCallback BY <1>13, <1>0 DEF TypeOK, AnswerCallback, Step, Phases
<1>14. CASE Advance
  <2>1. offset' \in 1 .. Len(inbox') + 1 /\ phase' = "idle"
    BY <1>14, <1>0 DEF Advance, Step, Sent, TypeOK
  <2> QED BY <1>14, <2>1 DEF TypeOK, Advance, Phases
<1>15. ASSUME NEW from \in {"act", "replan", "delegate"}, Fails(from) PROVE TypeOK'
  BY <1>15, <1>0 DEF TypeOK, Fails, Step, Phases, Answered
<1>16. CASE Breaks
  <2>1. shown' \in SUBSET Ids BY <1>16, <1>0 DEF TypeOK, Breaks
  <2> QED BY <1>16, <2>1 DEF TypeOK, Breaks, SameUpdate, Phases, Responses
<1>17. CASE Crash BY <1>17 DEF TypeOK, Crash, Phases, Responses
<1>18. CASE OutagesEnd BY <1>18 DEF TypeOK, OutagesEnd
<1>19. CASE UNCHANGED vars BY <1>19 DEF TypeOK, vars
<1> QED
  BY <1>1, <1>2, <1>3, <1>4, <1>5, <1>6, <1>7, <1>8, <1>9, <1>10, <1>11, <1>12, <1>13,
     <1>14, <1>15, <1>16, <1>17, <1>18, <1>19
  DEF Next, Work, Act, Revalidate, Confirm

-------------------------------------------------------------------------------
(* The chat only grows, and what it shows was sent.                        *)

ChatKept == \A u \in Sent : u \in Sent' /\ inbox'[u] = inbox[u]

LEMMA ChatGrows ==
  ASSUME TypeOK, [Next]_vars
  PROVE  ChatKept
<1>1. CASE Sends
  <2>1. Len(inbox) \in Nat BY DEF TypeOK
  <2> QED BY <1>1, <2>1, SentGrows DEF ChatKept, Sent
<1>2. CASE UNCHANGED inbox BY <1>2 DEF ChatKept, Sent
<1> QED
  BY <1>1, <1>2 DEF Next, vars, stored, world, worker, WindowMoves, Work, Admit, Drop,
     Claim, Act, Command, Proposed, Decide, Revalidate, Replan, Confirm, Delegate, Finish, Record,
     Reply, AnswerCallback, Advance, Fails, Breaks, Crash, OutagesEnd

LEMMA ChatInductive ==
  ASSUME TypeOK, ChatFits, [Next]_vars
  PROVE  ChatFits'
<1>0. ChatKept BY ChatGrows
<1>1. CASE Sends
  <2>1. Len(inbox) \in Nat /\ Len(inbox') = Len(inbox) + 1
    BY <1>1, SentGrows DEF TypeOK
  <2>2. shown' \subseteq Sent' BY <1>0, <1>1 DEF ChatFits, ChatKept, Sends
  <2>3. ASSUME NEW u \in Sent
        PROVE  inbox'[u].about < u /\ (IsTap(u)' => inbox'[u].about \in Ids)
    BY <1>0, <2>3 DEF ChatFits, ChatKept, IsTap
  <2>4. /\ inbox'[Len(inbox')].about < Len(inbox')
        /\ inbox'[Len(inbox')].kind \in Callbacks => inbox'[Len(inbox')].about \in Ids
    <3> DEFINE x == inbox'[Len(inbox')]
    <3>1. Sendable(x) BY <1>1, SentGrows
    <3>2. CASE x.about = 0 /\ x.kind \notin Callbacks BY <2>1, <3>2
    <3>3. CASE x.about \in Ids /\ x.kind \in Buttons(x.about)
      <4>1. CASE x.about \in shown BY <2>1, <3>3, <4>1 DEF ChatFits, Sent, Ids
      <4>2. CASE \E v \in shown : receipt[v] = "ask" /\ inbox[v].about = x.about
        <5>1. PICK v \in Sent : inbox[v].about = x.about BY <4>2 DEF ChatFits
        <5>2. x.about < v /\ v <= Len(inbox) BY <5>1 DEF ChatFits, Sent
        <5> QED BY <2>1, <3>3, <5>1, <5>2 DEF Sent, Ids
      <4> QED BY <3>3, <4>1, <4>2 DEF Buttons
    <3> QED BY <3>1, <3>2, <3>3 DEF Sendable
  <2>5. \A u \in Sent' : u \in Sent \/ u = Len(inbox') BY <2>1 DEF Sent
  <2> QED BY <2>2, <2>3, <2>4, <2>5 DEF ChatFits, IsTap
<1>2. ASSUME UNCHANGED inbox, shown' \subseteq shown \cup {offset},
             shown' # shown => phase # "idle"
      PROVE  ChatFits'
  BY <1>2, CurrentUpdate DEF ChatFits, IsTap, Sent
<1>3. CASE UNCHANGED <<inbox, shown>> BY <1>2, <1>3
<1>4. CASE Reply BY <1>2, <1>4 DEF Reply, Step
<1>5. CASE Breaks BY <1>2, <1>5 DEF Breaks
<1> QED
  BY <1>1, <1>3, <1>4, <1>5 DEF Next, vars, stored, world, worker, WindowMoves, Work,
     Admit, Drop, Claim, Act, Command, Proposed, Decide, Revalidate, Replan, Confirm, Delegate,
     Finish, Record, AnswerCallback, Advance, Fails, Crash, OutagesEnd

-------------------------------------------------------------------------------
(* The tables of the approval.                                             *)

TablesFit == AuditFits /\ StagesTold /\ DelegatedFits /\ AuditTellsOutcome

\* Steps that leave proposals, audit and delegations alone.
LEMMA TablesKept ==
  ASSUME TypeOK, TablesFit, ChatKept, UNCHANGED <<proposal, audit, delegated>>,
         offset' \in {offset, offset + 1}
  PROVE  TablesFit'
<1>1. AuditFits'
  <2> SUFFICES ASSUME NEW r \in audit
               PROVE  /\ r.update \in Sent' /\ r.update <= offset' /\ IsTap(r.update)'
                      /\ r.action = inbox'[r.update].kind
                      /\ r.proposal = inbox'[r.update].about
                      /\ r.outcome \notin {"none", "pending"}
                      /\ r.outcome = "processing" => r.action = "confirm"
    BY DEF AuditFits
  <2>1. r.update \in Sent /\ r.update \in Nat /\ offset \in Nat
    BY DEF TablesFit, AuditFits, TypeOK, Sent
  <2> QED BY <2>1 DEF TablesFit, AuditFits, ChatKept, IsTap
<1>2. StagesTold' BY DEF TablesFit, StagesTold, ApprovedIn, ConfirmedIn
<1>3. DelegatedFits' BY DEF TablesFit, DelegatedFits
<1>4. AuditTellsOutcome' BY DEF TablesFit, AuditTellsOutcome
<1> QED BY <1>1, <1>2, <1>3, <1>4 DEF TablesFit

\* What a tap may make of a proposal.
LEMMA TapMoves ==
  ASSUME NEW p, NEW action \in Callbacks, NEW lapsed \in BOOLEAN,
         Tapped(p, action, lapsed) # proposal[p]
  PROVE  LET s == Tapped(p, action, lapsed) IN
         \/ s \in {"expired", "rejected"} /\ proposal[p] \in Open
         \/ s = "awaiting_confirmation" /\ proposal[p] = "pending" /\ action = "approve"
         \/ s = "processing" /\ proposal[p] = "awaiting_confirmation" /\ action = "confirm"
BY DEF Tapped, Callbacks, Open

LEMMA CommandKeepsTables ==
  ASSUME TypeOK, TablesFit, Command
  PROVE  TablesFit'
<1>1. offset \in Ids BY CurrentUpdate DEF Command, Proposed
<1>2. UNCHANGED <<inbox, offset, audit, delegated>> BY DEF Command, Proposed, world
<1>3. \A p \in Ids : \/ proposal'[p] = proposal[p]
                     \/ proposal[p] = "none" /\ proposal'[p] = "pending"
  BY <1>1 DEF Command, Proposed, TypeOK
<1>4. AuditFits' BY <1>2 DEF TablesFit, AuditFits, Sent, IsTap
<1>5. StagesTold'
  BY <1>2, <1>3 DEF TablesFit, StagesTold, ApprovedIn, ConfirmedIn, Executed
<1>6. DelegatedFits' BY <1>2, <1>3 DEF TablesFit, DelegatedFits, Executed, TypeOK
<1>7. AuditTellsOutcome'
  BY <1>2, <1>3 DEF TablesFit, AuditTellsOutcome, AuditFits
<1> QED BY <1>4, <1>5, <1>6, <1>7 DEF TablesFit

LEMMA DecideKeepsTables ==
  ASSUME TypeOK, ChatFits, TablesFit, Decide
  PROVE  TablesFit'
<1> DEFINE p == Update.about
<1>1. /\ offset \in Sent /\ Update.kind \in Callbacks /\ p \in Ids
      /\ UNCHANGED <<inbox, offset, delegated>>
  BY CurrentUpdate, CurrentTap DEF Decide, world
<1>2. CASE UNCHANGED <<proposal, audit>>
  BY <1>1, <1>2, TablesKept DEF ChatKept, Sent
<1>3. ASSUME NEW lapsed \in BOOLEAN, NEW s,
             s = Tapped(p, Update.kind, lapsed), s # proposal[p],
             proposal' = [proposal EXCEPT ![p] = s],
             audit' = audit \cup {Row(p, s)}
      PROVE  TablesFit'
  <2> DEFINE row == Row(p, s)
  <2>1. \/ s \in {"expired", "rejected"} /\ proposal[p] \in Open
        \/ /\ s = "awaiting_confirmation" /\ Update.kind = "approve"
           /\ proposal[p] = "pending"
        \/ /\ s = "processing" /\ Update.kind = "confirm"
           /\ proposal[p] = "awaiting_confirmation"
    BY <1>1, <1>3, TapMoves
  <2>2. /\ row.proposal = p /\ row.update = offset /\ row.outcome = s
        /\ row.action = Update.kind
    BY DEF Row
  <2>3. proposal'[p] = s /\ \A q \in Ids \ {p} : proposal'[q] = proposal[q]
    BY <1>1, <1>3 DEF TypeOK
  <2>4. \A r \in audit : r.update \in Nat /\ r.update <= offset
    BY DEF TablesFit, AuditFits, Sent
  <2>5. offset \in Nat BY DEF TypeOK
  <2>6. AuditFits'
    <3>1. /\ row.outcome \notin {"none", "pending"}
          /\ row.outcome = "processing" => row.action = "confirm"
      BY <2>1, <2>2
    <3>2. /\ row.update \in Sent /\ row.update <= offset /\ IsTap(row.update)
          /\ row.action = inbox[row.update].kind /\ row.proposal = inbox[row.update].about
      BY <1>1, <2>2, <2>5 DEF IsTap, Update
    <3> HIDE DEF row
    <3> QED BY <1>1, <1>3, <3>1, <3>2 DEF row, TablesFit, AuditFits, Sent, IsTap
  <2>7. StagesTold'
    <3>1. ASSUME NEW q \in Ids, q # p
          PROVE  /\ proposal'[q] = "awaiting_confirmation" => ApprovedIn(q, audit') # {}
                 /\ proposal'[q] \in Executed =>
                      \E a \in ApprovedIn(q, audit'), c \in ConfirmedIn(q, audit') :
                         a.update < c.update
      BY <1>3, <2>3, <3>1 DEF TablesFit, StagesTold, ApprovedIn, ConfirmedIn
    <3>2. s = "awaiting_confirmation" => row \in ApprovedIn(p, audit')
      BY <1>3, <2>1, <2>2 DEF ApprovedIn
    <3>3. ASSUME s \in Executed
          PROVE  \E a \in ApprovedIn(p, audit'), c \in ConfirmedIn(p, audit') :
                    a.update < c.update
      <4>1. /\ s = "processing" /\ Update.kind = "confirm"
            /\ proposal[p] = "awaiting_confirmation"
        BY <2>1, <3>3 DEF Executed
      <4>2. PICK a \in audit : a.proposal = p /\ a.action = "approve"
        BY <1>1, <4>1 DEF TablesFit, StagesTold, ApprovedIn
      <4>3. a.update # offset BY <4>1, <4>2 DEF TablesFit, AuditFits, Update
      <4>4. a.update < offset BY <2>4, <2>5, <4>2, <4>3
      <4>5. a \in ApprovedIn(p, audit') /\ row \in ConfirmedIn(p, audit')
        BY <1>3, <2>2, <4>1, <4>2 DEF ApprovedIn, ConfirmedIn
      <4> QED BY <2>2, <4>4, <4>5
    <3> HIDE DEF row
    <3> QED BY <2>3, <3>1, <3>2, <3>3 DEF StagesTold
  <2>8. DelegatedFits'
    <3>1. proposal[p] \notin Executed BY <2>1 DEF Executed, Open
    <3>2. p \notin delegated BY <3>1 DEF TablesFit, DelegatedFits
    <3>3. \A q \in delegated : proposal'[q] = proposal[q]
      BY <2>3, <3>2 DEF TypeOK
    <3> QED BY <1>1, <3>3 DEF TablesFit, DelegatedFits
  <2>9. AuditTellsOutcome'
    <3>1. ASSUME NEW q \in Ids, q # p
          PROVE  {r \in audit' : r.proposal = q} = {r \in audit : r.proposal = q}
      BY <1>3, <2>2, <3>1
    <3>2. row \in audit' /\ row.proposal = p /\ row.outcome = proposal'[p]
      BY <1>3, <2>2, <2>3
    <3>3. \A r \in audit' : r.update <= row.update BY <1>3, <2>2, <2>4, <2>5
    <3> HIDE DEF row
    <3>4. LET rows == {r \in audit' : r.proposal = p} IN
          \E r \in rows : /\ \A q \in rows : q.update <= r.update
                          /\ r.outcome = proposal'[p]
      BY <3>2, <3>3
    <3> QED BY <2>3, <3>1, <3>4 DEF TablesFit, AuditTellsOutcome
  <2> QED BY <2>6, <2>7, <2>8, <2>9 DEF TablesFit
<1>4. ASSUME NEW s, s = proposal[p], proposal' = [proposal EXCEPT ![p] = s]
      PROVE  proposal' = proposal
  BY <1>4 DEF TypeOK
<1> QED BY <1>2, <1>3, <1>4 DEF Decide

LEMMA DelegateKeepsTables ==
  ASSUME TypeOK, TapFits, TablesFit, Delegate
  PROVE  TablesFit'
<1>1. proposal[Update.about] = "processing" BY DEF TapFits, Deciding, Delegate, Step
<1>2. UNCHANGED <<inbox, offset, proposal, audit>> BY DEF Delegate, world
<1>3. AuditFits' BY <1>2 DEF TablesFit, AuditFits, Sent, IsTap
<1>4. StagesTold' BY <1>2 DEF TablesFit, StagesTold, ApprovedIn, ConfirmedIn
<1>5. DelegatedFits' BY <1>1, <1>2 DEF TablesFit, DelegatedFits, Delegate, Executed
<1>6. AuditTellsOutcome' BY <1>2 DEF TablesFit, AuditTellsOutcome
<1> QED BY <1>3, <1>4, <1>5, <1>6 DEF TablesFit

\* Telling the outcome changes the outcome of confirmations, and nothing else.
Retold(r, p, outcome) ==
  IF r.proposal = p /\ r.action = "confirm" THEN [r EXCEPT !.outcome = outcome] ELSE r

LEMMA RetoldRow ==
  ASSUME TypeOK, NEW p, NEW outcome, NEW r \in audit
  PROVE  LET t == Retold(r, p, outcome) IN
         /\ t \in AuditTold(p, outcome)
         /\ t.proposal = r.proposal /\ t.action = r.action /\ t.update = r.update
         /\ t.outcome = IF r.proposal = p /\ r.action = "confirm" THEN outcome
                        ELSE r.outcome
<1>1. r \in AuditRows BY DEF TypeOK
<1>2. Retold(r, p, outcome) \in AuditTold(p, outcome) BY DEF AuditTold, Retold
<1>3. CASE r.proposal = p /\ r.action = "confirm"
  BY <1>1, <1>2, <1>3 DEF Retold, AuditRows
<1>4. CASE ~(r.proposal = p /\ r.action = "confirm")
  BY <1>2, <1>4 DEF Retold
<1> QED BY <1>3, <1>4

LEMMA FinishKeepsTables ==
  ASSUME TypeOK, ChatFits, TapFits, TablesFit, Finish
  PROVE  TablesFit'
<1> DEFINE p == Update.about
           R(r) == Retold(r, p, phase)
<1>1. /\ phase \in {"approved", "failed"} /\ p \in Ids
      /\ IsTap(offset) /\ proposal[p] = "processing"
  BY CurrentTap DEF Finish, TapFits, Deciding, IsTap, Update
<1>2. UNCHANGED <<inbox, offset, delegated>> BY DEF Finish, world
<1>3. proposal'[p] = phase /\ \A q \in Ids \ {p} : proposal'[q] = proposal[q]
  BY <1>1 DEF Finish, TypeOK
<1>4. audit' = {R(r) : r \in audit} BY DEF Finish, AuditTold, Retold
<1>5. \A r \in audit :
        /\ R(r) \in audit'
        /\ R(r).proposal = r.proposal /\ R(r).action = r.action /\ R(r).update = r.update
        /\ R(r).outcome = IF r.proposal = p /\ r.action = "confirm" THEN phase
                          ELSE r.outcome
  BY RetoldRow DEF Finish
<1> HIDE DEF R
<1>6. AuditFits'
  <2> SUFFICES ASSUME NEW r \in audit
               PROVE  /\ R(r).update \in Sent /\ R(r).update <= offset /\ IsTap(R(r).update)
                      /\ R(r).action = inbox[R(r).update].kind
                      /\ R(r).proposal = inbox[R(r).update].about
                      /\ R(r).outcome \notin {"none", "pending"}
                      /\ R(r).outcome = "processing" => R(r).action = "confirm"
    BY <1>2, <1>4 DEF AuditFits, Sent, IsTap
  <2>1. /\ r.update \in Sent /\ r.update <= offset /\ IsTap(r.update)
        /\ r.action = inbox[r.update].kind /\ r.proposal = inbox[r.update].about
        /\ r.outcome \notin {"none", "pending"}
        /\ r.outcome = "processing" => r.action = "confirm"
    BY DEF TablesFit, AuditFits
  <2> QED BY <1>1, <1>5, <2>1
<1>7. StagesTold'
  <2>1. ASSUME NEW q \in Ids, ApprovedIn(q, audit) # {} PROVE ApprovedIn(q, audit') # {}
    BY <1>5, <2>1 DEF ApprovedIn
  <2>2. ASSUME NEW q \in Ids,
               \E a \in ApprovedIn(q, audit), c \in ConfirmedIn(q, audit) :
                  a.update < c.update
        PROVE  \E a \in ApprovedIn(q, audit'), c \in ConfirmedIn(q, audit') :
                  a.update < c.update
    <3>1. PICK a \in ApprovedIn(q, audit), c \in ConfirmedIn(q, audit) :
            a.update < c.update
      BY <2>2
    <3>2. R(a) \in ApprovedIn(q, audit') /\ R(c) \in ConfirmedIn(q, audit')
      BY <1>5 DEF ApprovedIn, ConfirmedIn
    <3>3. R(a).update < R(c).update BY <1>5, <3>1 DEF ApprovedIn, ConfirmedIn
    <3> QED BY <3>2, <3>3
  <2>3. \A q \in Ids : /\ proposal'[q] = "awaiting_confirmation" => proposal[q] = proposal'[q]
                       /\ proposal'[q] \in Executed => proposal[q] \in Executed
    BY <1>1, <1>3 DEF Executed
  <2> QED BY <2>1, <2>2, <2>3 DEF TablesFit, StagesTold
<1>8. DelegatedFits'
  BY <1>1, <1>2, <1>3 DEF TablesFit, DelegatedFits, Executed, TypeOK
<1>9. AuditTellsOutcome'
  <2>1. ASSUME NEW q \in Ids, NEW r \in audit, r.proposal = q,
               \A o \in audit : o.proposal = q => o.update <= r.update,
               R(r).outcome = proposal'[q]
        PROVE  LET rows == {o \in audit' : o.proposal = q} IN
               \E x \in rows : /\ \A o \in rows : o.update <= x.update
                               /\ x.outcome = proposal'[q]
    <3>1. R(r) \in audit' /\ R(r).proposal = q BY <1>5, <2>1
    <3>2. \A o \in audit' : o.proposal = q => o.update <= R(r).update BY <1>4, <1>5, <2>1
    <3> QED BY <2>1, <3>1, <3>2
  <2>2. ASSUME NEW q \in Ids
        PROVE  \/ /\ {r \in audit : r.proposal = q} = {}
                  /\ proposal[q] \in {"none", "pending"}
               \/ \E r \in audit : /\ r.proposal = q /\ r.outcome = proposal[q]
                                   /\ \A o \in audit : o.proposal = q => o.update <= r.update
    BY <2>2 DEF TablesFit, AuditTellsOutcome
  <2>3. ASSUME NEW q \in Ids, {r \in audit : r.proposal = q} = {},
               proposal[q] \in {"none", "pending"}
        PROVE  {r \in audit' : r.proposal = q} = {} /\ proposal'[q] \in {"none", "pending"}
    BY <1>1, <1>3, <1>4, <1>5, <2>3
  <2>4. ASSUME NEW q \in Ids, NEW r \in audit, r.proposal = q, r.outcome = proposal[q]
        PROVE  R(r).outcome = proposal'[q]
    <3>1. CASE q = p
      <4>1. r.action = "confirm" BY <1>1, <2>4, <3>1 DEF TablesFit, AuditFits
      <4> QED BY <1>3, <1>5, <2>4, <3>1, <4>1
    <3>2. CASE q # p BY <1>3, <1>5, <2>4, <3>2
    <3> QED BY <3>1, <3>2
  <2> QED BY <2>1, <2>2, <2>3, <2>4 DEF AuditTellsOutcome
<1> QED BY <1>6, <1>7, <1>8, <1>9 DEF TablesFit

LEMMA TablesInductive ==
  ASSUME TypeOK, ChatFits, TapFits, TablesFit, [Next]_vars
  PROVE  TablesFit'
<1>1. ChatKept BY ChatGrows
<1>2. CASE UNCHANGED <<proposal, audit, delegated>> /\ offset' \in {offset, offset + 1}
  BY <1>1, <1>2, TablesKept
<1>3. CASE Command BY <1>3, CommandKeepsTables
<1>4. CASE Decide BY <1>4, DecideKeepsTables
<1>5. CASE Delegate BY <1>5, DelegateKeepsTables
<1>6. CASE Finish BY <1>6, FinishKeepsTables
<1> QED
  BY <1>2, <1>3, <1>4, <1>5, <1>6 DEF Next, vars, stored, world, worker, Sends,
     WindowMoves, Work, Admit, Drop, Claim, Act, Revalidate, Replan, Confirm, Record,
     Reply, AnswerCallback, Advance, Fails, Breaks, SameUpdate, Crash, OutagesEnd

-------------------------------------------------------------------------------
(* The worker.                                                             *)

\* What was acknowledged stays answered while the tables only grow.
LEMMA AcknowledgedStays ==
  ASSUME TypeOK, AckedIsAnswered, ChatKept, offset' = offset,
         dropped \subseteq dropped', shown \subseteq shown',
         \A u \in 1 .. offset - 1 : receipt'[u] = receipt[u]
  PROVE  AckedIsAnswered'
<1> SUFFICES ASSUME NEW u \in 1 .. offset - 1
             PROVE  \/ u \in dropped'
                    \/ /\ u \in shown'
                       /\ receipt'[u] \in Answered \/ inbox'[u].kind = "unknown"
  BY DEF AckedIsAnswered
<1>1. inbox'[u] = inbox[u] BY DEF ChatKept, Sent, TypeOK
<1> QED BY <1>1 DEF AckedIsAnswered

\* The same, for a step that writes at most the receipt of the current update.
LEMMA CurrentReceiptOnly ==
  ASSUME TypeOK, AckedIsAnswered, UNCHANGED <<inbox, offset>>,
         dropped \subseteq dropped', shown \subseteq shown',
         \/ receipt' = receipt
         \/ \E r : receipt' = [receipt EXCEPT ![offset] = r]
  PROVE  AckedIsAnswered'
<1>1. ChatKept BY DEF ChatKept, Sent
<1>2. \A u \in 1 .. offset - 1 : receipt'[u] = receipt[u]
  <2>1. offset \in Nat /\ \A u \in 1 .. offset - 1 : u \in Ids /\ u # offset
    BY TelegramAssumption DEF TypeOK, Ids
  <2> QED BY <2>1 DEF TypeOK
<1> QED BY <1>1, <1>2, AcknowledgedStays

WorkFits == ReceiptFits /\ TapFits /\ AckedIsAnswered

LEMMA QuietKeepsWork ==
  ASSUME TypeOK, WorkFits, ChatKept,
         UNCHANGED <<offset, receipt, proposal, dropped, shown, phase>>
  PROVE  WorkFits'
<1>1. phase # "idle" => inbox'[offset] = inbox[offset]
  BY CurrentUpdate DEF ChatKept
<1>2. AckedIsAnswered' BY AcknowledgedStays DEF WorkFits
<1>3. phase = phase' /\ phase \in Phases BY DEF TypeOK
<1>4. ReceiptFits'
  <2>1. CASE phase = "idle" BY <2>1 DEF ReceiptFits, Deciding
  <2>2. CASE phase # "idle"
    BY <1>1, <2>2 DEF WorkFits, ReceiptFits, AnswerKept
  <2> QED BY <2>1, <2>2
<1>5. TapFits' BY <1>1 DEF WorkFits, TapFits, IsTap, Update, Deciding
<1> QED BY <1>2, <1>4, <1>5 DEF WorkFits

LEMMA IdleKeepsWork ==
  ASSUME TypeOK, WorkFits, phase' = "idle", UNCHANGED <<inbox, offset, dropped>>,
         shown \subseteq shown',
         \/ receipt' = receipt
         \/ \E r : receipt' = [receipt EXCEPT ![offset] = r]
  PROVE  WorkFits'
<1>1. AckedIsAnswered' BY CurrentReceiptOnly DEF WorkFits
<1>2. ReceiptFits' /\ TapFits' BY DEF ReceiptFits, TapFits, Deciding
<1> QED BY <1>1, <1>2 DEF WorkFits

LEMMA WorkInductive ==
  ASSUME TypeOK, ChatFits, WorkFits, [Next]_vars
  PROVE  WorkFits'
<1> USE DEF stored, world, worker
<1>0. ChatKept BY ChatGrows
<1>1. CASE UNCHANGED <<offset, receipt, proposal, dropped, shown, phase>>
  BY <1>0, <1>1, QuietKeepsWork
<1>2. ASSUME NEW from \in {"act", "replan", "delegate"}, Fails(from) PROVE WorkFits'
  BY <1>2, IdleKeepsWork DEF Fails, Step
<1>3. CASE Breaks BY <1>3, IdleKeepsWork DEF Breaks, SameUpdate
<1>4. CASE Crash BY <1>4, IdleKeepsWork DEF Crash
<1>5. ASSUME Work, ~(\E from \in {"act", "replan", "delegate"} : Fails(from)),
             ~Advance
      PROVE  WorkFits'
  <2>1. AckedIsAnswered'
    BY <1>5, CurrentReceiptOnly
    DEF WorkFits, Work, Admit, Drop, Claim, Act, Command, Proposed, Decide, Revalidate, Replan,
        Confirm, Delegate, Finish, Record, Reply, AnswerCallback
  <2> USE DEF ReceiptFits, TapFits, Deciding, Step
  <2>2. phase # "idle" => offset \in Ids BY CurrentUpdate
  <2>3. ReceiptFits' /\ TapFits'
    <3>1. CASE Admit BY <3>1 DEF Admit
    <3>2. CASE Drop BY <3>2 DEF Drop, Acknowledged
    <3>3. CASE Claim
      BY <3>3, <2>2 DEF Claim, Claimed, AnswerKept, Update, TypeOK, Answered
    <3>4. CASE Command BY <3>4 DEF Command, Proposed, Responds, WorkFits
    <3>5. CASE Decide
      <4>1. phase = "act" /\ UNCHANGED <<receipt, offset, inbox>> BY <3>5 DEF Decide
      <4>2. phase' \in {"record", "replan"} BY <3>5 DEF Decide, Responds
      <4>3. Update.about \in Ids /\ IsTap(offset)
        BY <3>5, CurrentTap DEF Decide, IsTap, Update
      <4>4. phase' = "replan" => proposal'[Update.about] = "processing"
        BY <3>5, <4>3 DEF Decide, Responds, TypeOK
      <4> QED BY <4>1, <4>2, <4>3, <4>4 DEF WorkFits, IsTap, Update
    <3>6. CASE Replan BY <3>6 DEF Replan, WorkFits, IsTap, Update
    <3>7. CASE Delegate BY <3>7 DEF Delegate, WorkFits, IsTap, Update
    <3>8. CASE Finish BY <3>8 DEF Finish, WorkFits
    <3>9. CASE Record
      BY <3>9, <2>2 DEF Record, WorkFits, AnswerKept, TypeOK, Answered
    <3>10. CASE Reply BY <3>10 DEF Reply, WorkFits, AnswerKept
    <3>11. CASE AnswerCallback BY <3>11 DEF AnswerCallback, WorkFits, AnswerKept
    <3> QED
      BY <1>5, <3>1, <3>2, <3>3, <3>4, <3>5, <3>6, <3>7, <3>8, <3>9, <3>10, <3>11
      DEF Work, Act, Revalidate, Confirm
  <2> QED BY <2>1, <2>3 DEF WorkFits
<1>6. CASE Advance
  <2>1. AckedIsAnswered'
    <3>1. offset \in Nat /\ offset' = offset + 1 /\ phase = "ack"
      BY <1>6 DEF Advance, Step, TypeOK
    <3>2. \/ offset \in dropped
          \/ offset \in shown /\ AnswerKept(offset)
      BY <3>1 DEF WorkFits, ReceiptFits
    <3>3. \A u \in 1 .. offset' - 1 : u \in 1 .. offset - 1 \/ u = offset BY <3>1
    <3> QED BY <1>6, <3>2, <3>3 DEF WorkFits, AckedIsAnswered, AnswerKept, Advance
  <2>2. ReceiptFits' /\ TapFits' BY <1>6 DEF ReceiptFits, TapFits, Deciding, Advance, Step
  <2> QED BY <2>1, <2>2 DEF WorkFits
<1> QED
  BY <1>1, <1>2, <1>3, <1>4, <1>5, <1>6 DEF Next, vars, Sends, WindowMoves, OutagesEnd, Work,
     Act, Revalidate, Confirm

-------------------------------------------------------------------------------
(* The theorems.                                                           *)

LEMMA ChannelInitially == Init => ChannelInv
<1> SUFFICES ASSUME Init PROVE ChannelInv OBVIOUS
<1>1. TypeOK BY TypesInitially
<1>2. ChatFits /\ ReceiptFits /\ TapFits /\ AckedIsAnswered
  BY DEF Init, ChatFits, ReceiptFits, TapFits, AckedIsAnswered, Deciding, Sent
<1>3. AuditFits /\ StagesTold /\ DelegatedFits /\ AuditTellsOutcome
  BY DEF Init, AuditFits, StagesTold, DelegatedFits, AuditTellsOutcome, Executed
<1> QED BY <1>1, <1>2, <1>3 DEF ChannelInv

\* The channel invariant is inductive, for any number of updates and any faults.
THEOREM ChannelInvariant == Spec => []ChannelInv
<1>1. ChannelInv /\ [Next]_vars => ChannelInv'
  <2> SUFFICES ASSUME ChannelInv, [Next]_vars PROVE ChannelInv' OBVIOUS
  <2>1. TypeOK' /\ ChatFits' BY TypesInductive, ChatInductive DEF ChannelInv
  <2>2. WorkFits' BY WorkInductive DEF ChannelInv, WorkFits
  <2>3. TablesFit' BY TablesInductive DEF ChannelInv, TablesFit
  <2> QED BY <2>1, <2>2, <2>3 DEF ChannelInv, WorkFits, TablesFit
<1> QED BY ChannelInitially, <1>1, PTL DEF Spec

\* The tables and the worker keep to their types, whatever fails.
THEOREM ChannelTypeCorrectness == Spec => []TypeOK
<1>1. ChannelInv => TypeOK BY DEF ChannelInv
<1> QED BY ChannelInvariant, <1>1, PTL

\* No plan is delegated without an approval and a later confirmation.
THEOREM DelegationsWereConfirmed == Spec => []DelegationWasConfirmed
<1>1. ChannelInv => DelegationWasConfirmed
  <2> SUFFICES ASSUME ChannelInv, NEW p \in delegated
               PROVE  /\ \E a, c \in audit :
                           /\ a.proposal = p /\ a.action = "approve"
                           /\ c.proposal = p /\ c.action = "confirm"
                           /\ p < a.update /\ a.update < c.update
                      /\ proposal[p] \in Executed
    BY DEF DelegationWasConfirmed, Executed
  <2>1. p \in Ids /\ proposal[p] \in Executed
    BY DEF ChannelInv, TypeOK, DelegatedFits
  <2>2. PICK a \in ApprovedIn(p, audit), c \in ConfirmedIn(p, audit) : a.update < c.update
    BY <2>1 DEF ChannelInv, StagesTold
  <2>3. p < a.update
    BY <2>2 DEF ChannelInv, AuditFits, ChatFits, ApprovedIn
  <2> QED BY <2>1, <2>2, <2>3 DEF ApprovedIn, ConfirmedIn
<1> QED BY ChannelInvariant, <1>1, PTL

\* No acknowledged command is lost.
THEOREM AcknowledgedAreAnswered == Spec => []AckedIsAnswered
<1>1. ChannelInv => AckedIsAnswered BY DEF ChannelInv
<1> QED BY ChannelInvariant, <1>1, PTL

\* The audit tells the state of every proposal.
THEOREM AuditIsTrue == Spec => []AuditTellsOutcome
<1>1. ChannelInv => AuditTellsOutcome BY DEF ChannelInv
<1> QED BY ChannelInvariant, <1>1, PTL

\* Both together: what the owner was answered is on record and the other way round.
THEOREM AnswersStandOnRecord == Spec => []AnswersAreOnRecord
<1>1. AckedIsAnswered /\ AuditTellsOutcome => AnswersAreOnRecord
  BY DEF AnswersAreOnRecord
<1> QED BY <1>1, AcknowledgedAreAnswered, AuditIsTrue, PTL

\* Neither a stored answer nor a closed proposal is rewritten.
THEOREM AnswersStay == Spec => AnswersAreFinal
<1>1. ASSUME ChannelInv, [Next]_vars
      PROVE  \A u \in Ids : /\ receipt[u] \in Answered => UNCHANGED receipt[u]
                            /\ proposal[u] \in Closed => UNCHANGED proposal[u]
  <2> SUFFICES ASSUME NEW u \in Ids
               PROVE  /\ receipt[u] \in Answered => UNCHANGED receipt[u]
                      /\ proposal[u] \in Closed => UNCHANGED proposal[u]
    OBVIOUS
  <2> USE DEF stored, world, worker
  <2>1. TypeOK /\ ChatFits BY <1>1 DEF ChannelInv
  <2>2. phase \in {"act", "record"} \cup Deciding => receipt[offset] = "claimed"
    BY <1>1 DEF ChannelInv, ReceiptFits
  <2>3. CASE UNCHANGED <<receipt, proposal>> BY <2>3
  <2>4. CASE Claim BY <2>1, <2>4 DEF Claim, Claimed, Answered, Responses, TypeOK
  <2>5. CASE Record BY <2>1, <2>5 DEF Record, Answered, Responses, TypeOK
  <2>6. ASSUME NEW from \in {"act", "replan", "delegate"}, Fails(from)
        PROVE  /\ receipt[u] \in Answered => UNCHANGED receipt[u]
               /\ proposal[u] \in Closed => UNCHANGED proposal[u]
    BY <2>1, <2>2, <2>6 DEF Fails, Step, Deciding, Answered, Responses, TypeOK
  <2>7. CASE Command BY <2>1, <2>7 DEF Command, Proposed, Closed, TypeOK
  <2>8. CASE Decide
    <3>1. UNCHANGED receipt /\ Update.about \in Ids BY <2>1, <2>8, CurrentTap DEF Decide
    <3>2. CASE \E lapsed \in BOOLEAN : proposal' =
                 [proposal EXCEPT ![Update.about] = Tapped(Update.about, Update.kind, lapsed)]
      BY <2>1, <3>1, <3>2 DEF Tapped, Closed, Open, TypeOK
    <3> QED BY <2>8, <3>1, <3>2 DEF Decide
  <2>9. CASE Finish BY <2>1, <2>9 DEF Finish, Closed, TypeOK
  <2> QED
    BY <1>1, <2>3, <2>4, <2>5, <2>6, <2>7, <2>8, <2>9 DEF Next, vars, Sends, WindowMoves,
       Work, Admit, Drop, Act, Revalidate, Replan, Confirm, Delegate, Reply, AnswerCallback,
       Advance, Breaks, Crash, OutagesEnd
<1> QED BY <1>1, ChannelInvariant, PTL DEF Spec, AnswersAreFinal

-------------------------------------------------------------------------------
(* The approval is a two-step approval.                                    *)

Stages == [p \in Ids |-> StageOf(proposal[p])]

\* One proposal moves, and its stage with it.
LEMMA OneStageMoves ==
  ASSUME TypeOK, NEW p \in Ids, NEW s \in ProposalStates,
         proposal' = [proposal EXCEPT ![p] = s], UNCHANGED delegated,
         NEW from, StageOf(proposal[p]) \in from
  PROVE  Approving!Move(p, from, StageOf(s))
<1>1. proposal \in [Ids -> ProposalStates] BY DEF TypeOK
<1>2. Stages' = [Stages EXCEPT ![p] = StageOf(s)]
  <2>1. ASSUME NEW q \in Ids
        PROVE  StageOf(proposal'[q]) = IF q = p THEN StageOf(s) ELSE StageOf(proposal[q])
    BY <1>1
  <2> QED BY <2>1 DEF Stages
<1>3. Stages[p] \in from BY DEF Stages
<1> QED BY <1>2, <1>3 DEF Approving!Move, Stages

\* A row of the audit is a tap after the plan and after all earlier taps for it, or the
\* current tap once more.
LEMMA TapIsOnRecord ==
  ASSUME ChannelInv, phase # "idle", Update.kind \in Callbacks, NEW s,
         audit' = audit \cup {Row(Update.about, s)}, NEW actions, Update.kind \in actions
  PROVE  Approving!By(Update.about, actions)
<1> DEFINE p == Update.about
           t == [plan |-> p, action |-> Update.kind, at |-> offset]
<1>1. p < offset /\ offset \in Nat
  BY CurrentTap DEF ChannelInv, TypeOK
<1>2. TapsOnRecord' = TapsOnRecord \cup {t}
  <2>1. /\ Row(p, s).proposal = p /\ Row(p, s).action = Update.kind
        /\ Row(p, s).update = offset
    BY DEF Row
  <2>2. TapsOnRecord' = {[plan |-> r.proposal, action |-> r.action, at |-> r.update] :
                           r \in audit \cup {Row(p, s)}}
    BY DEF TapsOnRecord
  <2> HIDE DEF p
  <2> QED BY <2>1, <2>2 DEF TapsOnRecord
<1>3. ASSUME NEW x \in TapsOnRecord, x.plan = p PROVE x.at < t.at \/ x = t
  <2>1. PICK r \in audit : x = [plan |-> r.proposal, action |-> r.action, at |-> r.update]
    BY DEF TapsOnRecord
  <2>2. r.update \in Nat /\ r.update <= offset /\ r.action = inbox[r.update].kind
    BY DEF ChannelInv, AuditFits, Sent
  <2>3. CASE r.update = offset
    <3>1. r.action = Update.kind BY <2>2, <2>3 DEF Update
    <3> QED BY <1>3, <2>1, <2>3, <3>1
  <2>4. CASE r.update # offset BY <1>1, <2>1, <2>2, <2>4
  <2> QED BY <2>3, <2>4
<1>4. t.plan = p /\ t.action = Update.kind /\ t.at = offset OBVIOUS
<1> HIDE DEF p, t
<1>5. /\ t \in TapsOnRecord' /\ t.plan = p /\ t.action \in actions /\ p < t.at
      /\ \A x \in TapsOnRecord : x.plan = p => x.at < t.at \/ x = t
  BY <1>1, <1>2, <1>3, <1>4
<1>6. Approving!By(p, actions) BY <1>2, <1>5 DEF Approving!By
<1> QED BY <1>6 DEF p

\* The proposals, the taps and the delegations are where they were.
Untouched == UNCHANGED <<proposal, audit, delegated>>

LEMMA UntouchedIsNoStep == Untouched => UNCHANGED Approving!vars
BY DEF Untouched, Approving!vars, TapsOnRecord

LEMMA OfferIsAStep ==
  ASSUME ChannelInv, Command
  PROVE  Approving!Next \/ UNCHANGED Approving!vars
<1>1. TypeOK /\ offset \in Ids BY CurrentUpdate DEF ChannelInv, Command
<1>2. UNCHANGED <<audit, delegated>> BY DEF Command
<1>3. CASE UNCHANGED proposal BY <1>2, <1>3, UntouchedIsNoStep DEF Untouched
<1>4. CASE proposal[offset] = "none" /\ proposal' = [proposal EXCEPT ![offset] = "pending"]
  <2>1. "pending" \in ProposalStates /\ StageOf("pending") = "offered"
    BY DEF ProposalStates, Open, StageOf
  <2>2. StageOf(proposal[offset]) \in {"none"} BY <1>4 DEF StageOf
  <2>3. Approving!Move(offset, {"none"}, "offered")
    BY <1>1, <1>2, <1>4, <2>1, <2>2, OneStageMoves
  <2>4. UNCHANGED TapsOnRecord BY <1>2 DEF TapsOnRecord
  <2> QED BY <1>1, <2>3, <2>4 DEF Approving!Next, Approving!Offer
<1>5. proposal[offset] # "none" /\ Proposed => proposal' = proposal
  BY <1>1 DEF Proposed, TypeOK
<1> QED BY <1>3, <1>4, <1>5 DEF Command, Proposed

LEMMA TapIsAStep ==
  ASSUME ChannelInv, Decide
  PROVE  Approving!Next \/ UNCHANGED Approving!vars
<1> DEFINE p == Update.about
<1>1. /\ TypeOK /\ phase # "idle" /\ Update.kind \in Callbacks /\ p \in Ids
      /\ UNCHANGED delegated
  BY CurrentTap DEF ChannelInv, Decide
<1>2. CASE UNCHANGED <<proposal, audit>>
  BY <1>1, <1>2, UntouchedIsNoStep DEF Untouched
<1>3. ASSUME NEW lapsed \in BOOLEAN, NEW s,
             s = Tapped(p, Update.kind, lapsed), s # proposal[p],
             proposal' = [proposal EXCEPT ![p] = s],
             audit' = audit \cup {Row(p, s)}
      PROVE  Approving!Next
  <2>1. s \in ProposalStates BY <1>1, <1>3, TappedType
  <2>2. \/ s \in {"expired", "rejected"} /\ proposal[p] \in Open
        \/ s = "awaiting_confirmation" /\ proposal[p] = "pending" /\ Update.kind = "approve"
        \/ s = "processing" /\ proposal[p] = "awaiting_confirmation" /\ Update.kind = "confirm"
    BY <1>1, <1>3, TapMoves
  <2>3. CASE s \in {"expired", "rejected"} /\ proposal[p] \in Open
    <3>1. StageOf(s) = "closed" /\ StageOf(proposal[p]) \in {"offered", "approved"}
      BY <2>3 DEF StageOf, Open
    <3>2. Approving!Move(p, {"offered", "approved"}, "closed")
      BY <1>1, <1>3, <2>1, <3>1, OneStageMoves
    <3>3. Update.kind \in {"approve", "confirm", "reject"} BY <1>1 DEF Callbacks
    <3>4. Approving!By(p, {"approve", "confirm", "reject"})
      BY <1>1, <1>3, <3>3, TapIsOnRecord
    <3> QED BY <1>1, <3>2, <3>4 DEF Approving!Next, Approving!Close
  <2>4. CASE s = "awaiting_confirmation" /\ proposal[p] = "pending" /\ Update.kind = "approve"
    <3>1. StageOf(s) = "approved" /\ StageOf(proposal[p]) \in {"offered"}
      BY <2>4 DEF StageOf
    <3>2. Approving!Move(p, {"offered"}, "approved")
      BY <1>1, <1>3, <2>1, <3>1, OneStageMoves
    <3>3. Approving!By(p, {"approve"}) BY <1>1, <1>3, <2>4, TapIsOnRecord
    <3> QED BY <1>1, <3>2, <3>3 DEF Approving!Next, Approving!Approve
  <2>5. CASE s = "processing" /\ proposal[p] = "awaiting_confirmation"
             /\ Update.kind = "confirm"
    <3>1. StageOf(s) = "confirmed" /\ StageOf(proposal[p]) \in {"approved"}
      BY <2>5 DEF StageOf
    <3>2. Approving!Move(p, {"approved"}, "confirmed")
      BY <1>1, <1>3, <2>1, <3>1, OneStageMoves
    <3>3. Approving!By(p, {"confirm"}) BY <1>1, <1>3, <2>5, TapIsOnRecord
    <3> QED BY <1>1, <3>2, <3>3 DEF Approving!Next, Approving!Confirm
  <2> QED BY <2>2, <2>3, <2>4, <2>5
<1>4. ASSUME NEW s, s = proposal[p], proposal' = [proposal EXCEPT ![p] = s]
      PROVE  proposal' = proposal
  BY <1>4 DEF TypeOK, ChannelInv
<1> QED BY <1>2, <1>3, <1>4 DEF Decide

LEMMA DelegationIsAStep ==
  ASSUME ChannelInv, Delegate
  PROVE  Approving!Next \/ UNCHANGED Approving!vars
<1> DEFINE p == Update.about
<1>1. proposal[p] = "processing" /\ p \in Ids
  BY CurrentTap DEF ChannelInv, TapFits, Deciding, Delegate, Step, IsTap, Update
<1>2. UNCHANGED <<proposal, audit>> BY DEF Delegate
<1>3. CASE delegated' = delegated BY <1>2, <1>3, UntouchedIsNoStep DEF Untouched
<1>4. CASE delegated' = delegated \cup {p}
  <2>1. Stages[p] = "confirmed" BY <1>1 DEF Stages, StageOf
  <2>2. UNCHANGED Stages /\ UNCHANGED TapsOnRecord BY <1>2 DEF Stages, TapsOnRecord
  <2>3. Approving!Delegate(p) BY <1>4, <2>1, <2>2 DEF Approving!Delegate, Stages
  <2> QED BY <1>1, <2>3 DEF Approving!Next
<1> QED BY <1>3, <1>4 DEF Delegate

LEMMA FinishIsAStep ==
  ASSUME ChannelInv, Finish
  PROVE  Approving!Next
<1> DEFINE p == Update.about
<1>1. /\ TypeOK /\ phase \in {"approved", "failed"} /\ p \in Ids
      /\ proposal[p] = "processing"
  BY CurrentTap DEF ChannelInv, Finish, TapFits, Deciding, IsTap, Update
<1>2. proposal' = [proposal EXCEPT ![p] = phase] /\ UNCHANGED delegated
  BY <1>1 DEF Finish
<1>3. phase \in ProposalStates /\ StageOf(phase) = "done"
      /\ StageOf(proposal[p]) \in {"confirmed"}
  BY <1>1 DEF ProposalStates, Closed, StageOf
<1>4. Approving!Move(p, {"confirmed"}, "done") BY <1>1, <1>2, <1>3, OneStageMoves
<1>5. TapsOnRecord' = TapsOnRecord
  <2> DEFINE R(r) == Retold(r, p, phase)
  <2>1. audit' = {R(r) : r \in audit} BY DEF Finish, AuditTold, Retold
  <2>2. \A r \in audit :
          R(r).proposal = r.proposal /\ R(r).action = r.action /\ R(r).update = r.update
    BY <1>1, RetoldRow
  <2> HIDE DEF R
  <2> QED BY <2>1, <2>2 DEF TapsOnRecord
<1> QED BY <1>1, <1>4, <1>5 DEF Approving!Next, Approving!Finish

LEMMA EveryStepIsAStep ==
  ChannelInv /\ [Next]_vars => [Approving!Next]_(Approving!vars)
<1> SUFFICES ASSUME ChannelInv, [Next]_vars
             PROVE  Approving!Next \/ UNCHANGED Approving!vars
  OBVIOUS
<1>1. CASE Command BY <1>1, OfferIsAStep
<1>2. CASE Decide BY <1>2, TapIsAStep
<1>3. CASE Delegate BY <1>3, DelegationIsAStep
<1>4. CASE Finish BY <1>4, FinishIsAStep
<1>5. CASE Untouched BY <1>5, UntouchedIsNoStep
<1> QED
  BY <1>1, <1>2, <1>3, <1>4, <1>5 DEF Untouched, Next, vars, stored, world, worker, Sends,
     WindowMoves, Work, Admit, Drop, Claim, Act, Revalidate, Replan, Confirm, Record,
     Reply, AnswerCallback, Advance, Fails, Breaks, Crash, OutagesEnd

\* The channel implements a plain approval by two taps, for any number of updates and any
\* faults: each plan is offered, approved, confirmed and finished once and in this order or
\* closed for good, each step of the owner by a tap of his that is on record, and delegated
\* at no other stage than the confirmed one (telegram_approvals.py).
THEOREM ApprovalsAreTwoSteps == Spec => RefinesTwoStep
<1>1. Init => Approving!Init
  BY DEF Init, Approving!Init, StageOf, TapsOnRecord
<1> QED
  BY <1>1, EveryStepIsAStep, ChannelInvariant, PTL
  DEF Spec, RefinesTwoStep, Approving!Spec
===============================================================================
