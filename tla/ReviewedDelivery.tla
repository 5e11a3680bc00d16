---------------------------- MODULE ReviewedDelivery ----------------------------
(***************************************************************************)
(* What GitHub and the review log may ever see of deliveries, without      *)
(* workspaces, clones or programs that retry: a branch appears with a      *)
(* commit in scope and is only ever removed, by the owner; it is proposed  *)
(* once per base while it is open; what is recorded was pushed and         *)
(* proposed, and is decided on once.                                       *)
(***************************************************************************)
EXTENDS Naturals, Sequences

CONSTANTS InScope, Base    \* pairs of branch and commit; what may be proposed against

VARIABLES remote, published, pulls, evidence, decisions

vars == <<remote, published, pulls, evidence, decisions>>

Init ==
  /\ DOMAIN remote = {} /\ published = {} /\ pulls = <<>>
  /\ evidence = {} /\ decisions = {}

\* Again with the same commit: nothing happens.
Push ==
  /\ \E x \in published' \cap InScope :
       /\ x.branch \in DOMAIN remote => remote[x.branch] = x.commit
       /\ remote' = [b \in DOMAIN remote \cup {x.branch} |->
                       IF b = x.branch THEN x.commit ELSE remote[b]]
       /\ published' = published \cup {x}
  /\ UNCHANGED <<pulls, evidence, decisions>>

Open(n) == pulls[n].open
Propose ==
  /\ \E b \in DOMAIN remote, base \in Base :
       /\ \A n \in DOMAIN pulls : Open(n) => pulls[n].branch # b \/ pulls[n].base # base
       /\ pulls' = Append(pulls, [branch |-> b, base |-> base, draft |-> TRUE, open |-> TRUE])
  /\ UNCHANGED <<remote, published, evidence, decisions>>

\* The owner closes a proposal, or marks it as ready.
Attend ==
  /\ \E n \in DOMAIN pulls :
       /\ Open(n)
       /\ pulls' \in {[pulls EXCEPT ![n].open = FALSE], [pulls EXCEPT ![n].draft = FALSE]}
  /\ UNCHANGED <<remote, published, evidence, decisions>>

\* The owner removes a branch, which closes its proposals.
Remove ==
  /\ \E b \in DOMAIN remote :
       /\ remote' = [c \in DOMAIN remote \ {b} |-> remote[c]]
       /\ pulls' = [n \in DOMAIN pulls |->
                      IF pulls[n].branch = b THEN [pulls[n] EXCEPT !.open = FALSE] ELSE pulls[n]]
  /\ UNCHANGED <<published, evidence, decisions>>

Delivered(e) ==
  /\ [branch |-> e.plan.receipt, commit |-> e.commit] \in published
  /\ e.pull \in DOMAIN pulls
  /\ pulls[e.pull].branch = e.plan.receipt /\ pulls[e.pull].base = e.plan.base
Record ==
  /\ \E e \in evidence' :
       /\ e.outcome = "succeeded" => Delivered(e)
       /\ evidence' = evidence \cup {e}
  /\ UNCHANGED <<remote, published, pulls, decisions>>

Decide ==
  /\ \E e \in evidence, verdict \in {"approve", "reject"} :
       /\ e.outcome = "succeeded" /\ \A x \in decisions : x[1] # e
       /\ decisions' = decisions \cup {<<e, verdict>>}
  /\ UNCHANGED <<remote, published, pulls, evidence>>

Next == Push \/ Propose \/ Attend \/ Remove \/ Record \/ Decide

Spec == Init /\ [][Next]_vars
=================================================================================
