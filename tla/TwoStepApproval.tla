---------------------------- MODULE TwoStepApproval ----------------------------
(***************************************************************************)
(* What an approval by two taps promises, without updates, receipts or     *)
(* redeliveries: a plan is offered, approved by a tap, confirmed by a      *)
(* later one and only then delegated; a tap that rejects it or comes too   *)
(* late closes it for good.  Plans and taps are numbered in the order in   *)
(* which the owner sent them.                                              *)
(***************************************************************************)
EXTENDS Naturals

CONSTANT Plans

VARIABLES stage, taps, delegated

vars == <<stage, taps, delegated>>

Init == stage = [p \in Plans |-> "none"] /\ taps = {} /\ delegated = {}

Move(p, from, to) ==
  /\ stage[p] \in from
  /\ stage' = [stage EXCEPT ![p] = to]
  /\ UNCHANGED delegated

\* A tap counts after the plan and all earlier taps for it; the latest may be repeated.
By(p, actions) ==
  \E t \in taps' :
    /\ t.plan = p /\ t.action \in actions /\ p < t.at
    /\ \A x \in taps : x.plan = p => x.at < t.at \/ x = t
    /\ taps' = taps \cup {t}

Offer(p) == Move(p, {"none"}, "offered") /\ UNCHANGED taps
Approve(p) == Move(p, {"offered"}, "approved") /\ By(p, {"approve"})
Confirm(p) == Move(p, {"approved"}, "confirmed") /\ By(p, {"confirm"})
Close(p) == Move(p, {"offered", "approved"}, "closed") /\ By(p, {"approve", "confirm", "reject"})
Finish(p) == Move(p, {"confirmed"}, "done") /\ UNCHANGED taps

Delegate(p) ==
  /\ stage[p] = "confirmed"
  /\ delegated' = delegated \cup {p}
  /\ UNCHANGED <<stage, taps>>

Next ==
  \E p \in Plans :
    Offer(p) \/ Approve(p) \/ Confirm(p) \/ Close(p) \/ Delegate(p) \/ Finish(p)

Spec == Init /\ [][Next]_vars
================================================================================
