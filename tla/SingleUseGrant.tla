---------------------------- MODULE SingleUseGrant ----------------------------
(***************************************************************************)
(* What a root authorization promises, without databases, sockets or       *)
(* processes: it is granted once, it is spent or it goes void, and only a  *)
(* spent grant lets the privileged command run, at most once.              *)
(***************************************************************************)
CONSTANT Plans

VARIABLES stage, used

vars == <<stage, used>>

Stages == {"none", "granted", "spent", "void"}

Init == stage = [p \in Plans |-> "none"] /\ used = {}

Move(p, from, to) ==
  /\ stage[p] = from
  /\ stage' = [stage EXCEPT ![p] = to]
  /\ UNCHANGED used

Grant(p) == Move(p, "none", "granted")
Spend(p) == Move(p, "granted", "spent")
Lapse(p) == Move(p, "granted", "void")

Use(p) ==
  /\ stage[p] = "spent" /\ p \notin used
  /\ used' = used \cup {p}
  /\ UNCHANGED stage

Next == \E p \in Plans : Grant(p) \/ Spend(p) \/ Lapse(p) \/ Use(p)

Spec == Init /\ [][Next]_vars
===============================================================================
