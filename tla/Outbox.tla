--------------------------------- MODULE Outbox ---------------------------------
(***************************************************************************)
(* What an outbox promises of its events, without tables, triggers or a    *)
(* worker: an event is written once; one event at a time is taken in hand, *)
(* shown at most once for each time it was taken, and then it is told, or  *)
(* goes back after a failure, or is stranded.  What is told or stranded is *)
(* not touched again.                                                      *)
(***************************************************************************)
EXTENDS Naturals

VARIABLES stage, copies    \* functions on the events written so far

vars == <<stage, copies>>

Init == DOMAIN stage = {} /\ DOMAIN copies = {}

InHand == {e \in DOMAIN stage : stage[e] \in {"taken", "shown", "failed"}}

\* An event that was not written before.
Write ==
  \E e \in DOMAIN stage' \ DOMAIN stage :
    /\ DOMAIN stage' = DOMAIN stage \cup {e} /\ DOMAIN copies' = DOMAIN stage'
    /\ \A f \in DOMAIN stage : stage'[f] = stage[f] /\ copies'[f] = copies[f]
    /\ stage'[e] = "pending" /\ copies'[e] = 0

Move(e, from, to) ==
  /\ stage[e] \in from
  /\ stage' = [stage EXCEPT ![e] = to]

Take(e) == InHand = {} /\ Move(e, {"pending"}, "taken") /\ UNCHANGED copies
Show(e) == Move(e, {"taken"}, "shown") /\ copies' = [copies EXCEPT ![e] = @ + 1]
Fail(e) == Move(e, {"taken", "shown"}, "failed") /\ UNCHANGED copies
GiveBack(e) == Move(e, {"failed"}, "pending") /\ UNCHANGED copies
Tell(e) == Move(e, {"shown"}, "told") /\ UNCHANGED copies
Strand(e) == Move(e, {"taken", "shown", "failed"}, "stranded") /\ UNCHANGED copies

Next ==
  \/ Write
  \/ \E e \in DOMAIN stage :
       Take(e) \/ Show(e) \/ Fail(e) \/ GiveBack(e) \/ Tell(e) \/ Strand(e)

Spec == Init /\ [][Next]_vars
=================================================================================
