------------------------ MODULE ReservationLifecycle ------------------------
(***************************************************************************)
(* What the owner is promised about one execution id and the machine agents *)
(* it locks, whatever requests, runner, crashes and recoveries do: agents   *)
(* are acquired once, together and exclusively; work begins at most once;   *)
(* they are given back with a final outcome, or after a quarantine.         *)
(***************************************************************************)
CONSTANTS Execution, Agent

VARIABLES phase, locked

Final == {"completed", "failed", "cancelled", "manual_review"}

LifecycleInit ==
  /\ phase = [e \in Execution |-> "none"]
  /\ locked = [e \in Execution |-> {}]

Move(e, from, to) == phase[e] = from /\ phase' = [phase EXCEPT ![e] = to]
Unlock(e) == locked' = [locked EXCEPT ![e] = {}]

Acquire(e, A) ==
  /\ A # {}
  /\ \A f \in Execution : locked[f] \cap A = {}
  /\ Move(e, "none", "reserved")
  /\ locked' = [locked EXCEPT ![e] = A]

\* Nothing is reserved under an execution id that was rejected.
Decline(e) == Move(e, "none", "answered") /\ UNCHANGED locked

Begin(e) == Move(e, "reserved", "running") /\ UNCHANGED locked

Withdraw(e) == Move(e, "reserved", "cancelled") /\ Unlock(e)

Settle(e, outcome) == Move(e, "running", outcome) /\ Unlock(e)

Quarantine(e) == Move(e, "running", "manual_review") /\ UNCHANGED locked

Clear(e) == phase[e] = "manual_review" /\ Unlock(e) /\ UNCHANGED phase

LifecycleNext ==
  \E e \in Execution :
    \/ \E A \in SUBSET Agent : Acquire(e, A)
    \/ Decline(e) \/ Begin(e) \/ Withdraw(e)
    \/ \E outcome \in Final : Settle(e, outcome)
    \/ Quarantine(e) \/ Clear(e)

LifecycleSpec == LifecycleInit /\ [][LifecycleNext]_<<phase, locked>>
=============================================================================
