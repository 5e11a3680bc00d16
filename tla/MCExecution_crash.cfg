SPECIFICATION FairSpec
CONSTANTS
  t1 = t1 t2 = t2 t3 = t3 d1 = d1 d2 = d2 a1 = a1 a2 = a2 e1 = e1 e2 = e2 k1 = k1
  Task = {t1, t2}
  Delegation = {d1}
  Agent = {a1, a2}
  Execution = {e1, e2}
  ControlKey = {k1}
  DelegationOf <- OneDelegation
  AgentOf <- OwnAgents
  NoTask = NoTask
  NoExecution = NoExecution
  Faults = {"crash"}
INVARIANTS
  ReservationIsWhole
  CompletionIsTrue
  RunnerIsUndisturbed
  NoReplay
  LeaseConsistent
PROPERTIES
  ChildOutcomeIsFinal
  ClaimIsSettled
CHECK_DEADLOCK FALSE
