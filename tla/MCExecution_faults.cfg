SPECIFICATION Spec
CONSTANTS
  t1 = t1 t2 = t2 t3 = t3 d1 = d1 d2 = d2 a1 = a1 a2 = a2 e1 = e1 e2 = e2 k1 = k1
  Task = {t1, t2, t3}
  Delegation = {d1, d2}
  Agent = {a1, a2}
  Execution = {e1, e2}
  ControlKey = {k1}
  DelegationOf <- TwoDelegations
  AgentOf <- SharedAgent
  NoTask = NoTask
  NoExecution = NoExecution
  Faults = {"other_run"}
PROPERTIES
  SettledIsSettled
  RefinesLifecycle
CHECK_DEADLOCK FALSE
