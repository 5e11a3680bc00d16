CONSTANTS
  sys = sys kno = kno res = res dev = dev cod = cod doc = doc
  d1 = d1 d2 = d2 Parent = Parent NoAgent = NoAgent NoTask = NoTask NoValue = NoValue
  Direct = {d1, d2}
  Agent <- TheAgents
  Kind <- TheKinds
  Task <- TheTasks
  Row <- TheRows
  Priority <- TheOrder
  Formatter = doc
  General = cod
  Librarian = kno
  Objectives = {}
  Limits = {1, 3}
  Asked = {sys, res}
  Reading <- TheReadings
  Answer <- TheAnswers
  MaxLost = 1
  TTL = 1
  MaxProcess = 2
  Faults = {"row", "beat", "crash"}
SPECIFICATION Spec
INVARIANTS
  LedgerIsTrue
  BusyIsVisible
CHECK_DEADLOCK FALSE
