CONSTANTS
    None = None
    http = http  telegram = telegram  k1 = k1  k2 = k2  a1 = a1
    read = read  write = write  deploy = deploy  wipe = wipe
    web = web  ops = ops  run = run
    Categories <- MCCategories
    Requesters = {http, telegram}
    Requests <- MCRequests
    Risk <- MCRisk
    Agent <- MCAgent
    AgentRuns = {run}
    MaxCalls = 2
    MaxMoved = 1
    MaxTroubles = 1
SPECIFICATION Spec
INVARIANTS DelegationsAreSound OwnerIsToldOnce
PROPERTIES OwnerHears RefinesOutbox
CHECK_DEADLOCK FALSE
