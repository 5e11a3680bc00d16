CONSTANTS
  Plans = {p1, p2}
  Backend = {p1, p2}
  Reservations = {r1, r2}
  NoReservation = NoReservation
  NoRequest = NoRequest
  Faults = {"crash", "busy"}
SPECIFICATION FairSpec
INVARIANT AuthorizedOnce
INVARIANT RecordIsTrue
PROPERTY SettledOnlyExpires
PROPERTY RefinesSingleUse
PROPERTY ExecutionEnds
