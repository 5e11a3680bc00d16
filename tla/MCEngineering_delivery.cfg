CONSTANTS
  d1 = d1 d2 = d2 t1 = t1 p = p q = q o = o next = next release = release
  Nothing = Nothing
  Driver = {d1, d2}
  Ticket = {t1}
  Path = {p, q, o}
  Allowed = {p, q}
  Tracked = {o}
  Base = {next, release}
  Stamps = {1, 2}
  MaxChanged = 2
  MaxRuns = 2
  MaxPulls = 2
  MaxTrouble = 1
  Faults = {"fail", "lost", "crash", "late", "clean", "owner"}
SYMMETRY Alike
SPECIFICATION Spec
INVARIANTS
  PublishedWithinScope
  EvidenceIsTrue
PROPERTIES
  RefinesReviewed
CHECK_DEADLOCK FALSE
