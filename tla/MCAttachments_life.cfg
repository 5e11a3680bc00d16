CONSTANTS
  u1 = u1 u2 = u2 u3 = u3 r1 = r1 r2 = r2 c1 = c1
  NoDocument = NoDocument
  Upload = {u1, u2, u3}
  Document = {u1, u2, u3}
  Deletion = {r1, r2}
  Actor <- TheActors
  Conversation = {c1}
  ChunkSize = 6
  Overlap = 2
  Introduction = 2
  ExcerptLimit = 3
  Texts <- TheTexts
  Finds <- TheFinds
  Budgets <- TheBudgets
  MaxAttachments = 2
  MaxBytes = 3
  Sizes = {1, 2}
  MaxMessages = 1
  Faults = {"api", "lost", "db", "crash"}
SPECIFICATION MCSpec
SYMMETRY Symmetry
INVARIANTS
  AttachmentsAreWhole
  QuotaHolds
  ChunksCoverText
  ContextFits
CHECK_DEADLOCK FALSE
