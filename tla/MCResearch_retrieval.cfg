SPECIFICATION Spec
CONSTANTS
  Url <- Pages
  KeyOf <- SameKey
  FamilyOf <- Family
  Words <- Asking
  RawResults <- Returns
  Blocked = {"local"}
  Address = {1, 2, 3}
  Public = {1, 3}
  Text = {"t"}
  MaxUrls = 2
  MaxRedirects = 1
  MaxRetries = 1
  MaxBody = 1
  Nothing = Nothing
INVARIANTS
  ContactsAreAdmitted
  EvidenceIsWhole
  SelectionIsDiverse
PROPERTY
  ResearchEnds
