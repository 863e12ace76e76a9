CONSTANTS
  Tasks = {task}
  Users = {creator, vol, tru}
  Slots = {s0}
  Procs = {p1}
  Creators = {creator}
  Applicants = {vol}
  Registrants = {tru}
  Reviews = {"approved"}
  None = None
  Clients = {c1, c2}
  KeyTexts = {"k", "l", "work", "financial", "task-created-work", "task-created-financial"}
  Reasons = {"", "asked", "created", "started", "submitted", "verified", "closed"}
  Calls <- MergedCalls
SYMMETRY ClientSymmetry
SPECIFICATION Spec
INVARIANTS
  TypeOK
  HistoryMatchesState
  OneEffectPerKey
  RepliesAreStable
  AnnouncedAtMostOnce
  CompletionClosesDonations
PROPERTIES
  ImplementsFlow
