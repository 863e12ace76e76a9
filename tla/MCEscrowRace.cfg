CONSTANTS
  Tasks = {task}
  Users = {owner, ann, ben, cat}
  Slots = {s0, s1, s2, s3}
  Procs = {p1, p2}
  Creators = {owner}
  Applicants = {}
  Registrants = {ann, ben, cat}
  Reviews = {}
  None = None
  Keys = {shared, s2, s3}
  Sharing = {s0, s1}
  SharedKey = shared
  SlotKey <- SomeKeysShared
  Threshold = 2
  SignProcs = {q1, q2}
SYMMETRY Symmetry
SPECIFICATION EscrowSpec
INVARIANTS
  EscrowTypeOK
  ThresholdNotMissed
  PayoutNeedsTrustees
PROPERTIES
  ImplementsFlow
