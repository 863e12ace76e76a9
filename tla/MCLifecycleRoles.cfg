CONSTANTS
  Tasks = {task}
  Users = {creator, vol, tru}
  Slots = {s0}
  Procs = {p1, p2}
  Creators = {creator}
  Applicants = {vol, tru}
  Registrants = {tru}
  Reviews = {"approved", "rejected"}
  None = None
  Clients = {c1}
  KeyTexts = {"k", "l", "work", "financial", "task-created-work", "task-created-financial"}
  Reasons = {"", "created", "started", "submitted", "verified", "closed"}
  Calls <- RaceCalls
SYMMETRY HandlerSymmetry
SPECIFICATION Spec
PROPERTIES
  SubmittedMeansReady
  VerifierIsIndependent
