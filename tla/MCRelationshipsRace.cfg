CONSTANTS
  Tasks = {task}
  Users = {alice, bob}
  Slots = {s0, s1}
  Procs = {p1, p2}
  Creators = {alice}
  Applicants = {alice, bob}
  Registrants = {alice, bob}
  Reviews = {"approved", "rejected"}
  None = None
SYMMETRY Symmetry
SPECIFICATION HistorySpec
INVARIANTS
  RelTypeOK
  EventsHaveRows
  RolesApartUnlessOverlap
PROPERTIES
  SlotNeverReassigned
