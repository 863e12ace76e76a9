CONSTANTS
  Tasks = {task}
  Invoices = {h1, h2}
  Donors = {d1, d2}
  Foreign = Foreign
  None = None
  MaxForeign = 1
  MaxFaults = 2
SPECIFICATION FairSpec
CHECK_DEADLOCK FALSE
INVARIANTS
  TypeOK
  ResumeNeverSkips
  CreditedAtMostOnce
  PayableIsKnown
PROPERTIES
  ImplementsFlow
  PaidRecordedUnlessOmitted
