CONSTANTS
  Tasks = {task}
  Invoices = {h1}
  Donors = {d1}
  Foreign = Foreign
  None = None
  MaxForeign = 1
  MaxFaults = 2
SPECIFICATION FairSpec
CHECK_DEADLOCK FALSE
PROPERTIES
  PaidEventuallyRecorded
