CONSTANTS
  Tasks = {task}
  Invoices = {h1}
  Donors = {d1}
  Foreign = Foreign
  None = None
  MaxForeign = 1
  MaxFaults = 2
SPECIFICATION Spec
CHECK_DEADLOCK FALSE
PROPERTIES
  NoInvoiceAfterClose
