CONSTANTS
  t1 = t1
  t2 = t2
  Tasks = {t1, t2}
  Events <- SomeEvents
  Listener = listener
  Writers = {listener, r1}
  None = None
  MaxFaults = 2
SPECIFICATION FairSpec
CHECK_DEADLOCK FALSE
INVARIANTS
  TypeOK
  NoFalseAlarm
  AcceptedMeansUnaltered
  LedgerFollowsEvents
  BalanceIsPaid
PROPERTIES
  RecordingReturns
