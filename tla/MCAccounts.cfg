CONSTANTS
  Texts <- Spellings
  MinDigits = 2
  MaxDigits = 3
  Passwords = {pw1}
  AccountIds = {a1, a2}
  Tokens = {k1, k2}
  Clients = {c1}
  Requests = {q1, q2}
  Values = {v1}
  None = None
SYMMETRY Symmetry
SPECIFICATION Spec
CHECK_DEADLOCK FALSE
INVARIANTS
  TypeOK
  OneAccountPerNumber
  AccountsAreUsable
  SignedInAsNamed
  ActsForCookieOwner
  EndedSessionsServeNothing
  EndedCookiesAreCleared
  AnswersShowTheUpdate
