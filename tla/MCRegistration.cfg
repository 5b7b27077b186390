\* Safety only, so the requests are symmetric.
CONSTANTS
  Requests = {r1, r2}
  Visits = {v1, v2}
  r1 = r1
  r2 = r2
  v1 = v1
  v2 = v2
  e1 = e1
  e2 = e2
  g1 = g1
  i1 = i1
  Emails = {e1, e2}
  Subjects = {g1}
  Intents = {i1}
  EmailOf <- OneEmail
  Errands <- SomeErrands
  Makers <- AllMakers
  FirstAccounts <- SomeAccounts
  FirstLinks <- SomeLinks
  FirstPending <- SomePending
  Asks <- SomeAsks
  First = First
  Codes = {First, r1, r2}
  Capacity = 1
  MaxAttempts = 1
  MaxPerHour = 1
  NoEmail = NoEmail
  NoIntent = NoIntent
  NoErrand = NoErrand
  NoAnswer = NoAnswer
  NoPassword = NoPassword
  Nobody = Nobody
  NoAsk = NoAsk
  NoRow = NoRow
  Wrong = Wrong
SPECIFICATION Spec
INVARIANTS GuessesBounded CodesWithinLimit ConsumedHasAccount 
INVARIANTS LinkedOnly OneAdmin VerificationNotVictim
PROPERTIES OpenedByCurrentCode AccountsKept 
CONSTRAINT Few
SYMMETRY Symmetry
VIEW WithoutAnswers
CHECK_DEADLOCK FALSE
