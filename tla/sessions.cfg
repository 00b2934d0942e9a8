SPECIFICATION SessionSpec
CONSTANTS
  None = None
  c1 = c1
  soon = soon
  later = later
  Contexts = {c1}
  Intents = {soon, later}
  StartOf <- Starts
  MaxCalls = 3
  MaxTime = 4
  MaxRevision = 1
  Life = 3
  Patience = 1
  Skew = 1
INVARIANTS AnswersAreTrue
PROPERTIES PolicyHolds NothingLingers
CHECK_DEADLOCK FALSE
