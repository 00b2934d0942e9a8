SPECIFICATION Spec
CONSTANTS
  Callers = {c1, c2}
  Keys = {k1, k2}
  Requests = {s1}
  Slots = {s1}
  SlotOf <- RequestIsSlot
  Priceable = {s1}
  Capacity = 1
  Price = 1
  MemberStates <- Asked
  MaxRecords = 3
  MaxAttempts = 2
  Bookings = {"b1", "b2"}
  Crews = {"one", "two"}
  Workers <- MCWorkers
  Calls = {1, 2}
  PoolMax = 2
  GroupTTL = 1
  CallBudget = 2
  PlanningHorizon = 2
  MaxGenerations = 2
  Us = "us"
  DeskBookings <- MCDeskBookings
  DeskCustomers <- MCDeskCustomers
  DeskServices <- MCDeskServices
  UpcomingLimit = 5
  MaxEdits = 1
  Units <- MCUnits
  Windows <- MCWindows
  Holders = {"h1", "h2"}
  Needs <- MCNeeds
  RowQuantities = {1}
  HoldFor = 1
  LastMoment = 1
  OwnerRequests = {r1, r2, r3}
  HttpRequests = {1, 2, 3}
  OwnerAsks <- MCOwnerAsks
  Addresses = {"loopback"}
  ActiveLimit = 3
  ScopeLimit = 2
  RateLimit <- MCRateLimit
  MaxWindows = 4
  WindowLength = 1
  LastTick = 1
  Transactions = {x1, x2, x3}
  LockedBookings = {"b1", "b2"}
SYMMETRY CallersAndKeys
INVARIANTS BookingsAreSound PlanningHolds DeskAgrees ReaderIsWriter
PROPERTIES OwnerServiceHolds
CHECK_DEADLOCK FALSE
