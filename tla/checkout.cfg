SPECIFICATION PageSpec
CONSTANTS
  None = None
  Page = Page
  Callers = {Page}
  Keys = {1, 2}
  Services = {"removal", "consult"}
  Configurable = {"removal"}
  Selections = {"blank", "full", "plain"}
  ServiceOf <- SelectionService
  EmptySelection <- FirstSelection
  Valid <- ValidSelections
  Customers = {"ann", "bob"}
  Slots = {9, 10}
  Requests <- AllRequests
  SlotOf <- RequestSlot
  Priceable <- PriceableRequests
  Capacity = 1
  Price = 1
  MemberStates = {}
  MaxRecords = 2
  MaxAttempts = 2
  MaxReloads = 1
INVARIANTS PageIsTrue
PROPERTIES NothingHangs
CHECK_DEADLOCK FALSE
