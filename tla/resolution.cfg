SPECIFICATION FairSpec
CONSTANTS
  b1 = b1
  b2 = b2
  w1 = w1
  w2 = w2
  None = None
  Bookings = {b1}
  Workers = {w1, w2}
  SlotOf <- SameSlot
  Capacity = 1
  Amount = 1
  CapturedAmounts = {1}
  MerchantRefunds = {}
  RefundFeed = {}
  DeclinesMayHappen = FALSE
  Lossy = {}
  MaxFaults = 1
PROPERTIES PaidIsResolved
CHECK_DEADLOCK FALSE
