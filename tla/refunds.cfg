SPECIFICATION Spec
CONSTANTS
  b1 = b1
  b2 = b2
  w1 = w1
  w2 = w2
  None = None
  Bookings = {b1}
  Workers = {w1, w2}
  SlotOf <- SameSlot
  Capacity = 1
  Amount = 2
  CapturedAmounts = {1, 2}
  MerchantRefunds = {1}
  RefundFeed = {"charge", "refund"}
  DeclinesMayHappen = TRUE
  Lossy <- AllUnchecked
  MaxFaults = 1
SYMMETRY Symm
VIEW View
INVARIANTS RefundedMeansReturned
PROPERTIES ConsumedHoldIsKept
CHECK_DEADLOCK FALSE
