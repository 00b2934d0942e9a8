SPECIFICATION FairSpec
CONSTANTS
  k1 = k1
  k2 = k2
  e1 = e1
  e2 = e2
  w1 = w1
  w2 = w2
  None = None
  Keys = {k1, k2}
  Envelopes = {e1, e2}
  MaxAttempts <- Tries
  Workers = {w1, w2}
  Limit = 2
INVARIANTS LeasesHold
PROPERTIES KeepsPromise EventuallySettled
