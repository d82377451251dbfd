SPECIFICATION Spec
CONSTANTS
  t1 = t1
  t2 = t2
  t3 = t3
  k1 = k1
  k2 = k2
  l1 = l1
  l2 = l2
  l3 = l3
  Threads = {t1, t2, t3}
  Keys = {k1, k2}
  Loads = {l1, l2, l3}
  Capacity = 1
  MaxFailures = 2
  NoKey = NoKey
  NoLoad = NoLoad
  NoThread = NoThread
INVARIANTS IndexMatchesOrder SleeperHasLoader PeerValueMatches
PROPERTIES ImplementsSingleFlight AcquireReturns
