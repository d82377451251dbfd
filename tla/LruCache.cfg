SPECIFICATION Spec
CONSTANTS
  k1 = k1
  k2 = k2
  k3 = k3
  k4 = k4
  n1 = n1
  n2 = n2
  n3 = n3
  n4 = n4
  Keys = {k1, k2, k3, k4}
  Nodes = {n1, n2, n3, n4}
  Capacities = {0, 1, 3}
  MaxRequests = 3
  NoNode = NoNode
INVARIANTS HoldsMostRecent NoDanglingIterator
SYMMETRY Symmetry
