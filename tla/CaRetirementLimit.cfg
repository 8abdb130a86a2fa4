CONSTANTS
  root = root  mid = mid  leaf = leaf
  x1 = x1  x2 = x2
  r1 = r1  r2 = r2
  CAs = {root}
  Parent <- MCParentOne
  NoCA = NoCA
  Keyed = {root}
  Certs = {x1, x2}
  Requests = {r1}
  SearchLimit = 1
  Faults = FALSE
SPECIFICATION Spec
INVARIANT AllEarlyAreRevoked
