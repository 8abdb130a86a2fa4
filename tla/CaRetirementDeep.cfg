CONSTANTS
  root = root  mid = mid  leaf = leaf
  x1 = x1  x2 = x2
  r1 = r1  r2 = r2
  CAs = {root, mid, leaf}
  Parent <- MCParent
  NoCA = NoCA
  Keyed = {root, mid, leaf}
  Certs = {x1}
  Requests = {r1}
  SearchLimit = 1
  Faults = TRUE
SPECIFICATION FairSpec
INVARIANT CascadeComplete
PROPERTY RetirementEnds
