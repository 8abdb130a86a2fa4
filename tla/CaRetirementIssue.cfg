CONSTANTS
  root = root  mid = mid  leaf = leaf
  x1 = x1  x2 = x2
  r1 = r1  r2 = r2
  CAs = {root, mid}
  Parent <- MCParentTwo
  NoCA = NoCA
  Keyed = {root, mid}
  Certs = {x1}
  Requests = {r1, r2}
  SearchLimit = 1
  Faults = FALSE
SPECIFICATION Spec
PROPERTY NothingSlipsThrough
