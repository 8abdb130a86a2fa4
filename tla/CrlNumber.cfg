CONSTANTS
  x1 = x1  x2 = x2
  r1 = r1  r2 = r2
  g1 = g1  g2 = g2
  s1 = s1
  Certs = {x1}
  NoCert = NoCert
  Requests = {r1, r2}
  Releasers = {r1}
  Subordinates = {s1}
  Generators = {g1, g2}
  MaxCRL = 2
SPECIFICATION CrlSpec
INVARIANT HigherIsNewer
