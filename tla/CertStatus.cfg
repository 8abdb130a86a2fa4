CONSTANTS
  x1 = x1  x2 = x2
  r1 = r1  r2 = r2  r3 = r3
  Certs = {x1, x2}
  NoCert = NoCert
  Requests = {r1, r2, r3}
  Releasers = {r1}
SPECIFICATION Spec
SYMMETRY Symm
INVARIANTS TypeOK PermanentStays SupersededHasReplacement
PROPERTIES ReasonIsKept
