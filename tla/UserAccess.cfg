CONSTANTS
  alice = alice  bob = bob
  s1 = s1  t1 = t1
  r1 = r1  r2 = r2
  Users = {alice, bob}
  Local = {alice}
  Directory = {bob}
  BreakGlass = alice
  Sessions = {s1}
  Tokens = {t1}
  NoUser = NoUser
  NoToken = NoToken
  Requests = {r1, r2}
  CommandLine = {r1, r2}
SPECIFICATION Spec
SYMMETRY Symm
INVARIANTS TypeOK OnlyEntitledAccess
PROPERTY LastAdminStays
