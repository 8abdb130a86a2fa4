CONSTANTS
  u1 = u1  u2 = u2
  i1 = i1
  r1 = r1  r2 = r2
  Names = {u1, u2}
  IPs = {i1}
  Watched = {i1}
  NoKey = NoKey
  Logins = {r1, r2}
  Limit = 2
  Window = 2
  MaxFaults = 1
SPECIFICATION FairThrottleSpec
INVARIANTS ThrottleTypeOK GuessesAreBounded
PROPERTY RefusalEnds
