CONSTANTS
  e1 = e1  e2 = e2
  h1 = h1
  p1 = p1  p2 = p2
  Events = {e1}
  Hooks = {h1}
  Matches <- MCMatches
  Dispatchers = {p1, p2}
  Batch = 1
  MaxAttempts = 2
  Timeout = 1
  ClaimStale = 2
  Backoff = 2
  MaxDelay = 2
  Undecryptable = {}
  MaxFaults = 0
SPECIFICATION Spec

PROPERTY DisabledIsSkipped
