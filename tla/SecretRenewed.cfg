CONSTANTS
  s1 = s1  s2 = s2
  a = a
  w1 = w1
  r1 = r1  r2 = r2
  Secrets = {s1, s2}
  Certificate = {s1}
  Values = {a}
  NoRow = NoRow
  Scrubbed = Scrubbed
  Workloads = {w1}
  NoSecret = NoSecret
  Requests = {r1, r2}
  NoRequest = NoRequest
  MaxVersion = 2
  MaxRenewals = 1
SPECIFICATION Spec
INVARIANT RenewedIsServed
