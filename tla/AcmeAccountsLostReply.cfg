CONSTANTS
  k1 = k1  k2 = k2
  c1 = c1  c2 = c2
  r1 = r1  r2 = r2
  Keys = {k1, k2}
  Creds = {c1, c2}
  Requests = {r1, r2}
  MaxAccounts <- MCMax
  NoAccount = NoAccount
SPECIFICATION Spec
SYMMETRY Symm
INVARIANT AccountCap
