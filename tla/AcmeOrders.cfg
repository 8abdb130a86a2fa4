CONSTANTS
  o1 = o1
  a1 = a1  a2 = a2
  c1 = c1
  r1 = r1  r2 = r2
  Orders = {o1}
  Accounts = {a1, a2}
  Creds = {c1}
  CredOf <- MCCredOf
  Requests = {r1, r2}
SPECIFICATION FairSpec
INVARIANTS TypeOK FinalizeIsSound OnlyEntitledIssue
PROPERTIES OrdersKeepPromise ClaimResolves
