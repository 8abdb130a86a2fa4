--------------------------- MODULE LoginThrottle ---------------------------
(***************************************************************************)
(* The throttle of password logins, internal/web/ratelimit.go, as the two  *)
(* endpoints that check a password use it (internal/web/api_auth.go and    *)
(* session.go), over the auth_failures table that all replicas share.      *)
(*                                                                         *)
(* A login looks for recent failures of its user name and then of its      *)
(* address, checks the password, and then records a failure under both     *)
(* keys or forgets those of both: separate statements, with other logins   *)
(* between them.  Time is discrete; a statement takes none.                *)
(***************************************************************************)
EXTENDS Naturals, FiniteSets

CONSTANTS
  Names, IPs,     \* the two kinds of keys: user names and addresses
  Watched,        \* the keys whose wrong passwords are counted, for the properties; the
                  \* code treats both kinds of keys alike, so one key shows it
  NoKey,
  Logins,         \* logins in flight, on any replica
  Limit,          \* loginFailLimit
  Window,         \* loginFailWindow
  MaxFaults       \* bound: statements that fail, and logins that are cut short

ASSUME ThrottleAssumption ==
  /\ Watched \subseteq Names \cup IPs
  /\ IsFiniteSet(Logins)
  /\ Names \cap IPs = {} /\ NoKey \notin Names \cup IPs
  /\ Limit \in Nat \ {0} /\ Window \in Nat \ {0} /\ MaxFaults \in Nat

Keys == Names \cup IPs
Ages == 0 .. Window - 1
None == [n \in Ages |-> 0]

VARIABLES
  rows,      \* auth_failures: how many rows of each key are at most so old; what is older
             \* than Ages counts for nothing, whether the janitor has purged it or not
  at,        \* the next statement of each login
  user, ip,  \* its keys
  tried,     \* ghost: passwords found wrong since the key was reset, at most so old
  faults     \* ghost: faults so far

\* What RecentAuthFailures finds in the window.
Recent(f) == f[Window - 1]

\* What was recorded now is no older than any age.
OneMore(f) == [n \in Ages |-> f[n] + 1]

keyVars == <<user, ip>>
throttleVars == <<rows, at, keyVars, tried, faults>>

ThrottleTypeOK ==
  /\ \A k \in Keys : Recent(rows[k]) <= Limit + Cardinality(Logins) + MaxFaults - 1
  /\ rows \in [Keys -> [Ages -> Nat]]
  /\ at \in [Logins -> {"idle", "user", "ip", "auth", "failUser", "failIp", "okUser", "okIp"}]
  /\ user \in [Logins -> Names \cup {NoKey}]
  /\ ip \in [Logins -> IPs \cup {NoKey}]
  /\ tried \in [Watched -> [Ages -> Nat]]
  /\ faults \in 0 .. MaxFaults

ThrottleInit ==
  /\ rows = [k \in Keys |-> None]
  /\ at = [r \in Logins |-> "idle"]
  /\ user = [r \in Logins |-> NoKey]
  /\ ip = [r \in Logins |-> NoKey]
  /\ tried = [k \in Watched |-> None]
  /\ faults = 0

Proceed(r, label) == at' = [at EXCEPT ![r] = label]

Answer(r) ==
  /\ Proceed(r, "idle")
  /\ user' = [user EXCEPT ![r] = NoKey]
  /\ ip' = [ip EXCEPT ![r] = NoKey]

Fault == faults < MaxFaults /\ faults' = faults + 1

---------------------------------------------------------------------------
(* The counters *)

\* Mutant: one failure too many.
RefusedLate(k) == Recent(rows[k]) > Limit

\* retryAfter is positive: RecentAuthFailures yields Limit rows, the oldest of
\* which is still in the window.
Refused(k) == Recent(rows[k]) >= Limit

\* Fail adds a row; an error is ignored.
Fail(k) ==
  \/ rows' = [rows EXCEPT ![k] = OneMore(@)] /\ UNCHANGED faults
  \/ Fault /\ UNCHANGED rows

\* Reset deletes the rows of a key; an error is ignored.
Reset(k) ==
  \/ /\ rows' = [rows EXCEPT ![k] = None]
     /\ tried' = [w \in Watched |-> IF w = k THEN None ELSE tried[w]]
  \/ UNCHANGED <<rows, tried>>

---------------------------------------------------------------------------
(* Logins *)

Login(r, u, i) ==
  /\ at[r] = "idle"
  /\ Proceed(r, "user")
  /\ user' = [user EXCEPT ![r] = u]
  /\ ip' = [ip EXCEPT ![r] = i]
  /\ UNCHANGED <<rows, tried, faults>>

\* loginThrottle looks at the user name,
CheckUser(r) ==
  /\ at[r] = "user"
  /\ IF Refused(user[r]) THEN Answer(r) ELSE Proceed(r, "ip") /\ UNCHANGED keyVars
  /\ UNCHANGED <<rows, tried, faults>>

\* Mutant: the address is not looked at.
CheckIpNot(r) ==
  /\ at[r] = "ip"
  /\ Proceed(r, "auth")
  /\ UNCHANGED <<keyVars, rows, tried, faults>>

\* and then at the address.
CheckIp(r) ==
  /\ at[r] = "ip"
  /\ IF Refused(ip[r]) THEN Answer(r) ELSE Proceed(r, "auth") /\ UNCHANGED keyVars
  /\ UNCHANGED <<rows, tried, faults>>

\* "A database error fails open."
CheckFailsOpen(r) ==
  /\ \/ at[r] = "user" /\ Proceed(r, "ip")
     \/ at[r] = "ip" /\ Proceed(r, "auth")
  /\ Fault
  /\ UNCHANGED <<keyVars, rows, tried>>

\* Authenticate finds the password right, or does not.
Authenticated(r) ==
  /\ at[r] = "auth"
  /\ Proceed(r, "okUser")
  /\ UNCHANGED <<rows, keyVars, tried, faults>>

NotAuthenticated(r) ==
  /\ at[r] = "auth"
  /\ Proceed(r, "failUser")
  /\ tried' = [k \in Watched |-> IF k \in {user[r], ip[r]}
                              THEN OneMore(tried[k]) ELSE tried[k]]
  /\ UNCHANGED <<rows, keyVars, faults>>

\* loginFailed: the user name, then the address.
LoginFailed(r) ==
  /\ \/ at[r] = "failUser" /\ Fail(user[r]) /\ Proceed(r, "failIp") /\ UNCHANGED keyVars
     \/ at[r] = "failIp" /\ Fail(ip[r]) /\ Answer(r)
  /\ UNCHANGED tried

\* loginSucceeded: the same two keys.
LoginSucceeded(r) ==
  /\ \/ at[r] = "okUser" /\ Reset(user[r]) /\ Proceed(r, "okIp") /\ UNCHANGED keyVars
     \/ at[r] = "okIp" /\ Reset(ip[r]) /\ Answer(r)
  /\ UNCHANGED faults

\* The process dies, or the request is cancelled or malformed; what had to be
\* recorded is not.
CutShort(r) ==
  /\ at[r] # "idle"
  /\ IF at[r] \in {"failUser", "failIp"} THEN Fault ELSE UNCHANGED faults
  /\ Answer(r)
  /\ UNCHANGED <<rows, tried>>

---------------------------------------------------------------------------
(* The clock *)

\* Mutant: what is old counts for ever.
OlderForever(f) ==
  [n \in Ages |-> IF n = Window - 1 THEN f[n] ELSE IF n = 0 THEN 0 ELSE f[n - 1]]

\* A row counts while it is younger than Window.
Older(f) == [n \in Ages |-> IF n = 0 THEN 0 ELSE f[n - 1]]

Tick ==
  /\ (\E k \in Keys : Recent(rows[k]) > 0) \/ (\E k \in Watched : Recent(tried[k]) > 0)
  /\ rows' = [k \in Keys |-> Older(rows[k])]
  /\ tried' = [k \in Watched |-> Older(tried[k])]
  /\ UNCHANGED <<at, keyVars, faults>>

ThrottleNext ==
  \/ \E r \in Logins, u \in Names, i \in IPs : Login(r, u, i)
  \/ \E r \in Logins :
       \/ CheckUser(r) \/ CheckIp(r) \/ CheckFailsOpen(r)
       \/ Authenticated(r) \/ NotAuthenticated(r)
       \/ LoginFailed(r) \/ LoginSucceeded(r) \/ CutShort(r)
  \/ Tick

ThrottleSpec == ThrottleInit /\ [][ThrottleNext]_throttleVars

\* Time goes on.
FairThrottleSpec == ThrottleSpec /\ WF_throttleVars(Tick)

---------------------------------------------------------------------------
(* Properties *)

\* ratelimit.go: counting in the database "makes the limit hold for the deployment
\* as a whole".  However logins of all replicas interleave, in any window a key has
\* at most Limit - 1 wrong passwords, plus one for each login that may be in
\* flight, plus one for each failure that could not be counted; a success of the
\* key begins the count anew.
GuessesAreBounded ==
  \A k \in Watched : Recent(tried[k]) <= Limit - 1 + Cardinality(Logins) + faults

\* A key that is refused is accepted again after a while, without anybody having
\* signed in, however often it is tried meanwhile.
RefusalEnds == \A k \in Watched : Recent(rows[k]) >= Limit ~> Recent(rows[k]) < Limit
=============================================================================
