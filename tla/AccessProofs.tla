---------------------------- MODULE AccessProofs ----------------------------
(***************************************************************************)
(* What the runs of UserAccess.cfg, UserAccessAdmin.cfg and                *)
(* LoginThrottle.cfg check on small instances, for any users, sessions,    *)
(* tokens and requests, and for any logins, keys, limit and window.        *)
(***************************************************************************)
EXTENDS UserAccess, LoginThrottle, FiniteSetTheorems, TLAPS

---------------------------------------------------------------------------
(* Accounts, sessions and tokens *)

PCs == {"idle", "sync", "reread", "issue", "owner", "granted",
        "count", "write", "create", "sessions"}

\* TypeOK row by row: the tables, and what refers to an account,
Rows ==
  /\ role \in [Users -> Roles \cup {"none"}]
  /\ disabled \in SUBSET Users
  /\ owner \in [Sessions -> Users \cup {NoUser}]
  /\ token \in [Tokens -> [owner : Users, role : Roles] \cup {NoToken}]
  /\ revoked \in SUBSET Tokens

Referenced ==
  /\ \A u \in disabled : Exists(u)
  /\ \A s \in Sessions : owner[s] # NoUser => Exists(owner[s])
  /\ \A t \in Tokens : token[t] # NoToken => Exists(token[t].owner)

\* and the locals of the requests.
Locals ==
  /\ pc \in [Requests -> PCs]
  /\ who \in [Requests -> Users \cup {NoUser}]
  /\ as \in [Requests -> Roles \cup {"none"}]
  /\ what \in [Requests -> Deeds \cup {"none"}]
  /\ gone \in SUBSET Requests /\ disturbed \in SUBSET Requests
  /\ barred \in SUBSET Requests /\ weak \in SUBSET Requests /\ capped \in SUBSET Requests
  /\ command \in SUBSET Requests

\* What a request knows: whom it is about, and that the account is there as
\* long as it was not deleted since its id was read.
Knows(r) ==
  /\ pc[r] # "idle" => who[r] \in Users /\ as[r] \in Roles
  /\ pc[r] \in {"count", "write"} => what[r] \in Deeds
  /\ pc[r] \in {"reread", "issue", "owner", "granted", "count", "write", "sessions"} /\ r \notin gone
       => Exists(who[r])

\* The users of the requests in barred and weak are still so, and none of these
\* requests is idle or administers.
Entitled(r) ==
  /\ r \in barred => role[who[r]] = "none" \/ who[r] \in disabled
  /\ r \in weak => role[who[r]] # "admin"
  /\ r \in barred \cup weak => pc[r] \in {"sync", "reread", "issue", "owner", "granted"}
  /\ r \in capped => pc[r] \in {"owner", "granted"} /\ as[r] # "admin"
  /\ pc[r] = "granted" => r \notin barred
  /\ (pc[r] \in {"issue", "granted"} /\ as[r] = "admin") => r \notin weak

\* What a request has read is still so, if no account was changed since; one of
\* the portal that is about to take something away from an administrator leaves
\* another one.
Fresh(r) ==
  /\ pc[r] = "count" => as[r] = "admin"
  /\ pc[r] = "sync" /\ r \notin disturbed /\ role[who[r]] = "admin" => as[r] = "admin"
  /\ pc[r] = "create" /\ r \notin disturbed => role[who[r]] = "none"
  /\ pc[r] = "write" /\ r \notin command \cup disturbed \cup gone /\ role[who[r]] = "admin" =>
       /\ as[r] = "admin"
       /\ what[r] \in {"demote", "disable", "delete"} => \E v \in Admins : v # who[r]

Inv(r) == Knows(r) /\ Entitled(r) /\ Fresh(r)
AccessInv == Rows /\ Referenced /\ Locals /\ \A r \in Requests : Inv(r)

\* The row by row form is what TypeOK says.
LEMMA TypedIsTypeOK == ASSUME AccessInv PROVE TypeOK
<1> DEFINE E == {u \in Users : Exists(u)}
<1>1. disabled \in SUBSET E
  BY DEF AccessInv, Rows, Referenced
<1>2. owner \in [Sessions -> E \cup {NoUser}]
  BY DEF AccessInv, Rows, Referenced
<1>3. token \in [Tokens -> [owner : E, role : Roles] \cup {NoToken}]
  BY DEF AccessInv, Rows, Referenced
<1> QED
  BY <1>1, <1>2, <1>3 DEF AccessInv, Rows, Locals, TypeOK, PCs

---------------------------------------------------------------------------
(* Steps that write no account *)

\* The step leaves request q alone.
Stays(q) ==
  /\ pc'[q] = pc[q] /\ who'[q] = who[q] /\ as'[q] = as[q] /\ what'[q] = what[q]
  /\ q \in gone' <=> q \in gone
  /\ q \in disturbed' <=> q \in disturbed
  /\ q \in barred' <=> q \in barred
  /\ q \in weak' <=> q \in weak
  /\ q \in capped' <=> q \in capped
  /\ q \in command' <=> q \in command

\* A request that is left alone keeps its invariant.
LEMMA StaysInv ==
  ASSUME NEW q \in Requests, Stays(q), UNCHANGED accounts, Inv(q)
  PROVE  Inv(q)'
<1>1. Admins' = Admins
  BY DEF accounts, Admins
<1>2. role' = role /\ disabled' = disabled
  BY DEF accounts
<1>3. Knows(q)'
  BY <1>2 DEF Inv, Knows, Stays, Exists
<1>4. Entitled(q)'
  BY <1>2 DEF Inv, Entitled, Stays
<1>5. Fresh(q)'
  BY <1>1, <1>2 DEF Inv, Fresh, Stays
<1> QED
  BY <1>3, <1>4, <1>5 DEF Inv

\* A request that goes on to administer, or ends: its past is forgotten.
LEMMA Administered ==
  ASSUME Locals, NEW r \in Requests, NEW label \in PCs, NEW u \in Users \cup {NoUser},
         NEW ro \in Roles \cup {"none"}, NEW deed \in Deeds \cup {"none"},
         Administering(r, label, u, ro, deed)
  PROVE  /\ Locals'
         /\ \A q \in Requests \ {r} : Stays(q)
         /\ pc'[r] = label /\ who'[r] = u /\ as'[r] = ro /\ what'[r] = deed
         /\ r \notin gone' \cup disturbed' \cup barred' \cup weak' \cup capped'
         /\ label # "idle" /\ pc[r] = "idle" => r \in command'
<1>1. /\ pc' \in [Requests -> PCs] /\ who' \in [Requests -> Users \cup {NoUser}]
      /\ as' \in [Requests -> Roles \cup {"none"}] /\ what' \in [Requests -> Deeds \cup {"none"}]
  BY DEF Administering, Goto, Locals
<1>2. /\ gone' \in SUBSET Requests /\ disturbed' \in SUBSET Requests
      /\ barred' \in SUBSET Requests /\ weak' \in SUBSET Requests /\ capped' \in SUBSET Requests
      /\ command' \in SUBSET Requests
  BY DEF Administering, Locals
<1>3. \A q \in Requests \ {r} : Stays(q)
  BY DEF Administering, Goto, Locals, Stays
<1>4. pc'[r] = label /\ who'[r] = u /\ as'[r] = ro /\ what'[r] = deed
  BY DEF Administering, Goto, Locals
<1> QED
  BY <1>1, <1>2, <1>3, <1>4 DEF Administering, Locals

\* A request that ends keeps every invariant.
LEMMA Returned ==
  ASSUME Locals, \A q \in Requests : Inv(q), UNCHANGED accounts,
         NEW r \in Requests, Return(r)
  PROVE  Locals' /\ \A q \in Requests : Inv(q)'
<1>1. /\ Locals' /\ \A q \in Requests \ {r} : Stays(q)
      /\ pc'[r] = "idle"
      /\ r \notin gone' \cup disturbed' \cup barred' \cup weak' \cup capped'
  BY Administered DEF Return, PCs
<1>2. Inv(r)'
  BY <1>1 DEF Inv, Knows, Entitled, Fresh
<1> QED
  BY <1>1, <1>2, StaysInv

\* A request that begins for user u.
LEMMA Begun ==
  ASSUME Locals, \A q \in Requests : Inv(q), UNCHANGED accounts,
         NEW r \in Requests, NEW label \in PCs, NEW u \in Users, NEW ro \in Roles,
         Begin(r, label, u, ro),
         disturbed' \in {disturbed, disturbed \cup {r}}, capped' \in {capped, capped \cup {r}}
  PROVE  /\ Locals'
         /\ \A q \in Requests \ {r} : Inv(q)'
         /\ pc'[r] = label /\ who'[r] = u /\ as'[r] = ro
         /\ r \in barred' => ~Exists(u) \/ u \in disabled
         /\ r \in weak' => role[u] # "admin"
         /\ r \notin capped /\ role' = role /\ disabled' = disabled
<1>1. /\ pc' \in [Requests -> PCs] /\ who' \in [Requests -> Users \cup {NoUser}]
      /\ as' \in [Requests -> Roles \cup {"none"}] /\ what' \in [Requests -> Deeds \cup {"none"}]
  BY DEF Begin, Goto, Locals
<1>2. /\ gone' \in SUBSET Requests /\ disturbed' \in SUBSET Requests
      /\ barred' \in SUBSET Requests /\ weak' \in SUBSET Requests /\ capped' \in SUBSET Requests
      /\ command' \in SUBSET Requests
  BY DEF Begin, Locals
<1>3. \A q \in Requests \ {r} : Stays(q)
  BY DEF Begin, Goto, Locals, Stays
<1>4. pc'[r] = label /\ who'[r] = u /\ as'[r] = ro
  BY DEF Begin, Goto, Locals
<1>5. r \notin barred \cup weak \cup capped
  BY DEF Begin, Inv, Entitled
<1> QED
  BY <1>1, <1>2, <1>3, <1>4, <1>5, StaysInv DEF Begin, Locals, accounts

---------------------------------------------------------------------------
(* Steps that write an account *)

\* An account is written: every other request keeps its invariant, or is disturbed.
LEMMA ChangeInv ==
  ASSUME NEW q \in Requests, NEW R, NEW nr, NEW nd, Change(R, nr, nd), q \notin R,
         Inv(q),
         pc'[q] = pc[q], who'[q] = who[q], as'[q] = as[q], what'[q] = what[q],
         q \in capped' <=> q \in capped, q \in command' <=> q \in command,
         q \in gone => q \in gone',
         q \notin gone' /\ Exists(who[q]) => nr[who[q]] # "none"
  PROVE  Inv(q)'
<1>1. role' = nr /\ disabled' = nd
  BY DEF Change
<1>2. Knows(q)'
  BY <1>1 DEF Inv, Knows, Exists
<1>3. /\ q \in barred' => q \in barred /\ (nr[who[q]] = "none" \/ who[q] \in nd)
      /\ q \in weak' => q \in weak /\ nr[who[q]] # "admin"
  BY DEF Change
<1>4. Entitled(q)'
  BY <1>1, <1>3 DEF Inv, Entitled
<1>5. CASE nr = role /\ nd = disabled
  <2>1. Admins' = Admins
    BY <1>1, <1>5 DEF Admins
  <2>2. q \in disturbed' <=> q \in disturbed
    BY <1>5 DEF Change
  <2>3. Fresh(q)'
    BY <1>1, <1>5, <2>1, <2>2 DEF Inv, Fresh
  <2> QED
    BY <1>2, <1>4, <2>3 DEF Inv
<1>6. CASE ~(nr = role /\ nd = disabled)
  <2>1. pc[q] \in {"sync", "write", "create"} => q \in disturbed'
    BY <1>6 DEF Change
  <2>2. Fresh(q)'
    BY <2>1 DEF Inv, Fresh
  <2> QED
    BY <1>2, <1>4, <2>2 DEF Inv
<1> QED
  BY <1>5, <1>6

\* The same, for a request that need not be about a user: one that is idle.
LEMMA ChangeSafely ==
  ASSUME NEW q \in Requests, NEW R, NEW nr, NEW nd, Change(R, nr, nd), q \notin R,
         Inv(q),
         pc'[q] = pc[q], who'[q] = who[q], as'[q] = as[q], what'[q] = what[q],
         q \in capped' <=> q \in capped, q \in command' <=> q \in command,
         q \in gone => q \in gone',
         q \notin gone' /\ Exists(who[q]) /\ who[q] \in Users => nr[who[q]] # "none"
  PROVE  Inv(q)'
<1>1. CASE who[q] \in Users
  BY <1>1, ChangeInv
<1>2. CASE who[q] \notin Users
  <2>1. pc[q] = "idle"
    BY <1>2 DEF Inv, Knows
  <2>2. q \notin barred' \cup weak' \cup capped'
    BY <2>1 DEF Change, Inv, Entitled
  <2> QED
    BY <2>1, <2>2 DEF Inv, Knows, Entitled, Fresh
<1> QED
  BY <1>1, <1>2

\* The ghosts that Change writes keep their types.
LEMMA ChangeTypes ==
  ASSUME Locals, NEW R, NEW nr, NEW nd, Change(R, nr, nd)
  PROVE  /\ role' = nr /\ disabled' = nd
         /\ disturbed' \in SUBSET Requests /\ barred' \in SUBSET barred /\ weak' \in SUBSET weak
         /\ \A q \in weak' : nr[who[q]] # "admin"
         /\ \A q \in barred' : nr[who[q]] = "none" \/ who[q] \in nd
BY DEF Change, Locals

\* A request that has written and ends.
LEMMA FinishedSafely ==
  ASSUME Locals, \A q \in Requests : Inv(q), NEW r \in Requests, NEW Q \in SUBSET Requests,
         NEW nr, NEW nd, Change({r}, nr, nd), Finish(r, Q), capped' = capped,
         pc[r] \in {"write", "create"},
         \A q \in Requests \ Q : Exists(who[q]) /\ who[q] \in Users => nr[who[q]] # "none"
  PROVE  Locals' /\ \A q \in Requests : Inv(q)'
<1>1. /\ pc' \in [Requests -> PCs] /\ who' \in [Requests -> Users \cup {NoUser}]
      /\ as' \in [Requests -> Roles \cup {"none"}] /\ what' \in [Requests -> Deeds \cup {"none"}]
  BY DEF Finish, Goto, Locals, PCs
<1>2. /\ gone' \in SUBSET Requests /\ disturbed' \in SUBSET Requests
      /\ barred' \in SUBSET Requests /\ weak' \in SUBSET Requests /\ capped' \in SUBSET Requests
      /\ command' \in SUBSET Requests
  BY ChangeTypes DEF Finish, Locals
<1>3. Inv(r)'
  <2>1. pc'[r] = "idle"
    BY DEF Finish, Goto, Locals
  <2>2. r \notin barred' \cup weak' \cup capped'
    BY ChangeTypes DEF Inv, Entitled
  <2> QED
    BY <2>1, <2>2 DEF Inv, Knows, Entitled, Fresh
<1>4. ASSUME NEW q \in Requests \ {r} PROVE Inv(q)'
  <2>1. /\ pc'[q] = pc[q] /\ who'[q] = who[q] /\ as'[q] = as[q] /\ what'[q] = what[q]
        /\ q \in capped' <=> q \in capped
        /\ q \in command' <=> q \in command
    BY DEF Finish, Goto, Locals
  <2>2. /\ q \in gone => q \in gone'
        /\ q \notin gone' => q \notin Q
    BY DEF Finish
  <2> QED
    BY <2>1, <2>2, ChangeSafely
<1> QED
  BY <1>1, <1>2, <1>3, <1>4 DEF Locals

---------------------------------------------------------------------------
(* The invariant *)

\* The tables, when only sessions and tokens are written.
LEMMA CredentialsKept ==
  ASSUME Rows, Referenced, UNCHANGED accounts, UNCHANGED credentials
  PROVE  (Rows /\ Referenced)'
BY DEF Rows, Referenced, Exists, accounts, credentials

\* The tables, when accounts are written and none is deleted.
LEMMA AccountsKept ==
  ASSUME Rows, Referenced, UNCHANGED credentials,
         role' \in [Users -> Roles \cup {"none"}], disabled' \in SUBSET Users,
         \A u \in Users : Exists(u) => Exists(u)',
         \A u \in disabled' : Exists(u)'
  PROVE  (Rows /\ Referenced)'
<1>1. /\ owner' = owner /\ token' = token /\ revoked' = revoked
  BY DEF credentials
<1>2. Rows'
  BY <1>1 DEF Rows
<1>3. \A s \in Sessions : owner[s] # NoUser => role'[owner[s]] # "none"
  BY DEF Rows, Referenced, Exists
<1>4. \A t \in Tokens : token[t] # NoToken => role'[token[t].owner] # "none"
  BY DEF Rows, Referenced, Exists
<1> QED
  BY <1>1, <1>2, <1>3, <1>4 DEF Referenced, Exists

\* Sign-ins keep the invariant.
LEMMA SignInStep ==
  ASSUME AccessInv, NEW r \in Requests, SignIn(r)
  PROVE  AccessInv'
<1> USE DEF AccessInv
<1>1. ASSUME NEW u \in Users, Authenticate(r, u)
      PROVE  AccessInv'
  <2>1. role[u] \in Roles /\ "issue" \in PCs /\ Begin(r, "issue", u, role[u])
        /\ UNCHANGED accounts /\ UNCHANGED credentials /\ disturbed' = disturbed /\ capped' = capped
    BY <1>1 DEF Authenticate, Exists, Rows, PCs
  <2>2. /\ Locals' /\ \A q \in Requests \ {r} : Inv(q)'
        /\ pc'[r] = "issue" /\ who'[r] = u /\ as'[r] = role[u]
        /\ r \in barred' => ~Exists(u) \/ u \in disabled
        /\ r \in weak' => role[u] # "admin"
        /\ r \notin capped /\ role' = role /\ disabled' = disabled
    BY <2>1, Begun
  <2>3. Inv(r)'
    BY <1>1, <2>1, <2>2 DEF Authenticate, Inv, Knows, Entitled, Fresh, Exists
  <2> QED
    BY <2>1, <2>2, <2>3, CredentialsKept
<1>2. ASSUME NEW u \in Users, NEW granted \in Roles, SyncRead(r, u, granted)
      PROVE  AccessInv'
  <2> DEFINE ro == IF role[u] = "admin" THEN "admin" ELSE granted
  <2>1. ro \in Roles /\ "sync" \in PCs /\ Begin(r, "sync", u, ro)
        /\ UNCHANGED accounts /\ UNCHANGED credentials /\ disturbed' = disturbed /\ capped' = capped
    BY <1>2 DEF SyncRead, Roles, PCs
  <2>2. /\ Locals' /\ \A q \in Requests \ {r} : Inv(q)'
        /\ pc'[r] = "sync" /\ who'[r] = u /\ as'[r] = ro
        /\ r \in barred' => ~Exists(u) \/ u \in disabled
        /\ r \in weak' => role[u] # "admin"
        /\ r \notin capped /\ role' = role /\ disabled' = disabled
    BY <2>1, Begun
  <2>3. Inv(r)'
    BY <2>1, <2>2 DEF Inv, Knows, Entitled, Fresh, Exists
  <2> QED
    BY <2>1, <2>2, <2>3, CredentialsKept
<1>3. ASSUME NEW u \in Users, NEW granted \in Roles, SyncReadFails(r, u, granted)
      PROVE  AccessInv'
  <2>1. "sync" \in PCs /\ Begin(r, "sync", u, granted)
        /\ UNCHANGED accounts /\ UNCHANGED credentials
        /\ disturbed' = disturbed \cup {r} /\ capped' = capped
    BY <1>3 DEF SyncReadFails, PCs
  <2>2. /\ Locals' /\ \A q \in Requests \ {r} : Inv(q)'
        /\ pc'[r] = "sync" /\ who'[r] = u /\ as'[r] = granted
        /\ r \in barred' => ~Exists(u) \/ u \in disabled
        /\ r \in weak' => role[u] # "admin"
        /\ r \notin capped /\ role' = role /\ disabled' = disabled
    BY <2>1, Begun
  <2>3. Inv(r)'
    BY <2>1, <2>2 DEF Inv, Knows, Entitled, Fresh, Exists
  <2> QED
    BY <2>1, <2>2, <2>3, CredentialsKept
<1>4. CASE SyncWrite(r)
  <2> DEFINE u == who[r]
             nr == [role EXCEPT ![u] = as[r]]
  <2>1. /\ pc[r] = "sync" /\ Change({r}, nr, disabled) /\ gone' = gone \ {r}
        /\ pc' = [pc EXCEPT ![r] = "reread"] /\ UNCHANGED <<who, as, what, capped, command>>
        /\ UNCHANGED credentials
    BY <1>4 DEF SyncWrite, Goto, locals
  <2>2. u \in Users /\ as[r] \in Roles
    BY <2>1 DEF Inv, Knows
  <2>3. /\ nr \in [Users -> Roles \cup {"none"}] /\ nr[u] = as[r] /\ as[r] # "none"
        /\ \A v \in Users : v # u => nr[v] = role[v]
    BY <2>2 DEF Rows, Roles
  <2> HIDE DEF nr
  <2>4. /\ role' = nr /\ disabled' = disabled
        /\ disturbed' \in SUBSET Requests /\ barred' \in SUBSET barred /\ weak' \in SUBSET weak
        /\ \A q \in weak' : nr[who[q]] # "admin"
        /\ \A q \in barred' : nr[who[q]] = "none" \/ who[q] \in disabled
    BY <2>1, ChangeTypes
  <2>5. Locals'
    BY <2>1, <2>4 DEF Locals, PCs
  <2>6. (Rows /\ Referenced)'
    <3>1. \A v \in Users : Exists(v) => Exists(v)'
      BY <2>3, <2>4 DEF Exists
    <3>2. \A v \in disabled' : Exists(v)'
      BY <2>4, <3>1 DEF Rows, Referenced
    <3> QED
      BY <2>1, <2>3, <2>4, <3>1, <3>2, AccountsKept DEF Rows
  <2>7. Inv(r)'
    <3>1. pc'[r] = "reread" /\ who'[r] = u /\ as'[r] = as[r] /\ r \notin capped'
      BY <2>1 DEF Locals, Inv, Entitled
    <3> QED
      BY <2>1, <2>2, <2>3, <2>4, <3>1 DEF Inv, Knows, Entitled, Fresh, Exists
  <2>8. ASSUME NEW q \in Requests \ {r} PROVE Inv(q)'
    <3>1. /\ pc'[q] = pc[q] /\ who'[q] = who[q] /\ as'[q] = as[q] /\ what'[q] = what[q]
          /\ q \in capped' <=> q \in capped
          /\ q \in command' <=> q \in command
          /\ q \in gone => q \in gone'
          /\ q \notin gone' => q \notin gone
      BY <2>1 DEF Locals
    <3>2. Exists(who[q]) /\ who[q] \in Users => nr[who[q]] # "none"
      BY <2>3 DEF Exists
    <3> QED
      BY <2>1, <3>1, <3>2, ChangeSafely
  <2> QED
    BY <2>5, <2>6, <2>7, <2>8
<1>5. CASE SyncReread(r)
  <2>1. /\ pc[r] = "reread" /\ r \notin gone /\ as' = [as EXCEPT ![r] = role[who[r]]]
        /\ pc' = [pc EXCEPT ![r] = "issue"] /\ UNCHANGED <<who, what, ghosts>>
        /\ UNCHANGED accounts /\ UNCHANGED credentials
    BY <1>5 DEF SyncReread, Goto
  <2>2. who[r] \in Users /\ role[who[r]] \in Roles
    BY <2>1 DEF Inv, Knows, Exists, Rows
  <2>3. Locals' /\ \A q \in Requests \ {r} : Stays(q)
    BY <2>1, <2>2 DEF Locals, Stays, ghosts, PCs
  <2>4. pc'[r] = "issue" /\ who'[r] = who[r] /\ as'[r] = role[who[r]]
    BY <2>1 DEF Locals
  <2>5. Inv(r)'
    BY <2>1, <2>2, <2>4 DEF Inv, Knows, Entitled, Fresh, Exists, ghosts, accounts
  <2> QED
    BY <2>1, <2>3, <2>5, StaysInv, CredentialsKept
<1>6. ASSUME NEW s \in Sessions, CreateSession(r, s)
      PROVE  AccessInv'
  <2>1. /\ who[r] \in Users /\ Exists(who[r]) /\ Return(r) /\ UNCHANGED accounts
        /\ owner' = [owner EXCEPT ![s] = who[r]] /\ token' = token /\ revoked' = revoked
    BY <1>6 DEF CreateSession, Inv, Knows
  <2>2. (Rows /\ Referenced)'
    BY <2>1 DEF Rows, Referenced, Exists, accounts
  <2> QED
    BY <2>1, <2>2, Returned
<1>7. ASSUME NEW t \in Tokens, NEW ro \in Roles, IssueAPIToken(r, t, ro)
      PROVE  AccessInv'
  <2>1. /\ who[r] \in Users /\ Exists(who[r]) /\ Return(r) /\ UNCHANGED accounts
        /\ token' = [token EXCEPT ![t] = [owner |-> who[r], role |-> ro]]
        /\ owner' = owner /\ revoked' = revoked
    BY <1>7 DEF IssueAPIToken, Inv, Knows
  <2>2. Rows'
    BY <2>1 DEF Rows, accounts
  <2>3. Referenced'
    BY <2>1 DEF Rows, Referenced, Exists, accounts
  <2> QED
    BY <2>1, <2>2, <2>3, Returned
<1>8. CASE SyncRetry(r)
  <2>1. /\ pc[r] = "reread" /\ pc' = [pc EXCEPT ![r] = "sync"] /\ disturbed' = disturbed \cup {r}
        /\ UNCHANGED <<who, as, what, gone, barred, weak, capped, command>>
        /\ UNCHANGED accounts /\ UNCHANGED credentials
    BY <1>8 DEF SyncRetry, Goto, locals
  <2>2. Locals' /\ \A q \in Requests \ {r} : Stays(q)
    BY <2>1 DEF Locals, Stays, PCs
  <2>3. pc'[r] = "sync" /\ r \in disturbed'
    BY <2>1 DEF Locals
  <2>4. Inv(r)'
    BY <2>1, <2>3 DEF Inv, Knows, Entitled, Fresh, Exists, accounts
  <2> QED
    BY <2>1, <2>2, <2>4, StaysInv, CredentialsKept
<1> QED
  BY <1>1, <1>2, <1>3, <1>4, <1>5, <1>6, <1>7, <1>8 DEF SignIn

\* A request that is let in, or refused, keeps the invariant.
LEMMA AccessStep ==
  ASSUME AccessInv, NEW r \in Requests, Access(r)
  PROVE  AccessInv'
<1> USE DEF AccessInv
<1>1. ASSUME NEW s \in Sessions, UserFromSession(r, s)
      PROVE  AccessInv'
  <2> DEFINE u == owner[s]
  <2>1. /\ u \in Users /\ Exists(u) /\ u \notin disabled /\ role[u] \in Roles
        /\ "granted" \in PCs /\ Begin(r, "granted", u, role[u])
        /\ UNCHANGED accounts /\ UNCHANGED credentials /\ disturbed' = disturbed /\ capped' = capped
    BY <1>1 DEF UserFromSession, Rows, Referenced, Exists, PCs
  <2>2. /\ Locals' /\ \A q \in Requests \ {r} : Inv(q)'
        /\ pc'[r] = "granted" /\ who'[r] = u /\ as'[r] = role[u]
        /\ r \in barred' => ~Exists(u) \/ u \in disabled
        /\ r \in weak' => role[u] # "admin"
        /\ r \notin capped /\ role' = role /\ disabled' = disabled
    BY <2>1, Begun
  <2>3. Inv(r)'
    BY <2>1, <2>2 DEF Inv, Knows, Entitled, Fresh, Exists
  <2> QED
    BY <2>1, <2>2, <2>3, CredentialsKept
<1>2. ASSUME NEW t \in Tokens, LookupAPIToken(r, t)
      PROVE  AccessInv'
  <2> DEFINE u == token[t].owner
             ro == token[t].role
  <2>1. /\ u \in Users /\ Exists(u) /\ ro \in Roles
        /\ "owner" \in PCs /\ Begin(r, "owner", u, ro)
        /\ UNCHANGED accounts /\ UNCHANGED credentials /\ disturbed' = disturbed
        /\ capped' = IF ro = "admin" THEN capped ELSE capped \cup {r}
    BY <1>2 DEF LookupAPIToken, Rows, Referenced, PCs
  <2>2. /\ Locals' /\ \A q \in Requests \ {r} : Inv(q)'
        /\ pc'[r] = "owner" /\ who'[r] = u /\ as'[r] = ro
        /\ r \in barred' => ~Exists(u) \/ u \in disabled
        /\ r \in weak' => role[u] # "admin"
        /\ r \notin capped /\ role' = role /\ disabled' = disabled
    BY <2>1, Begun
  <2>3. Inv(r)'
    BY <2>1, <2>2 DEF Inv, Knows, Entitled, Fresh, Exists
  <2> QED
    BY <2>1, <2>2, <2>3, CredentialsKept
<1>3. CASE UserFromAPIToken(r)
  <2> DEFINE ro == IF as[r] = "admin" THEN role[who[r]] ELSE as[r]
  <2>1. /\ pc[r] = "owner" /\ r \notin gone /\ who[r] \notin disabled
        /\ as' = [as EXCEPT ![r] = ro]
        /\ pc' = [pc EXCEPT ![r] = "granted"] /\ UNCHANGED <<who, what, ghosts>>
        /\ UNCHANGED accounts /\ UNCHANGED credentials
    BY <1>3 DEF UserFromAPIToken, Goto, Locals
  <2>2. who[r] \in Users /\ Exists(who[r]) /\ ro \in Roles
    BY <2>1 DEF Inv, Knows, Exists, Rows
  <2>3. Locals' /\ \A q \in Requests \ {r} : Stays(q)
    BY <2>1, <2>2 DEF Locals, Stays, ghosts, PCs
  <2>4. pc'[r] = "granted" /\ who'[r] = who[r] /\ as'[r] = ro
    BY <2>1 DEF Locals
  <2>5. Inv(r)'
    BY <2>1, <2>2, <2>4 DEF Inv, Knows, Entitled, Fresh, Exists, ghosts, accounts
  <2> QED
    BY <2>1, <2>3, <2>5, StaysInv, CredentialsKept
<1> QED
  BY <1>1, <1>2, <1>3 DEF Access

\* isLastAdmin: with two administrators, one is not the one in question.
LEMMA AnotherAdmin ==
  ASSUME NEW u, ~(Cardinality(Admins) <= 1)
  PROVE  \E v \in Admins : v # u
<1> SUFFICES ASSUME Admins \subseteq {u}
             PROVE  FALSE
  OBVIOUS
<1>1. IsFiniteSet({u}) /\ Cardinality({u}) = 1
  BY FS_Singleton
<1>2. Cardinality(Admins) <= 1
  BY <1>1, FS_Subset
<1> QED
  BY <1>2

\* Administration keeps the invariant.
LEMMA AdministerStep ==
  ASSUME AccessInv, NEW r \in Requests, Administer(r)
  PROVE  AccessInv'
<1> USE DEF AccessInv
<1>1. ASSUME NEW u \in Users, NEW deed \in Deeds, ReadTarget(r, u, deed)
      PROVE  AccessInv'
  <2> DEFINE label == IF pc[r] = "granted" /\ Checked(deed, role[u]) THEN "count" ELSE "write"
  <2>1. /\ role[u] \in Roles /\ label \in PCs /\ label # "idle"
        /\ Administering(r, label, u, role[u], deed)
        /\ UNCHANGED accounts /\ UNCHANGED credentials
        /\ pc[r] \in {"granted", "idle"}
    <3>1. role[u] \in Roles
      BY <1>1 DEF ReadTarget, Exists, Rows
    <3>2. label \in PCs /\ label # "idle"
      BY DEF PCs
    <3> QED
      BY <1>1, <3>1, <3>2 DEF ReadTarget, MayAdminister
  <2>2. /\ Locals' /\ \A q \in Requests \ {r} : Stays(q)
        /\ pc'[r] = label /\ who'[r] = u /\ as'[r] = role[u] /\ what'[r] = deed
        /\ r \notin gone' \cup disturbed' \cup barred' \cup weak' \cup capped'
        /\ pc[r] = "idle" => r \in command'
    BY <2>1, Administered
  <2>3. Inv(r)'
    <3>1. role' = role
      BY <2>1 DEF accounts
    <3>2. pc'[r] = "count" => role[u] = "admin"
      BY <2>2 DEF Checked
    <3>3. pc'[r] = "write" /\ r \notin command' /\ role[u] = "admin" =>
            deed \notin {"demote", "disable", "delete"}
      BY <2>1, <2>2 DEF Checked
    <3> QED
      BY <2>1, <2>2, <3>1, <3>2, <3>3 DEF Inv, Knows, Entitled, Fresh, Exists, Roles
  <2> QED
    BY <2>1, <2>2, <2>3, StaysInv, CredentialsKept
<1>2. CASE isLastAdmin(r)
  <2>1. CASE Return(r)
    BY <1>2, <2>1, Returned, CredentialsKept DEF isLastAdmin
  <2>2. CASE /\ ~(Cardinality(Admins) <= 1) /\ pc' = [pc EXCEPT ![r] = "write"]
             /\ UNCHANGED locals /\ UNCHANGED ghosts
    <3>1. pc[r] = "count" /\ UNCHANGED accounts /\ UNCHANGED credentials
      BY <1>2 DEF isLastAdmin
    <3>2. /\ Locals' /\ \A q \in Requests \ {r} : Stays(q)
          /\ pc'[r] = "write"
      BY <2>2 DEF Locals, Stays, locals, ghosts, PCs
    <3>3. \E v \in Admins : v # who[r]
      BY <2>2, AnotherAdmin
    <3>4. Admins' = Admins
      BY <3>1 DEF Admins, accounts
    <3>5. Inv(r)'
      BY <2>2, <3>1, <3>2, <3>3, <3>4
      DEF Inv, Knows, Entitled, Fresh, Exists, locals, ghosts, accounts
    <3> QED
      BY <3>1, <3>2, <3>5, StaysInv, CredentialsKept
  <2> QED
    BY <1>2, <2>1, <2>2 DEF isLastAdmin, Goto
<1>3. CASE SetUser(r)
  <2> DEFINE u == who[r]
             newRole == CASE what[r] = "promote" -> "admin" [] what[r] = "demote" -> "user"
                          [] OTHER -> role[u]
             newDisabled == CASE what[r] = "disable" -> disabled \cup {u}
                              [] what[r] = "enable" -> disabled \ {u}
                              [] OTHER -> disabled
             nr == IF r \in gone THEN role ELSE [role EXCEPT ![u] = newRole]
             nd == IF r \in gone THEN disabled ELSE newDisabled
  <2>1. /\ pc[r] = "write" /\ Change({r}, nr, nd) /\ capped' = capped /\ UNCHANGED credentials
    BY <1>3 DEF SetUser
  <2>2. u \in Users /\ (r \notin gone => role[u] \in Roles)
    BY <2>1 DEF Inv, Knows, Exists, Rows
  <2>3. /\ nr \in [Users -> Roles \cup {"none"}]
        /\ \A v \in Users : role[v] # "none" => nr[v] # "none"
    <3>1. r \notin gone => newRole \in Roles
      BY <2>2 DEF Roles
    <3> HIDE DEF newRole
    <3>2. CASE r \notin gone
      BY <2>2, <3>1, <3>2 DEF Rows, Roles
    <3> QED
      BY <3>2 DEF Rows
  <2>4. nd \in SUBSET Users /\ \A v \in nd : nr[v] # "none"
    <3>1. nd \in SUBSET Users
      BY <2>2 DEF Rows
    <3>2. \A v \in nd : role[v] # "none"
      BY <2>2 DEF Rows, Referenced, Exists, Roles
    <3> QED
      BY <2>3, <3>1, <3>2
  <2>5. what[r] = "disable" /\ r \notin gone => nr[u] # "none"
    BY <2>2, <2>3 DEF Roles
  <2> HIDE DEF nr, nd
  <2>6. (Rows /\ Referenced)'
    <3>1. role' = nr /\ disabled' = nd
      BY <2>1, ChangeTypes
    <3> QED
      BY <2>1, <2>3, <2>4, <3>1, AccountsKept DEF Exists
  <2>7. \A q \in Requests : Exists(who[q]) /\ who[q] \in Users => nr[who[q]] # "none"
    BY <2>3 DEF Exists
  <2>8. CASE Finish(r, {})
    BY <2>1, <2>6, <2>7, <2>8, FinishedSafely
  <2>9. CASE /\ what[r] = "disable" /\ pc' = [pc EXCEPT ![r] = "sessions"]
             /\ UNCHANGED <<who, as, what, gone, command>>
    <3>1. Locals'
      BY <2>1, <2>9, ChangeTypes DEF Locals, PCs
    <3>2. Inv(r)'
      <4>1. pc'[r] = "sessions"
        BY <2>9 DEF Locals
      <4>2. role' = nr /\ r \notin barred' \cup weak' \cup capped'
        BY <2>1, ChangeTypes DEF Inv, Entitled
      <4> QED
        BY <2>1, <2>5, <2>9, <4>1, <4>2 DEF Inv, Knows, Entitled, Fresh, Exists
    <3>3. ASSUME NEW q \in Requests \ {r} PROVE Inv(q)'
      <4>1. pc'[q] = pc[q]
        BY <2>9 DEF Locals
      <4> QED
        BY <2>1, <2>7, <2>9, <4>1, ChangeSafely
    <3> QED
      BY <2>6, <3>1, <3>2, <3>3
  <2> QED
    BY <1>3, <2>8, <2>9 DEF SetUser, Goto, locals
<1>4. ASSUME NEW deed \in Deeds, SetUserThen(r, deed)
      PROVE  AccessInv'
  <2> DEFINE u == who[r]
             newRole == IF what[r] = "promote" THEN "admin" ELSE "user"
             next == IF Checked(deed, as[r]) THEN "count" ELSE "write"
             own == IF next = "write" THEN {} ELSE {r}
             nr == IF r \in gone THEN role ELSE [role EXCEPT ![u] = newRole]
  <2>1. /\ pc[r] = "write" /\ Change(own, nr, disabled) /\ UNCHANGED credentials
        /\ pc' = [pc EXCEPT ![r] = next] /\ what' = [what EXCEPT ![r] = deed]
        /\ UNCHANGED <<who, as, gone, capped, command>>
        /\ r \notin command /\ next \in {"count", "write"}
    BY <1>4 DEF SetUserThen, Goto
  <2>2. u \in Users /\ newRole \in Roles
    BY <2>1 DEF Inv, Knows, Roles
  <2>3. /\ nr \in [Users -> Roles \cup {"none"}]
        /\ \A v \in Users : role[v] # "none" => nr[v] # "none"
        /\ r \notin gone => nr[u] # "none"
    BY <2>2 DEF Rows, Roles
  <2>4. next = "count" => as[r] = "admin"
    BY DEF Checked
  <2>5. next = "write" => own = {} /\ (as[r] = "admin" => deed \notin {"demote", "disable", "delete"})
    BY DEF Checked
  <2>6. own \subseteq {r}
    OBVIOUS
  <2> HIDE DEF nr, next, own
  <2>7. /\ role' = nr /\ disabled' = disabled
        /\ disturbed' \in SUBSET Requests /\ barred' \in SUBSET barred /\ weak' \in SUBSET weak
    BY <2>1, ChangeTypes
  <2>8. (Rows /\ Referenced)'
    <3>1. \A v \in disabled : nr[v] # "none"
      BY <2>3 DEF Rows, Referenced, Exists
    <3>2. disabled \in SUBSET Users
      BY DEF Rows
    <3> QED
      BY <2>1, <2>3, <2>7, <3>1, <3>2, AccountsKept DEF Exists
  <2>9. Locals'
    BY <2>1, <2>7 DEF Locals, PCs
  <2>10. \A q \in Requests : Exists(who[q]) /\ who[q] \in Users => nr[who[q]] # "none"
    BY <2>3 DEF Exists
  <2>11. ASSUME NEW q \in Requests \ {r} PROVE Inv(q)'
    <3>1. pc'[q] = pc[q] /\ what'[q] = what[q]
      BY <2>1 DEF Locals
    <3> QED
      BY <2>1, <2>6, <2>10, <3>1, ChangeSafely
  <2>12. Inv(r)'
    <3>1. pc'[r] = next /\ what'[r] = deed /\ who'[r] = u /\ as'[r] = as[r]
      BY <2>1 DEF Locals
    <3>2. Knows(r)'
      BY <2>1, <2>3, <2>7, <3>1 DEF Inv, Knows, Exists
    <3>3. Entitled(r)'
      BY <2>1, <2>7, <3>1 DEF Inv, Entitled
    <3>4. Fresh(r)'
      <4>1. CASE next = "count"
        BY <2>4, <3>1, <4>1 DEF Fresh
      <4>2. CASE next = "write" /\ nr = role
        <5>1. disturbed' = disturbed
          BY <2>1, <2>5, <4>2 DEF Change
        <5>2. role'[u] = "admin" /\ r \notin command' \cup disturbed' \cup gone' => as[r] = "admin"
          BY <2>1, <2>7, <4>2, <5>1 DEF Inv, Fresh
        <5> QED
          BY <2>5, <3>1, <4>2, <5>2 DEF Fresh
      <4>3. CASE next = "write" /\ nr # role
        <5>1. r \in disturbed'
          BY <2>1, <2>5, <4>3 DEF Change
        <5> QED
          BY <3>1, <4>3, <5>1 DEF Fresh
      <4> QED
        BY <2>1, <4>1, <4>2, <4>3
    <3> QED
      BY <3>2, <3>3, <3>4 DEF Inv
  <2> QED
    BY <2>8, <2>9, <2>11, <2>12
<1>5. CASE DeleteUserSessions(r)
  <2>1. /\ Return(r) /\ UNCHANGED accounts /\ token' = token /\ revoked' = revoked
        /\ \/ owner' = owner
           \/ owner' = [s \in Sessions |-> IF owner[s] = who[r] THEN NoUser ELSE owner[s]]
    BY <1>5 DEF DeleteUserSessions
  <2>2. (Rows /\ Referenced)'
    BY <2>1 DEF Rows, Referenced, Exists, accounts
  <2> QED
    BY <2>1, <2>2, Returned
<1>6. CASE DeleteUser(r)
  <2> DEFINE u == who[r]
             mine == {t \in Tokens : token[t] # NoToken /\ token[t].owner = u}
             nr == [role EXCEPT ![u] = "none"]
             Q == {q \in Requests : who[q] = u}
  <2>1. /\ pc[r] = "write" /\ Change({r}, nr, disabled \ {u}) /\ Finish(r, Q) /\ capped' = capped
        /\ owner' = [s \in Sessions |-> IF owner[s] = u THEN NoUser ELSE owner[s]]
        /\ token' = [t \in Tokens |-> IF t \in mine THEN NoToken ELSE token[t]]
        /\ revoked' = revoked \cup mine
    BY <1>6 DEF DeleteUser
  <2>2. u \in Users
    BY <2>1 DEF Inv, Knows
  <2>3. /\ nr \in [Users -> Roles \cup {"none"}] /\ \A v \in Users \ {u} : nr[v] = role[v]
    BY <2>2 DEF Rows
  <2> HIDE DEF nr
  <2>4. role' = nr /\ disabled' = disabled \ {u}
    BY <2>1, ChangeTypes
  <2>5. Rows'
    BY <2>1, <2>3, <2>4 DEF Rows
  <2>6. /\ \A v \in disabled' : role'[v] # "none"
        /\ \A s \in Sessions : owner'[s] # NoUser => owner'[s] = owner[s] /\ owner[s] \in Users \ {u}
        /\ \A t \in Tokens : token'[t] # NoToken =>
             token'[t] = token[t] /\ token[t].owner \in Users \ {u}
    BY <2>1, <2>3, <2>4 DEF Rows, Referenced, Exists
  <2>7. Referenced'
    BY <2>3, <2>4, <2>6 DEF Referenced, Exists
  <2>8. \A q \in Requests \ Q : Exists(who[q]) /\ who[q] \in Users => nr[who[q]] # "none"
    BY <2>3 DEF Exists
  <2> QED
    BY <2>1, <2>5, <2>7, <2>8, FinishedSafely
<1>7. ASSUME NEW u \in Users, NEW ro \in Roles, CreateLocalUser(r, u, ro)
      PROVE  AccessInv'
  <2>1. /\ role[u] = "none" /\ "create" \in PCs /\ Administering(r, "create", u, ro, "none")
        /\ UNCHANGED accounts /\ UNCHANGED credentials
    BY <1>7 DEF CreateLocalUser, Exists, PCs
  <2>2. /\ Locals' /\ \A q \in Requests \ {r} : Stays(q)
        /\ pc'[r] = "create" /\ who'[r] = u /\ as'[r] = ro
        /\ r \notin gone' \cup disturbed' \cup barred' \cup weak' \cup capped'
    BY <2>1, Administered
  <2>3. Inv(r)'
    BY <2>1, <2>2 DEF Inv, Knows, Entitled, Fresh, accounts
  <2> QED
    BY <2>1, <2>2, <2>3, StaysInv, CredentialsKept
<1>8. CASE CreateWrite(r)
  <2> DEFINE u == who[r]
             nr == [role EXCEPT ![u] = as[r]]
  <2>1. /\ pc[r] = "create" /\ Change({r}, nr, disabled) /\ Finish(r, {}) /\ capped' = capped
        /\ UNCHANGED credentials
    BY <1>8 DEF CreateWrite
  <2>2. u \in Users /\ as[r] \in Roles
    BY <2>1 DEF Inv, Knows
  <2>3. /\ nr \in [Users -> Roles \cup {"none"}]
        /\ \A v \in Users : role[v] # "none" => nr[v] # "none"
    BY <2>2 DEF Rows, Roles
  <2> HIDE DEF nr
  <2>4. (Rows /\ Referenced)'
    <3>1. role' = nr /\ disabled' = disabled
      BY <2>1, ChangeTypes
    <3>2. disabled \in SUBSET Users /\ \A v \in disabled : nr[v] # "none"
      BY <2>3 DEF Rows, Referenced, Exists
    <3> QED
      BY <2>1, <2>3, <3>1, <3>2, AccountsKept DEF Exists
  <2>5. \A q \in Requests : Exists(who[q]) /\ who[q] \in Users => nr[who[q]] # "none"
    BY <2>3 DEF Exists
  <2> QED
    BY <2>1, <2>4, <2>5, FinishedSafely
<1> QED
  BY <1>1, <1>2, <1>3, <1>4, <1>5, <1>6, <1>7, <1>8 DEF Administer

\* Every step keeps the invariant.
LEMMA AccessInvStep == AccessInv /\ [Next]_vars => AccessInv'
<1> SUFFICES ASSUME AccessInv, [Next]_vars PROVE AccessInv'
  OBVIOUS
<1> USE DEF AccessInv
<1>1. ASSUME NEW r \in Requests, Abandon(r)
      PROVE  AccessInv'
  BY <1>1, Returned, CredentialsKept DEF Abandon
<1>2. ASSUME UNCHANGED accounts, UNCHANGED <<pc, locals, ghosts>>
      PROVE  Locals' /\ \A q \in Requests : Inv(q)'
  <2>1. Locals' /\ \A q \in Requests : Stays(q)
    BY <1>2 DEF Locals, Stays, locals, ghosts
  <2> QED
    BY <1>2, <2>1, StaysInv
<1>3. ASSUME NEW s \in Sessions, DestroySession(s)
      PROVE  AccessInv'
  <2>1. (Rows /\ Referenced)'
    BY <1>3 DEF DestroySession, Rows, Referenced, Exists, accounts
  <2> QED
    BY <1>2, <1>3, <2>1 DEF DestroySession
<1>4. ASSUME NEW t \in Tokens, RevokeAPIToken(t)
      PROVE  AccessInv'
  <2>1. (Rows /\ Referenced)'
    BY <1>4 DEF RevokeAPIToken, Rows, Referenced, Exists, accounts
  <2> QED
    BY <1>2, <1>4, <2>1 DEF RevokeAPIToken
<1>5. CASE EnsureLocalAdmin
  <2> DEFINE nr == [role EXCEPT ![BreakGlass] = "admin"]
  <2>1. /\ Change({}, nr, disabled) /\ UNCHANGED credentials
        /\ UNCHANGED <<pc, who, as, what, gone, capped, command>>
    BY <1>5 DEF EnsureLocalAdmin, locals
  <2>2. /\ nr \in [Users -> Roles \cup {"none"}]
        /\ \A v \in Users : role[v] # "none" => nr[v] # "none"
    BY AccessAssumption DEF Rows, Roles
  <2> HIDE DEF nr
  <2>3. /\ role' = nr /\ disabled' = disabled
        /\ disturbed' \in SUBSET Requests /\ barred' \in SUBSET barred /\ weak' \in SUBSET weak
    BY <2>1, ChangeTypes
  <2>4. (Rows /\ Referenced)'
    <3>1. disabled \in SUBSET Users /\ \A v \in disabled : nr[v] # "none"
      BY <2>2 DEF Rows, Referenced, Exists
    <3> QED
      BY <2>1, <2>2, <2>3, <3>1, AccountsKept DEF Exists
  <2>5. Locals'
    BY <2>1, <2>3 DEF Locals
  <2>6. \A q \in Requests : Exists(who[q]) /\ who[q] \in Users => nr[who[q]] # "none"
    BY <2>2 DEF Exists
  <2>7. \A q \in Requests : Inv(q)'
    BY <2>1, <2>6, ChangeSafely
  <2> QED
    BY <2>4, <2>5, <2>7
<1>6. CASE UNCHANGED vars
  BY <1>2, <1>6, CredentialsKept DEF vars
<1> QED
  BY <1>1, <1>3, <1>4, <1>5, <1>6, SignInStep, AccessStep, AdministerStep DEF Next

\* The invariant holds throughout.
LEMMA AccessInvariant == Spec => []AccessInv
<1>1. Init => AccessInv
  <2> SUFFICES ASSUME Init PROVE AccessInv
    OBVIOUS
  <2>1. Rows /\ Referenced
    BY AccessAssumption DEF Init, Rows, Referenced, Roles
  <2>2. Locals
    BY DEF Init, Locals, PCs, Roles, Deeds
  <2>3. \A r \in Requests : Inv(r)
    BY DEF Init, Inv, Knows, Entitled, Fresh
  <2> QED
    BY <2>1, <2>2, <2>3 DEF AccessInv
<1> QED
  BY <1>1, AccessInvStep, PTL DEF Spec

---------------------------------------------------------------------------
(* The last administrator *)

\* The step is not to blame: it leaves an administrator, or is one of a request
\* that LastAdminStays excuses.
KeepsAdmin ==
  Admins # {} /\ Admins' = {} =>
    \E r \in Requests : /\ pc[r] \in {"write", "sync", "create"} /\ Goes(r)
                        /\ r \in command \cup disturbed

\* One account is written; the others are administrators as before.
LEMMA OneAccount ==
  ASSUME NEW u, NEW v \in Admins, v # u, role' = [role EXCEPT ![u] = role'[u]],
         \A w \in disabled' \ disabled : w = u, Rows
  PROVE  v \in Admins'
BY DEF Admins, Rows

\* A step that writes no account takes no administrator away.
LEMMA NoAccountWritten ==
  ASSUME UNCHANGED accounts
  PROVE  KeepsAdmin
BY DEF accounts, Admins, KeepsAdmin

\* A request of the portal that is not disturbed leaves an administrator: what
\* it has read is still so, and it has counted another one if it has to.
LEMMA KeepsAdminStep ==
  ASSUME AccessInv, [Next]_vars
  PROVE  KeepsAdmin
<1> USE DEF AccessInv
<1>1. ASSUME NEW r \in Requests, SyncWrite(r)
      PROVE  KeepsAdmin
  <2>1. /\ pc[r] = "sync" /\ role' = [role EXCEPT ![who[r]] = as[r]] /\ disabled' = disabled
        /\ Goes(r) /\ who[r] \in Users
    BY <1>1 DEF SyncWrite, Change, Goto, Goes, Locals, Inv, Knows
  <2>2. CASE r \in disturbed
    BY <2>1, <2>2 DEF KeepsAdmin
  <2>3. CASE r \notin disturbed
    <3>1. role[who[r]] = "admin" => as[r] = "admin"
      BY <2>1, <2>3 DEF Inv, Fresh
    <3>2. Admins \subseteq Admins'
      BY <2>1, <3>1 DEF Admins, Rows
    <3> QED
      BY <3>2 DEF KeepsAdmin
  <2> QED
    BY <2>2, <2>3
<1>2. ASSUME NEW r \in Requests, CreateWrite(r)
      PROVE  KeepsAdmin
  <2>1. /\ pc[r] = "create" /\ role' = [role EXCEPT ![who[r]] = as[r]] /\ disabled' = disabled
        /\ Goes(r) /\ who[r] \in Users
    BY <1>2 DEF CreateWrite, Change, Finish, Goto, Goes, Locals, Inv, Knows
  <2>2. CASE r \in disturbed
    BY <2>1, <2>2 DEF KeepsAdmin
  <2>3. CASE r \notin disturbed
    <3>1. role[who[r]] = "none"
      BY <2>1, <2>3 DEF Inv, Fresh
    <3>2. Admins \subseteq Admins'
      BY <2>1, <3>1 DEF Admins, Rows
    <3> QED
      BY <3>2 DEF KeepsAdmin
  <2> QED
    BY <2>2, <2>3
<1>3. CASE EnsureLocalAdmin
  <2>1. role' = [role EXCEPT ![BreakGlass] = "admin"] /\ disabled' = disabled
    BY <1>3 DEF EnsureLocalAdmin, Change
  <2>2. Admins \subseteq Admins'
    BY <2>1 DEF Admins, Rows
  <2> QED
    BY <2>2 DEF KeepsAdmin
<1>4. ASSUME NEW r \in Requests, pc[r] = "write", Goes(r), r \notin gone,
             role' = [role EXCEPT ![who[r]] = role'[who[r]]],
             \A w \in disabled' \ disabled : w = who[r],
             \/ what[r] \in {"demote", "disable", "delete"}
             \/ /\ role'[who[r]] \in {role[who[r]], "admin"}
                /\ disabled' \subseteq disabled
      PROVE  KeepsAdmin
  <2>1. who[r] \in Users
    BY <1>4 DEF Inv, Knows
  <2>2. CASE r \in command \cup disturbed
    BY <1>4, <2>2 DEF KeepsAdmin
  <2>3. CASE r \notin command \cup disturbed /\ what[r] \in {"demote", "disable", "delete"}
    <3>1. CASE role[who[r]] = "admin"
      <4>1. PICK v \in Admins : v # who[r]
        BY <1>4, <2>3, <3>1 DEF Inv, Fresh
      <4>2. v \in Admins'
        BY <1>4, <4>1, OneAccount
      <4> QED
        BY <4>2 DEF KeepsAdmin
    <3>2. CASE role[who[r]] # "admin"
      <4>1. \A v \in Admins : v # who[r]
        BY <3>2 DEF Admins
      <4>2. \A v \in Admins : v \in Admins'
        BY <1>4, <4>1, OneAccount
      <4> QED
        BY <4>2 DEF KeepsAdmin
    <3> QED
      BY <3>1, <3>2
  <2>4. CASE what[r] \notin {"demote", "disable", "delete"}
    <3>1. role'[who[r]] \in {role[who[r]], "admin"} /\ disabled' \subseteq disabled
      BY <1>4, <2>4
    <3>2. \A v \in Users : role[v] = "admin" => role'[v] = "admin"
      BY <1>4, <2>1, <3>1 DEF Rows
    <3>3. Admins \subseteq Admins'
      BY <3>1, <3>2 DEF Admins
    <3> QED
      BY <3>3 DEF KeepsAdmin
  <2> QED
    BY <2>2, <2>3, <2>4
<1>5. ASSUME NEW r \in Requests, SetUser(r)
      PROVE  KeepsAdmin
  <2>1. pc[r] = "write" /\ Goes(r) /\ what[r] \in Deeds \ {"delete"} /\ who[r] \in Users
    BY <1>5 DEF SetUser, Finish, Goto, Goes, Locals, Inv, Knows
  <2>2. CASE r \in gone
    <3>1. UNCHANGED accounts
      BY <1>5, <2>2 DEF SetUser, Change, accounts
    <3> QED
      BY <3>1, NoAccountWritten
  <2>3. CASE r \notin gone /\ what[r] = "promote"
    <3>1. role' = [role EXCEPT ![who[r]] = "admin"] /\ disabled' = disabled
      BY <1>5, <2>3 DEF SetUser, Change
    <3> QED
      BY <1>4, <2>1, <2>3, <3>1 DEF Rows
  <2>4. CASE r \notin gone /\ what[r] = "demote"
    <3>1. role' = [role EXCEPT ![who[r]] = "user"] /\ disabled' = disabled
      BY <1>5, <2>4 DEF SetUser, Change
    <3> QED
      BY <1>4, <2>1, <2>4, <3>1 DEF Rows
  <2>5. CASE r \notin gone /\ what[r] = "disable"
    <3>1. role' = [role EXCEPT ![who[r]] = role[who[r]]] /\ disabled' = disabled \cup {who[r]}
      BY <1>5, <2>5 DEF SetUser, Change
    <3> QED
      BY <1>4, <2>1, <2>5, <3>1 DEF Rows
  <2>6. CASE r \notin gone /\ what[r] = "enable"
    <3>1. role' = [role EXCEPT ![who[r]] = role[who[r]]] /\ disabled' = disabled \ {who[r]}
      BY <1>5, <2>6 DEF SetUser, Change
    <3> QED
      BY <1>4, <2>1, <2>6, <3>1 DEF Rows
  <2> QED
    BY <2>1, <2>2, <2>3, <2>4, <2>5, <2>6 DEF Deeds
<1>6. ASSUME NEW r \in Requests, NEW deed \in Deeds, SetUserThen(r, deed)
      PROVE  KeepsAdmin
  <2>1. /\ pc[r] = "write" /\ what[r] \in {"promote", "demote"} /\ deed \in {"enable", "disable"}
        /\ disabled' = disabled /\ what' = [what EXCEPT ![r] = deed]
    BY <1>6 DEF SetUserThen, Change
  <2>2. Goes(r) /\ who[r] \in Users
    BY <2>1 DEF Goes, Locals, Inv, Knows
  <2>3. CASE r \in gone
    <3>1. UNCHANGED accounts
      BY <1>6, <2>3 DEF SetUserThen, Change, accounts
    <3> QED
      BY <3>1, NoAccountWritten
  <2>4. CASE r \notin gone
    <3>1. role' = [role EXCEPT ![who[r]] = IF what[r] = "promote" THEN "admin" ELSE "user"]
      BY <1>6, <2>4 DEF SetUserThen, Change
    <3> QED
      BY <1>4, <2>1, <2>2, <2>4, <3>1 DEF Rows
  <2> QED
    BY <2>3, <2>4
<1>7. ASSUME NEW r \in Requests, DeleteUser(r)
      PROVE  KeepsAdmin
  <2>1. /\ pc[r] = "write" /\ what[r] = "delete" /\ r \notin gone
        /\ role' = [role EXCEPT ![who[r]] = "none"] /\ disabled' = disabled \ {who[r]}
        /\ Goes(r) /\ who[r] \in Users
    BY <1>7 DEF DeleteUser, Change, Finish, Goto, Goes, Locals, Inv, Knows
  <2> QED
    BY <1>4, <2>1 DEF Rows
<1>8. ASSUME NEW r \in Requests, SignIn(r)
      PROVE  KeepsAdmin
  <2>1. SyncWrite(r) \/ UNCHANGED accounts
    BY <1>8 DEF SignIn, Authenticate, SyncRead, SyncReadFails, SyncReread, SyncRetry, CreateSession, IssueAPIToken
  <2> QED
    BY <1>1, <2>1, NoAccountWritten
<1>9. ASSUME NEW r \in Requests, Access(r) \/ Abandon(r)
      PROVE  KeepsAdmin
  <2>1. UNCHANGED accounts
    BY <1>9 DEF Access, UserFromSession, LookupAPIToken, UserFromAPIToken, Abandon
  <2> QED
    BY <2>1, NoAccountWritten
<1>10. ASSUME NEW r \in Requests, Administer(r)
      PROVE  KeepsAdmin
  <2>1. \/ SetUser(r) \/ DeleteUser(r) \/ CreateWrite(r)
        \/ \E deed \in Deeds : SetUserThen(r, deed)
        \/ UNCHANGED accounts
    BY <1>10 DEF Administer, ReadTarget, isLastAdmin, DeleteUserSessions, CreateLocalUser
  <2> QED
    BY <1>2, <1>5, <1>6, <1>7, <2>1, NoAccountWritten
<1>11. ASSUME NEW s \in Sessions, DestroySession(s)
      PROVE  KeepsAdmin
  BY <1>11, NoAccountWritten DEF DestroySession
<1>12. ASSUME NEW t \in Tokens, RevokeAPIToken(t)
      PROVE  KeepsAdmin
  BY <1>12, NoAccountWritten DEF RevokeAPIToken
<1>13. CASE UNCHANGED vars
  BY <1>13, NoAccountWritten DEF vars
<1> QED
  BY <1>3, <1>8, <1>9, <1>10, <1>11, <1>12, <1>13 DEF Next

---------------------------------------------------------------------------
(* Theorems *)

\* TypeOK is an invariant: however sign-ins, administration and deletions
\* interleave, no session, token or disabled flag is of an account without a row.
THEOREM AccessTypeCorrect == Spec => []TypeOK
<1>1. AccessInv => TypeOK
  BY TypedIsTypeOK
<1> QED
  BY <1>1, AccessInvariant, PTL

\* UserFromSession and UserFromAPIToken, for any number of users, tokens and
\* requests: who is let in had access since the request began, and is an
\* administrator only if the user was one and the token is one's.
THEOREM AccessIsEntitled == Spec => []OnlyEntitledAccess
<1>1. AccessInv => OnlyEntitledAccess
  BY DEF AccessInv, Inv, Entitled, OnlyEntitledAccess
<1> QED
  BY <1>1, AccessInvariant, PTL

\* isLastAdmin, for any number of administrators and requests: only a command,
\* or a request that acts on what was changed since it looked, takes the last
\* enabled administrator away.
THEOREM LastAdminIsKept == Spec => LastAdminStays
<1>1. AccessInv /\ [Next]_vars =>
        [Admins # {} /\ Admins' = {} =>
           \E r \in Requests : /\ pc[r] \in {"write", "sync", "create"} /\ Goes(r)
                               /\ r \in command \cup disturbed]_vars
  BY KeepsAdminStep DEF KeepsAdmin
<1> QED
  BY <1>1, AccessInvariant, PTL DEF Spec, LastAdminStays

---------------------------------------------------------------------------
(* The throttle *)

Steps == {"idle", "user", "ip", "auth", "failUser", "failIp", "okUser", "okIp"}

\* The logins that passed the check of a key and have not tried their password,
Passed(k) ==
  {r \in Logins : \/ user[r] = k /\ at[r] \in {"ip", "auth"}
                  \/ ip[r] = k /\ at[r] = "auth"}

\* and those that tried a wrong one which is not recorded under the key yet.
Unrecorded(k) ==
  {r \in Logins : \/ user[r] = k /\ at[r] = "failUser"
                  \/ ip[r] = k /\ at[r] \in {"failUser", "failIp"}}

\* A login holds at most one unit of the bound, before or after its attempt.
Bound == Limit - 1 + Cardinality(Logins) + faults

\* Whatever is at most n - 1 old is at most n old.
Growing(f) == \A n \in Ages : n > 0 => f[n - 1] <= f[n]

\* The state of the logins, the counters, and the bound on faults.
LoginsTyped ==
  /\ at \in [Logins -> Steps]
  /\ user \in [Logins -> Names \cup {NoKey}]
  /\ ip \in [Logins -> IPs \cup {NoKey}]
  /\ \A r \in Logins : at[r] # "idle" => user[r] \in Names /\ ip[r] \in IPs

Monotone == (\A k \in Keys : Growing(rows[k])) /\ (\A k \in Watched : Growing(tried[k]))

CountersOK ==
  /\ rows \in [Keys -> [Ages -> Nat]] /\ tried \in [Watched -> [Ages -> Nat]]
  /\ Monotone

ThrottleTyped == LoginsTyped /\ CountersOK /\ faults \in 0 .. MaxFaults

\* The rows of a key, with those that its logins may still add,
RowsBounded(k) ==
  Recent(rows[k]) + Cardinality(Passed(k)) + Cardinality(Unrecorded(k)) <= Bound

\* the guesses that have no row, at any age: unrecorded yet, or lost to a fault,
RowsLag(k) ==
  \A n \in Ages : tried[k][n] <= rows[k][n] + Cardinality(Unrecorded(k)) + faults

\* and the guesses, with those that were let through.
GuessesBounded(k) == Recent(tried[k]) + Cardinality(Passed(k)) <= Bound

Counted(k) == RowsBounded(k) /\ (k \in Watched => RowsLag(k) /\ GuessesBounded(k))

ThrottleInv == ThrottleTyped /\ \A k \in Keys : Counted(k)

\* The counters of a key stay as they are.
SameCounters(k) == rows'[k] = rows[k] /\ (k \in Watched => tried'[k] = tried[k])

\* What a step of a login means for a key: at most that a login is not to try a
\* password any more,
Rests(k) ==
  /\ SameCounters(k) /\ faults' = faults
  /\ Cardinality(Passed(k))' <= Cardinality(Passed(k))
  /\ Cardinality(Unrecorded(k))' = Cardinality(Unrecorded(k))

\* one more is let through,
Admits(k) ==
  /\ SameCounters(k) /\ faults' = faults /\ ~Refused(k)
  /\ Cardinality(Passed(k))' + Cardinality(Unrecorded(k))' <= Cardinality(Logins)
  /\ Cardinality(Unrecorded(k))' = Cardinality(Unrecorded(k))

\* a fault lets one through or loses a failure,
Faults(k) ==
  /\ SameCounters(k) /\ faults' = faults + 1
  /\ Cardinality(Passed(k))' <= Cardinality(Passed(k)) + 1
  /\ Cardinality(Unrecorded(k))' <= Cardinality(Unrecorded(k))
  /\ Cardinality(Unrecorded(k)) <= Cardinality(Unrecorded(k))' + 1
  /\ Cardinality(Passed(k))' + Cardinality(Unrecorded(k))'
       <= Cardinality(Passed(k)) + Cardinality(Unrecorded(k)) + 1

\* a wrong password is tried,
Guesses(k) ==
  /\ rows'[k] = rows[k] /\ (k \in Watched => tried'[k] = OneMore(tried[k])) /\ faults' = faults
  /\ Cardinality(Passed(k))' + 1 = Cardinality(Passed(k))
  /\ Cardinality(Unrecorded(k))' = Cardinality(Unrecorded(k)) + 1

\* it is recorded,
Records(k) ==
  /\ rows'[k] = OneMore(rows[k]) /\ (k \in Watched => tried'[k] = tried[k]) /\ faults' = faults
  /\ Cardinality(Passed(k))' = Cardinality(Passed(k))
  /\ Cardinality(Unrecorded(k))' + 1 = Cardinality(Unrecorded(k))

\* or the key is forgotten.
Forgets(k) ==
  /\ rows'[k] = None /\ (k \in Watched => tried'[k] = None) /\ faults' = faults
  /\ Cardinality(Passed(k))' = Cardinality(Passed(k))
  /\ Cardinality(Unrecorded(k))' = Cardinality(Unrecorded(k))

Effect(k) == Rests(k) \/ Admits(k) \/ Faults(k) \/ Guesses(k) \/ Records(k) \/ Forgets(k)

\* Only login r is at a new statement, or has new keys.
OnlyMoves(r) ==
  \A q \in Logins \ {r} : at'[q] = at[q] /\ user'[q] = user[q] /\ ip'[q] = ip[q]

\* A set, with and without one element.
LEMMA CountOne ==
  ASSUME NEW S, NEW r, IsFiniteSet(S)
  PROVE  /\ Cardinality(S \ {r}) \in Nat
         /\ r \in S => Cardinality(S) = Cardinality(S \ {r}) + 1
         /\ r \notin S => Cardinality(S) = Cardinality(S \ {r})
<1>1. IsFiniteSet(S \ {r}) /\ Cardinality(S) \in Nat /\ Cardinality(S \ {r}) \in Nat
  BY FS_RemoveElement, FS_CardinalityType, FS_Subset
<1>2. r \in S => Cardinality(S \ {r}) = Cardinality(S) - 1
  BY FS_RemoveElement
<1>3. ASSUME r \notin S PROVE Cardinality(S) = Cardinality(S \ {r})
  <2>1. S \ {r} = S
    BY <1>3
  <2> QED BY <2>1
<1>4. r \in S => Cardinality(S) = Cardinality(S \ {r}) + 1
  BY <1>1, <1>2
<1> QED BY <1>1, <1>3, <1>4

\* Two disjoint sets of other logins.
LEMMA CountTwo ==
  ASSUME NEW A, NEW B, NEW r \in Logins,
         A \subseteq Logins \ {r}, B \subseteq Logins \ {r}, A \cap B = {}
  PROVE  Cardinality(A) + Cardinality(B) + 1 <= Cardinality(Logins)
<1>1. IsFiniteSet(Logins) /\ IsFiniteSet(Logins \ {r})
  BY FS_Subset, ThrottleAssumption
<1>2. IsFiniteSet(A) /\ IsFiniteSet(B) /\ IsFiniteSet(A \cup B)
  BY <1>1, FS_Subset, FS_Union
<1>3. Cardinality(A \cap B) = 0
  BY FS_EmptySet
<1>4. Cardinality(A \cup B) = Cardinality(A) + Cardinality(B)
  <2>1. Cardinality(A \cup B) = Cardinality(A) + Cardinality(B) - Cardinality(A \cap B)
    BY <1>2, FS_Union
  <2>2. Cardinality(A) \in Nat /\ Cardinality(B) \in Nat
    BY <1>2, FS_CardinalityType
  <2> QED BY <1>3, <2>1, <2>2
<1>5. Cardinality(A \cup B) <= Cardinality(Logins \ {r})
  <2>1. A \cup B \subseteq Logins \ {r}
    OBVIOUS
  <2> QED BY <1>1, <2>1, FS_Subset
<1>6. Cardinality(Logins) = Cardinality(Logins \ {r}) + 1 /\ Cardinality(Logins \ {r}) \in Nat
  BY <1>1, CountOne
<1>7. Cardinality(A) \in Nat /\ Cardinality(B) \in Nat
  BY <1>2, FS_CardinalityType
<1> QED BY <1>4, <1>5, <1>6, <1>7

\* The two sets of a key: p and u logins besides r.
Besides(r, k, p, u) ==
  /\ r \in Passed(k) => Cardinality(Passed(k)) = p + 1
  /\ r \notin Passed(k) => Cardinality(Passed(k)) = p
  /\ r \in Unrecorded(k) => Cardinality(Unrecorded(k)) = u + 1
  /\ r \notin Unrecorded(k) => Cardinality(Unrecorded(k)) = u

\* What a step of login r does to them is told by where r was and is.
LEMMA CountMoves ==
  ASSUME LoginsTyped, NEW r \in Logins, NEW k \in Keys, OnlyMoves(r)
  PROVE  \E p \in Nat, u \in Nat :
           /\ p + u + 1 <= Cardinality(Logins)
           /\ Besides(r, k, p, u) /\ Besides(r, k, p, u)'
<1> DEFINE A == Passed(k) \ {r}
           B == Unrecorded(k) \ {r}
<1>1. Passed(k)' \ {r} = A /\ Unrecorded(k)' \ {r} = B
  BY DEF OnlyMoves, Passed, Unrecorded
<1>2. A \subseteq Logins \ {r} /\ B \subseteq Logins \ {r}
  BY DEF Passed, Unrecorded
<1>3. A \cap B = {}
  BY ThrottleAssumption DEF Passed, Unrecorded, LoginsTyped, Keys
<1>4. Cardinality(A) + Cardinality(B) + 1 <= Cardinality(Logins)
  <2> HIDE DEF A, B
  <2> QED BY <1>2, <1>3, CountTwo
<1>5. Passed(k) \subseteq Logins /\ Unrecorded(k) \subseteq Logins
      /\ Passed(k)' \subseteq Logins /\ Unrecorded(k)' \subseteq Logins
  BY DEF Passed, Unrecorded
<1>6. /\ IsFiniteSet(Passed(k)) /\ IsFiniteSet(Unrecorded(k))
      /\ IsFiniteSet(Passed(k)') /\ IsFiniteSet(Unrecorded(k)')
  BY <1>5, FS_Subset, ThrottleAssumption
<1>7. /\ Cardinality(A) \in Nat
      /\ r \in Passed(k) => Cardinality(Passed(k)) = Cardinality(A) + 1
      /\ r \notin Passed(k) => Cardinality(Passed(k)) = Cardinality(A)
  BY <1>6, CountOne
<1>8. /\ Cardinality(B) \in Nat
      /\ r \in Unrecorded(k) => Cardinality(Unrecorded(k)) = Cardinality(B) + 1
      /\ r \notin Unrecorded(k) => Cardinality(Unrecorded(k)) = Cardinality(B)
  BY <1>6, CountOne
<1>9. /\ r \in Passed(k)' => Cardinality(Passed(k)') = Cardinality(A) + 1
      /\ r \notin Passed(k)' => Cardinality(Passed(k)') = Cardinality(A)
  BY <1>1, <1>6, CountOne
<1>10. /\ r \in Unrecorded(k)' => Cardinality(Unrecorded(k)') = Cardinality(B) + 1
       /\ r \notin Unrecorded(k)' => Cardinality(Unrecorded(k)') = Cardinality(B)
  BY <1>1, <1>6, CountOne
<1> HIDE DEF A, B
<1> QED BY <1>4, <1>7, <1>8, <1>9, <1>10 DEF Besides

\* What the counters become.
LEMMA CountersTyped ==
  ASSUME NEW f \in [Ages -> Nat]
  PROVE  /\ None \in [Ages -> Nat] /\ OneMore(f) \in [Ages -> Nat] /\ Older(f) \in [Ages -> Nat]
         /\ Growing(None)
         /\ Growing(f) => Growing(OneMore(f)) /\ Growing(Older(f))
         /\ Recent(None) = 0 /\ Recent(OneMore(f)) = Recent(f) + 1
         /\ Growing(f) => Recent(Older(f)) <= Recent(f)
         /\ Recent(f) \in Nat
<1> USE ThrottleAssumption DEF Ages, None, OneMore, Older, Growing, Recent
<1>1. Window - 1 \in Ages
  OBVIOUS
<1>2. None \in [Ages -> Nat] /\ OneMore(f) \in [Ages -> Nat] /\ Older(f) \in [Ages -> Nat]
  OBVIOUS
<1>3. Growing(None)
  OBVIOUS
<1>4. ASSUME Growing(f) PROVE Growing(OneMore(f)) /\ Growing(Older(f))
  <2>1. Growing(OneMore(f))
    BY <1>4
  <2>2. ASSUME NEW n \in Ages, n > 0 PROVE Older(f)[n - 1] <= Older(f)[n]
    <3>1. n - 1 \in Ages
      BY <2>2
    <3>2. Older(f)[n] = f[n - 1] /\ Older(f)[n - 1] = IF n - 1 = 0 THEN 0 ELSE f[n - 2]
      BY <2>2, <3>1
    <3>3. n - 1 > 0 => n - 2 \in Ages /\ f[n - 2] <= f[n - 1]
      BY <1>4, <2>2, <3>1
    <3> QED BY <2>2, <3>1, <3>2, <3>3
  <2> QED BY <2>1, <2>2
<1>5. Recent(None) = 0 /\ Recent(OneMore(f)) = Recent(f) + 1 /\ Recent(f) \in Nat
  BY <1>1
<1>6. ASSUME Growing(f) PROVE Recent(Older(f)) <= Recent(f)
  BY <1>1, <1>6
<1> QED BY <1>2, <1>3, <1>4, <1>5, <1>6

LEMMA CountTyped ==
  ASSUME NEW k
  PROVE  /\ Cardinality(Passed(k)) \in Nat /\ Cardinality(Unrecorded(k)) \in Nat
         /\ Cardinality(Logins) \in Nat
<1>1. Passed(k) \subseteq Logins /\ Unrecorded(k) \subseteq Logins
  BY DEF Passed, Unrecorded
<1> QED BY <1>1, FS_Subset, FS_CardinalityType, ThrottleAssumption

\* Whatever a step of a login means for a key, the key stays within its bounds.
\* A login that is let through finds fewer than Limit rows; the guesses beyond
\* the rows, and the guesses it and its like may still make, are those of logins
\* in flight.
LEMMA EffectCounts ==
  ASSUME ThrottleTyped, ThrottleTyped', NEW k \in Keys, Counted(k), Effect(k)
  PROVE  Counted(k)'
<1> DEFINE P == Cardinality(Passed(k))
           U == Cardinality(Unrecorded(k))
           L == Cardinality(Logins)
           w == Window - 1
<1>1. P \in Nat /\ U \in Nat /\ L \in Nat /\ P' \in Nat /\ U' \in Nat
  <2>1. P \in Nat /\ U \in Nat /\ L \in Nat
    BY CountTyped
  <2>2. (P \in Nat /\ U \in Nat)'
    BY CountTyped, PTL
  <2> QED BY <2>1, <2>2
<1>2. faults \in Nat /\ faults' \in Nat /\ Limit \in Nat
  BY ThrottleAssumption DEF ThrottleTyped
<1>3. /\ w \in Ages
      /\ \A n \in Ages : rows[k][n] \in Nat /\ rows'[k][n] \in Nat
      /\ \A n \in Ages : k \in Watched => tried[k][n] \in Nat /\ tried'[k][n] \in Nat
  BY ThrottleAssumption DEF ThrottleTyped, CountersOK, Ages
<1>4. rows[k][w] + P + U <= Limit - 1 + L + faults
  BY DEF Counted, RowsBounded, Recent, Bound
<1>5. ASSUME k \in Watched
      PROVE  /\ \A n \in Ages : tried[k][n] <= rows[k][n] + U + faults
             /\ tried[k][w] + P <= Limit - 1 + L + faults
  BY <1>5 DEF Counted, RowsLag, GuessesBounded, Recent, Bound
<1>6. \/ rows'[k] = rows[k] /\ faults' = faults /\ P' <= P /\ U' = U
         /\ (k \in Watched => tried'[k] = tried[k])
      \/ rows'[k] = rows[k] /\ faults' = faults /\ P' + U' <= L /\ U' = U
         /\ (k \in Watched => tried'[k] = tried[k]) /\ rows[k][w] < Limit
      \/ rows'[k] = rows[k] /\ faults' = faults + 1 /\ P' <= P + 1 /\ U <= U' + 1
         /\ P' + U' <= P + U + 1 /\ (k \in Watched => tried'[k] = tried[k])
      \/ /\ rows'[k] = rows[k] /\ faults' = faults /\ P' + 1 = P /\ U' = U + 1
         /\ k \in Watched => \A n \in Ages : tried'[k][n] = tried[k][n] + 1
      \/ /\ faults' = faults /\ P' = P /\ U' + 1 = U /\ (k \in Watched => tried'[k] = tried[k])
         /\ \A n \in Ages : rows'[k][n] = rows[k][n] + 1
      \/ /\ faults' = faults /\ P' = P /\ U' = U
         /\ \A n \in Ages : rows'[k][n] = 0 /\ (k \in Watched => tried'[k][n] = 0)
  <2>1. CASE Rests(k)
    BY <2>1 DEF Rests, SameCounters
  <2>2. CASE Admits(k)
    <3>1. ~(rows[k][w] >= Limit)
      BY <2>2 DEF Admits, Refused, Recent
    <3>2. rows[k][w] < Limit
      BY <1>2, <1>3, <3>1
    <3> QED BY <2>2, <3>2 DEF Admits, SameCounters
  <2>3. CASE Faults(k)
    BY <2>3 DEF Faults, SameCounters
  <2>4. CASE Guesses(k)
    BY <2>4 DEF Guesses, OneMore
  <2>5. CASE Records(k)
    BY <2>5 DEF Records, OneMore
  <2>6. CASE Forgets(k)
    BY <2>6 DEF Forgets, None
  <2> QED BY <2>1, <2>2, <2>3, <2>4, <2>5, <2>6 DEF Effect
<1> HIDE DEF P, U, L, w
<1>7. rows'[k][w] + P' + U' <= Limit - 1 + L + faults'
  <2> DEFINE r == rows[k][w]
             r1 == rows'[k][w]
             p1 == P'
             u1 == U'
             f1 == faults'
  <2>1. \/ r1 = r /\ f1 = faults /\ p1 <= P /\ u1 = U
        \/ r1 = r /\ f1 = faults /\ p1 + u1 <= L /\ r < Limit
        \/ r1 = r /\ f1 = faults + 1 /\ p1 + u1 <= P + U + 1
        \/ r1 = r /\ f1 = faults /\ p1 + 1 = P /\ u1 = U + 1
        \/ r1 = r + 1 /\ f1 = faults /\ p1 = P /\ u1 + 1 = U
        \/ r1 = 0 /\ f1 = faults /\ p1 = P /\ u1 = U
    BY <1>3, <1>6
  <2>2. r \in Nat /\ r1 \in Nat /\ p1 \in Nat /\ u1 \in Nat /\ f1 \in Nat
    BY <1>1, <1>2, <1>3
  <2>3. r + P + U <= Limit - 1 + L + faults
    BY <1>4
  <2> HIDE DEF r, r1, p1, u1, f1
  <2>4. r1 + p1 + u1 <= Limit - 1 + L + f1
    BY <1>1, <1>2, <2>1, <2>2, <2>3
  <2> QED BY <2>4 DEF r1, p1, u1, f1
<1>8. ASSUME k \in Watched, NEW n \in Ages
      PROVE  tried'[k][n] <= rows'[k][n] + U' + faults'
  BY <1>1, <1>2, <1>3, <1>5, <1>6, <1>8
<1>9. ASSUME k \in Watched
      PROVE  tried'[k][w] + P' <= Limit - 1 + L + faults'
  <2> DEFINE r == rows[k][w]
             t == tried[k][w]
             t1 == tried'[k][w]
             p1 == P'
             u1 == U'
             f1 == faults'
  <2>1. /\ tried'[k] = tried[k] => t1 = t
        /\ (\A n \in Ages : tried'[k][n] = tried[k][n] + 1) => t1 = t + 1
        /\ (\A n \in Ages : rows'[k][n] = 0 /\ tried'[k][n] = 0) => t1 = 0
    BY <1>3
  <2>2. \/ t1 = t /\ f1 = faults /\ p1 <= P
        \/ t1 = t /\ f1 = faults /\ p1 + u1 <= L /\ r < Limit /\ u1 = U
        \/ t1 = t /\ f1 = faults + 1 /\ p1 <= P + 1
        \/ t1 = t + 1 /\ f1 = faults /\ p1 + 1 = P
        \/ t1 = t /\ f1 = faults /\ p1 = P
        \/ t1 = 0 /\ f1 = faults /\ p1 = P
    <3> HIDE DEF t1, t
    <3> QED BY <1>6, <1>9, <2>1
  <2>3. r \in Nat /\ t \in Nat /\ t1 \in Nat /\ p1 \in Nat /\ u1 \in Nat /\ f1 \in Nat
    BY <1>1, <1>2, <1>3, <1>9
  <2>4. t + P <= Limit - 1 + L + faults /\ t <= r + U + faults
    BY <1>3, <1>5, <1>9
  <2> HIDE DEF r, t, t1, p1, u1, f1
  <2>5. t1 + p1 <= Limit - 1 + L + f1
    BY <1>1, <1>2, <2>2, <2>3, <2>4
  <2> QED BY <2>5 DEF t1, p1, f1
<1> QED
  BY <1>7, <1>8, <1>9 DEF Counted, RowsBounded, RowsLag, GuessesBounded, Recent, Bound, P, U, L, w

---------------------------------------------------------------------------

LEMMA AnswerTyped ==
  ASSUME LoginsTyped, NEW r \in Logins, Answer(r)
  PROVE  LoginsTyped' /\ OnlyMoves(r) /\ at'[r] = "idle"
BY DEF LoginsTyped, Answer, Proceed, OnlyMoves, Steps

LEMMA ProceedTyped ==
  ASSUME LoginsTyped, NEW r \in Logins, NEW l \in Steps, at[r] # "idle",
         Proceed(r, l), UNCHANGED keyVars
  PROVE  /\ LoginsTyped' /\ OnlyMoves(r)
         /\ at'[r] = l /\ user'[r] = user[r] /\ ip'[r] = ip[r]
BY DEF LoginsTyped, Proceed, keyVars, OnlyMoves

LEMMA LoginStepTyped ==
  ASSUME LoginsTyped, NEW r \in Logins, NEW u \in Names, NEW i \in IPs, Login(r, u, i)
  PROVE  LoginsTyped' /\ OnlyMoves(r) /\ at'[r] = "user"
BY DEF LoginsTyped, Login, Proceed, OnlyMoves, Steps

LEMMA SameCountersOK ==
  ASSUME CountersOK, UNCHANGED <<rows, tried>>
  PROVE  CountersOK' /\ \A k \in Keys : SameCounters(k)
BY DEF CountersOK, Monotone, Growing, SameCounters

\* One key's rows, or one key's rows and guesses, change.
LEMMA FailCounters ==
  ASSUME CountersOK, NEW j \in Keys, rows' = [rows EXCEPT ![j] = OneMore(@)], UNCHANGED tried
  PROVE  /\ CountersOK'
         /\ \A k \in Keys : k # j => SameCounters(k)
         /\ rows'[j] = OneMore(rows[j])
<1>1. \A k \in Keys : rows'[k] = IF k = j THEN OneMore(rows[j]) ELSE rows[k]
  BY DEF CountersOK
<1>2. rows[j] \in [Ages -> Nat] /\ Growing(rows[j])
  BY DEF CountersOK, Monotone
<1>3. OneMore(rows[j]) \in [Ages -> Nat] /\ Growing(OneMore(rows[j]))
  BY <1>2, CountersTyped
<1>4. rows' \in [Keys -> [Ages -> Nat]]
  BY <1>3 DEF CountersOK
<1>5. \A k \in Keys : Growing(rows'[k])
  <2> TAKE k \in Keys
  <2>1. CASE k = j
    <3>1. rows'[k] = OneMore(rows[j])
      BY <1>1, <2>1
    <3> QED BY <1>3, <3>1
  <2>2. CASE k # j
    <3>1. rows'[k] = rows[k]
      BY <1>1, <2>2
    <3> QED BY <3>1 DEF CountersOK, Monotone
  <2> QED BY <2>1, <2>2
<1>6. CountersOK'
  BY <1>4, <1>5 DEF CountersOK, Monotone, Growing
<1> QED BY <1>1, <1>6 DEF SameCounters

LEMMA ResetCounters ==
  ASSUME CountersOK, NEW j \in Keys, rows' = [rows EXCEPT ![j] = None],
         tried' = [w \in Watched |-> IF w = j THEN None ELSE tried[w]]
  PROVE  /\ CountersOK'
         /\ \A k \in Keys : k # j => SameCounters(k)
         /\ rows'[j] = None /\ (j \in Watched => tried'[j] = None)
<1>1. /\ \A k \in Keys : rows'[k] = IF k = j THEN None ELSE rows[k]
      /\ \A k \in Watched : tried'[k] = IF k = j THEN None ELSE tried[k]
  BY DEF CountersOK
<1>2. None \in [Ages -> Nat] /\ Growing(None)
  <2>1. rows[j] \in [Ages -> Nat]
    BY DEF CountersOK
  <2> QED BY <2>1, CountersTyped
<1>3. rows' \in [Keys -> [Ages -> Nat]] /\ tried' \in [Watched -> [Ages -> Nat]]
  BY <1>2 DEF CountersOK
<1>4. \A k \in Keys : Growing(rows'[k])
  <2> TAKE k \in Keys
  <2>1. CASE k = j
    BY <1>1, <1>2, <2>1
  <2>2. CASE k # j
    BY <1>1, <2>2 DEF CountersOK, Monotone
  <2> QED BY <2>1, <2>2
<1>5. \A k \in Watched : Growing(tried'[k])
  <2> TAKE k \in Watched
  <2>1. CASE k = j
    BY <1>1, <1>2, <2>1
  <2>2. CASE k # j
    BY <1>1, <2>2 DEF CountersOK, Monotone
  <2> QED BY <2>1, <2>2
<1>6. CountersOK'
  BY <1>3, <1>4, <1>5 DEF CountersOK, Monotone, Growing
<1> QED BY <1>1, <1>6 DEF SameCounters

LEMMA GuessCounters ==
  ASSUME CountersOK, NEW J, UNCHANGED rows,
         tried' = [k \in Watched |-> IF k \in J THEN OneMore(tried[k]) ELSE tried[k]]
  PROVE  /\ CountersOK'
         /\ \A k \in Keys : k \notin J => SameCounters(k)
         /\ \A k \in J : k \in Watched => tried'[k] = OneMore(tried[k])
<1>1. \A k \in Watched : tried'[k] = IF k \in J THEN OneMore(tried[k]) ELSE tried[k]
  OBVIOUS
<1>2. ASSUME NEW k \in Watched PROVE tried'[k] \in [Ages -> Nat] /\ Growing(tried'[k])
  <2>1. tried[k] \in [Ages -> Nat] /\ Growing(tried[k])
    BY DEF CountersOK, Monotone
  <2>2. OneMore(tried[k]) \in [Ages -> Nat] /\ Growing(OneMore(tried[k]))
    BY <2>1, CountersTyped
  <2> QED BY <1>1, <2>1, <2>2
<1>3. tried' \in [Watched -> [Ages -> Nat]]
  BY <1>2
<1>4. CountersOK'
  BY <1>2, <1>3 DEF CountersOK, Monotone, Growing
<1> QED BY <1>1, <1>4 DEF SameCounters

LEMMA TickCounters ==
  ASSUME CountersOK, Tick
  PROVE  /\ CountersOK'
         /\ \A k \in Keys : rows'[k] = Older(rows[k]) /\ Recent(rows'[k]) <= Recent(rows[k])
         /\ \A k \in Watched : tried'[k] = Older(tried[k]) /\ Recent(tried'[k]) <= Recent(tried[k])
<1>1. /\ \A k \in Keys : rows'[k] = Older(rows[k])
      /\ \A k \in Watched : tried'[k] = Older(tried[k])
  BY DEF Tick
<1>2. ASSUME NEW k \in Keys
      PROVE  rows'[k] \in [Ages -> Nat] /\ Growing(rows'[k]) /\ Recent(rows'[k]) <= Recent(rows[k])
  <2>1. rows[k] \in [Ages -> Nat] /\ Growing(rows[k])
    BY DEF CountersOK, Monotone
  <2> QED BY <1>1, <2>1, CountersTyped
<1>3. ASSUME NEW k \in Watched
      PROVE  tried'[k] \in [Ages -> Nat] /\ Growing(tried'[k]) /\ Recent(tried'[k]) <= Recent(tried[k])
  <2>1. tried[k] \in [Ages -> Nat] /\ Growing(tried[k])
    BY DEF CountersOK, Monotone
  <2> QED BY <1>1, <2>1, CountersTyped
<1>4. rows' \in [Keys -> [Ages -> Nat]] /\ tried' \in [Watched -> [Ages -> Nat]]
  BY <1>2, <1>3 DEF Tick
<1>5. CountersOK'
  BY <1>2, <1>3, <1>4 DEF CountersOK, Monotone, Growing
<1> QED BY <1>1, <1>2, <1>3, <1>5

---------------------------------------------------------------------------
(* What each step of a login means for each key *)

LEMMA LoginEffect ==
  ASSUME ThrottleTyped, NEW r \in Logins, NEW i \in Names, NEW a \in IPs, Login(r, i, a)
  PROVE  ThrottleTyped' /\ \A k \in Keys : Effect(k)
<1>1. LoginsTyped' /\ OnlyMoves(r) /\ at'[r] = "user" /\ at[r] = "idle"
  BY LoginStepTyped DEF ThrottleTyped, Login
<1>2. CountersOK' /\ (\A k \in Keys : SameCounters(k)) /\ faults' = faults
  BY SameCountersOK DEF ThrottleTyped, Login
<1>3. ASSUME NEW k \in Keys PROVE Rests(k)
  <2>1. r \notin Passed(k) /\ r \notin Unrecorded(k) /\ r \notin Passed(k)' /\ r \notin Unrecorded(k)'
    BY <1>1 DEF Passed, Unrecorded
  <2>2. PICK p \in Nat, u \in Nat : /\ p + u + 1 <= Cardinality(Logins)
                                     /\ Besides(r, k, p, u) /\ Besides(r, k, p, u)'
    BY <1>1, CountMoves DEF ThrottleTyped
  <2> QED BY <1>2, <2>1, <2>2 DEF Rests, Besides
<1> QED BY <1>1, <1>2, <1>3 DEF ThrottleTyped, Effect

\* The check of a key lets a login through only below the limit.
LEMMA CheckUserEffect ==
  ASSUME ThrottleTyped, NEW r \in Logins, CheckUser(r)
  PROVE  ThrottleTyped' /\ \A k \in Keys : Effect(k)
<1> USE DEF ThrottleTyped
<1>1. LoginsTyped' /\ OnlyMoves(r) /\ at[r] = "user"
      /\ \/ at'[r] = "idle"
         \/ ~Refused(user[r]) /\ at'[r] = "ip" /\ user'[r] = user[r] /\ ip'[r] = ip[r]
  BY AnswerTyped, ProceedTyped DEF CheckUser, Steps
<1>2. CountersOK' /\ (\A k \in Keys : SameCounters(k)) /\ faults' = faults
  BY SameCountersOK DEF CheckUser
<1>3. ASSUME NEW k \in Keys PROVE Effect(k)
  <2>1. /\ r \notin Passed(k) /\ r \notin Unrecorded(k) /\ r \notin Unrecorded(k)'
        /\ r \in Passed(k)' => ~Refused(k)
    BY <1>1, ThrottleAssumption DEF Passed, Unrecorded, LoginsTyped, Keys
  <2>2. PICK p \in Nat, u \in Nat : /\ p + u + 1 <= Cardinality(Logins)
                                     /\ Besides(r, k, p, u) /\ Besides(r, k, p, u)'
    BY <1>1, CountMoves DEF ThrottleTyped
  <2>3. CASE r \in Passed(k)'
    <3>1. Admits(k)
      BY <1>2, <2>1, <2>2, <2>3 DEF Admits, Besides
    <3> QED BY <3>1 DEF Effect
  <2>4. CASE r \notin Passed(k)'
    <3>1. Rests(k)
      BY <1>2, <2>1, <2>2, <2>4 DEF Rests, Besides
    <3> QED BY <3>1 DEF Effect
  <2> QED BY <2>3, <2>4
<1> QED BY <1>1, <1>2, <1>3

LEMMA CheckIpEffect ==
  ASSUME ThrottleTyped, NEW r \in Logins, CheckIp(r)
  PROVE  ThrottleTyped' /\ \A k \in Keys : Effect(k)
<1> USE DEF ThrottleTyped
<1>1. LoginsTyped' /\ OnlyMoves(r) /\ at[r] = "ip"
      /\ \/ at'[r] = "idle"
         \/ ~Refused(ip[r]) /\ at'[r] = "auth" /\ user'[r] = user[r] /\ ip'[r] = ip[r]
  BY AnswerTyped, ProceedTyped DEF CheckIp, Steps
<1>2. CountersOK' /\ (\A k \in Keys : SameCounters(k)) /\ faults' = faults
  BY SameCountersOK DEF CheckIp
<1>3. ASSUME NEW k \in Keys PROVE Effect(k)
  <2>1. /\ r \notin Unrecorded(k) /\ r \notin Unrecorded(k)'
        /\ r \in Passed(k)' => r \in Passed(k) \/ ~Refused(k)
    BY <1>1, ThrottleAssumption DEF Passed, Unrecorded, LoginsTyped, Keys
  <2>2. PICK p \in Nat, u \in Nat : /\ p + u + 1 <= Cardinality(Logins)
                                     /\ Besides(r, k, p, u) /\ Besides(r, k, p, u)'
    BY <1>1, CountMoves DEF ThrottleTyped
  <2>3. CASE r \in Passed(k)' /\ r \notin Passed(k)
    <3>1. Admits(k)
      BY <1>2, <2>1, <2>2, <2>3 DEF Admits, Besides
    <3> QED BY <3>1 DEF Effect
  <2>4. CASE r \notin Passed(k)' \/ r \in Passed(k)
    <3>1. Rests(k)
      BY <1>2, <2>1, <2>2, <2>4 DEF Rests, Besides
    <3> QED BY <3>1 DEF Effect
  <2> QED BY <2>3, <2>4
<1> QED BY <1>1, <1>2, <1>3

LEMMA CheckFailsOpenEffect ==
  ASSUME ThrottleTyped, NEW r \in Logins, CheckFailsOpen(r)
  PROVE  ThrottleTyped' /\ \A k \in Keys : Effect(k)
<1> USE DEF ThrottleTyped
<1>1. LoginsTyped' /\ OnlyMoves(r) /\ at[r] \in {"user", "ip"} /\ at'[r] \in {"ip", "auth"}
  BY ProceedTyped DEF CheckFailsOpen, Steps
<1>2. CountersOK' /\ (\A k \in Keys : SameCounters(k)) /\ faults' = faults + 1 /\ faults < MaxFaults
  BY SameCountersOK DEF CheckFailsOpen, Fault
<1>3. faults' \in 0 .. MaxFaults
  BY <1>2, ThrottleAssumption
<1>4. ASSUME NEW k \in Keys PROVE Faults(k)
  <2>1. r \notin Unrecorded(k) /\ r \notin Unrecorded(k)'
    BY <1>1 DEF Unrecorded
  <2>2. PICK p \in Nat, u \in Nat : /\ p + u + 1 <= Cardinality(Logins)
                                     /\ Besides(r, k, p, u) /\ Besides(r, k, p, u)'
    BY <1>1, CountMoves DEF ThrottleTyped
  <2>3. /\ Cardinality(Passed(k)) \in {p, p + 1} /\ Cardinality(Passed(k))' \in {p, p + 1}
        /\ Cardinality(Unrecorded(k)) = u /\ Cardinality(Unrecorded(k))' = u
    BY <2>1, <2>2 DEF Besides
  <2> QED BY <1>2, <2>3 DEF Faults
<1> QED BY <1>1, <1>2, <1>3, <1>4 DEF Effect

LEMMA AuthenticatedEffect ==
  ASSUME ThrottleTyped, NEW r \in Logins, Authenticated(r)
  PROVE  ThrottleTyped' /\ \A k \in Keys : Effect(k)
<1> USE DEF ThrottleTyped
<1>1. LoginsTyped' /\ OnlyMoves(r) /\ at[r] = "auth" /\ at'[r] = "okUser"
  BY ProceedTyped DEF Authenticated, Steps
<1>2. CountersOK' /\ (\A k \in Keys : SameCounters(k)) /\ faults' = faults
  BY SameCountersOK DEF Authenticated
<1>3. ASSUME NEW k \in Keys PROVE Rests(k)
  <2>1. r \notin Unrecorded(k) /\ r \notin Passed(k)' /\ r \notin Unrecorded(k)'
    BY <1>1 DEF Passed, Unrecorded
  <2>2. PICK p \in Nat, u \in Nat : /\ p + u + 1 <= Cardinality(Logins)
                                     /\ Besides(r, k, p, u) /\ Besides(r, k, p, u)'
    BY <1>1, CountMoves DEF ThrottleTyped
  <2> QED BY <1>2, <2>1, <2>2 DEF Rests, Besides
<1> QED BY <1>1, <1>2, <1>3 DEF Effect

LEMMA NotAuthenticatedEffect ==
  ASSUME ThrottleTyped, NEW r \in Logins, NotAuthenticated(r)
  PROVE  ThrottleTyped' /\ \A k \in Keys : Effect(k)
<1> USE DEF ThrottleTyped
<1>1. LoginsTyped' /\ OnlyMoves(r) /\ at[r] = "auth" /\ at'[r] = "failUser"
      /\ user'[r] = user[r] /\ ip'[r] = ip[r]
  BY ProceedTyped DEF NotAuthenticated, Steps
<1>2. /\ CountersOK' /\ faults' = faults /\ UNCHANGED rows
      /\ \A k \in Keys : k \notin {user[r], ip[r]} => SameCounters(k)
      /\ \A k \in {user[r], ip[r]} : k \in Watched => tried'[k] = OneMore(tried[k])
  BY GuessCounters DEF NotAuthenticated
<1>3. ASSUME NEW k \in Keys PROVE Effect(k)
  <2>1. /\ r \notin Unrecorded(k) /\ r \notin Passed(k)'
        /\ r \in Passed(k) <=> k \in {user[r], ip[r]}
        /\ r \in Unrecorded(k)' <=> k \in {user[r], ip[r]}
    BY <1>1 DEF Passed, Unrecorded
  <2>2. PICK p \in Nat, u \in Nat : /\ p + u + 1 <= Cardinality(Logins)
                                     /\ Besides(r, k, p, u) /\ Besides(r, k, p, u)'
    BY <1>1, CountMoves DEF ThrottleTyped
  <2>3. CASE k \in {user[r], ip[r]}
    <3>1. Guesses(k)
      BY <1>2, <2>1, <2>2, <2>3 DEF Guesses, Besides
    <3> QED BY <3>1 DEF Effect
  <2>4. CASE k \notin {user[r], ip[r]}
    <3>1. Rests(k)
      BY <1>2, <2>1, <2>2, <2>4 DEF Rests, Besides
    <3> QED BY <3>1 DEF Effect
  <2> QED BY <2>3, <2>4
<1> QED BY <1>1, <1>2, <1>3

\* loginFailed of one of the two keys, j.
LEMMA FailEffect ==
  ASSUME ThrottleTyped, LoginsTyped', NEW r \in Logins, OnlyMoves(r), NEW j \in Keys,
         Fail(j), UNCHANGED tried,
         \A k \in Keys : /\ r \notin Passed(k) /\ r \notin Passed(k)'
                         /\ r \in Unrecorded(k)' => r \in Unrecorded(k)
                         /\ k = j => r \in Unrecorded(k) /\ r \notin Unrecorded(k)'
                         /\ k # j => (r \in Unrecorded(k)' <=> r \in Unrecorded(k))
  PROVE  ThrottleTyped' /\ \A k \in Keys : Effect(k)
<1> USE DEF ThrottleTyped
<1>1. OnlyMoves(r)
  OBVIOUS
<1>2. CASE rows' = [rows EXCEPT ![j] = OneMore(@)] /\ UNCHANGED faults
  <2>1. /\ CountersOK' /\ rows'[j] = OneMore(rows[j]) /\ UNCHANGED <<tried, faults>>
        /\ \A k \in Keys : k # j => SameCounters(k)
    BY <1>2, FailCounters
  <2>2. ASSUME NEW k \in Keys PROVE Effect(k)
    <3>1. PICK p \in Nat, u \in Nat : Besides(r, k, p, u) /\ Besides(r, k, p, u)'
      BY CountMoves
    <3>2. CASE k = j
      <4>1. Records(k)
        BY <2>1, <3>1, <3>2 DEF Records, Besides
      <4> QED BY <4>1 DEF Effect
    <3>3. CASE k # j
      <4>1. Rests(k)
        BY <2>1, <3>1, <3>3 DEF Rests, Besides
      <4> QED BY <4>1 DEF Effect
    <3> QED BY <3>2, <3>3
  <2> QED BY <2>1, <2>2
<1>3. CASE Fault /\ UNCHANGED rows
  <2>1. CountersOK' /\ (\A k \in Keys : SameCounters(k)) /\ faults' = faults + 1 /\ faults < MaxFaults
    BY <1>3, SameCountersOK DEF Fault
  <2>2. faults' \in 0 .. MaxFaults
    BY <2>1, ThrottleAssumption
  <2>3. ASSUME NEW k \in Keys PROVE Faults(k)
    <3>1. PICK p \in Nat, u \in Nat : Besides(r, k, p, u) /\ Besides(r, k, p, u)'
      BY CountMoves
    <3>2. /\ Cardinality(Passed(k)) = p /\ Cardinality(Passed(k))' = p
          /\ Cardinality(Unrecorded(k)) \in {u, u + 1} /\ Cardinality(Unrecorded(k))' \in {u, u + 1}
          /\ Cardinality(Unrecorded(k))' <= Cardinality(Unrecorded(k))
      BY <3>1 DEF Besides
    <3> QED BY <2>1, <3>2 DEF Faults
  <2> QED BY <2>1, <2>2, <2>3 DEF Effect
<1> QED BY <1>2, <1>3 DEF Fail

LEMMA LoginFailedEffect ==
  ASSUME ThrottleTyped, NEW r \in Logins, LoginFailed(r)
  PROVE  ThrottleTyped' /\ \A k \in Keys : Effect(k)
<1>1. UNCHANGED tried /\ LoginsTyped
  BY DEF LoginFailed, ThrottleTyped
<1>2. CASE at[r] = "failUser" /\ Fail(user[r]) /\ Proceed(r, "failIp") /\ UNCHANGED keyVars
  <2>1. LoginsTyped' /\ OnlyMoves(r) /\ at'[r] = "failIp" /\ user'[r] = user[r] /\ ip'[r] = ip[r]
    BY <1>1, <1>2, ProceedTyped DEF Steps
  <2>2. user[r] \in Names /\ ip[r] \in IPs /\ user[r] \in Keys /\ user[r] # ip[r]
    BY <1>1, <1>2, ThrottleAssumption DEF LoginsTyped, Keys
  <2>3. ASSUME NEW k \in Keys
        PROVE  /\ r \notin Passed(k) /\ r \notin Passed(k)'
               /\ r \in Unrecorded(k)' => r \in Unrecorded(k)
               /\ k = user[r] => r \in Unrecorded(k) /\ r \notin Unrecorded(k)'
               /\ k # user[r] => (r \in Unrecorded(k)' <=> r \in Unrecorded(k))
    BY <1>2, <2>1, <2>2 DEF Passed, Unrecorded
  <2> QED BY <1>1, <1>2, <2>1, <2>2, <2>3, FailEffect
<1>3. CASE at[r] = "failIp" /\ Fail(ip[r]) /\ Answer(r)
  <2>1. LoginsTyped' /\ OnlyMoves(r) /\ at'[r] = "idle"
    BY <1>1, <1>3, AnswerTyped
  <2>2. user[r] \in Names /\ ip[r] \in IPs /\ ip[r] \in Keys /\ user[r] # ip[r]
    BY <1>1, <1>3, ThrottleAssumption DEF LoginsTyped, Keys
  <2>3. ASSUME NEW k \in Keys
        PROVE  /\ r \notin Passed(k) /\ r \notin Passed(k)'
               /\ r \in Unrecorded(k)' => r \in Unrecorded(k)
               /\ k = ip[r] => r \in Unrecorded(k) /\ r \notin Unrecorded(k)'
               /\ k # ip[r] => (r \in Unrecorded(k)' <=> r \in Unrecorded(k))
    BY <1>3, <2>1, <2>2 DEF Passed, Unrecorded
  <2> QED BY <1>1, <1>3, <2>1, <2>2, <2>3, FailEffect
<1> QED BY <1>2, <1>3 DEF LoginFailed

\* loginSucceeded of one of the two keys, j.
LEMMA ResetEffect ==
  ASSUME ThrottleTyped, LoginsTyped', NEW r \in Logins, OnlyMoves(r), NEW j \in Keys,
         Reset(j), UNCHANGED faults, at[r] \in {"okUser", "okIp"}, at'[r] \in {"okIp", "idle"}
  PROVE  ThrottleTyped' /\ \A k \in Keys : Effect(k)
<1> USE DEF ThrottleTyped
<1>1. ASSUME NEW k \in Keys
      PROVE  /\ Cardinality(Passed(k)) \in Nat /\ Cardinality(Unrecorded(k)) \in Nat
             /\ Cardinality(Passed(k))' = Cardinality(Passed(k))
             /\ Cardinality(Unrecorded(k))' = Cardinality(Unrecorded(k))
  <2>1. r \notin Passed(k) /\ r \notin Unrecorded(k) /\ r \notin Passed(k)' /\ r \notin Unrecorded(k)'
    BY DEF Passed, Unrecorded
  <2>2. PICK p \in Nat, u \in Nat : Besides(r, k, p, u) /\ Besides(r, k, p, u)'
    BY CountMoves
  <2> QED BY <2>1, <2>2 DEF Besides
<1>2. CASE /\ rows' = [rows EXCEPT ![j] = None]
           /\ tried' = [w \in Watched |-> IF w = j THEN None ELSE tried[w]]
  <2>1. /\ CountersOK' /\ rows'[j] = None /\ (j \in Watched => tried'[j] = None)
        /\ \A k \in Keys : k # j => SameCounters(k)
    BY <1>2, ResetCounters
  <2>2. ASSUME NEW k \in Keys, k = j PROVE Forgets(k)
    BY <1>1, <2>1, <2>2 DEF Forgets
  <2>3. ASSUME NEW k \in Keys, k # j PROVE Rests(k)
    BY <1>1, <2>1, <2>3 DEF Rests
  <2> QED BY <2>1, <2>2, <2>3 DEF Effect
<1>3. CASE UNCHANGED <<rows, tried>>
  <2>1. CountersOK' /\ \A k \in Keys : SameCounters(k)
    BY <1>3, SameCountersOK
  <2>2. ASSUME NEW k \in Keys PROVE Rests(k)
    BY <1>1, <2>1 DEF Rests
  <2> QED BY <2>1, <2>2 DEF Effect
<1> QED BY <1>2, <1>3 DEF Reset

LEMMA LoginSucceededEffect ==
  ASSUME ThrottleTyped, NEW r \in Logins, LoginSucceeded(r)
  PROVE  ThrottleTyped' /\ \A k \in Keys : Effect(k)
<1>1. UNCHANGED faults /\ LoginsTyped
  BY DEF LoginSucceeded, ThrottleTyped
<1>2. CASE at[r] = "okUser" /\ Reset(user[r]) /\ Proceed(r, "okIp") /\ UNCHANGED keyVars
  <2>1. LoginsTyped' /\ OnlyMoves(r) /\ at'[r] = "okIp"
    BY <1>1, <1>2, ProceedTyped DEF Steps
  <2>2. user[r] \in Keys
    BY <1>1, <1>2 DEF LoginsTyped, Keys
  <2> QED BY <1>1, <1>2, <2>1, <2>2, ResetEffect
<1>3. CASE at[r] = "okIp" /\ Reset(ip[r]) /\ Answer(r)
  <2>1. LoginsTyped' /\ OnlyMoves(r) /\ at'[r] = "idle"
    BY <1>1, <1>3, AnswerTyped
  <2>2. ip[r] \in Keys
    BY <1>1, <1>3 DEF LoginsTyped, Keys
  <2> QED BY <1>1, <1>3, <2>1, <2>2, ResetEffect
<1> QED BY <1>2, <1>3 DEF LoginSucceeded

\* What a login that is cut short had to record is a fault.
LEMMA CutShortEffect ==
  ASSUME ThrottleTyped, NEW r \in Logins, CutShort(r)
  PROVE  ThrottleTyped' /\ \A k \in Keys : Effect(k)
<1> USE DEF ThrottleTyped
<1>1. LoginsTyped' /\ OnlyMoves(r) /\ at'[r] = "idle"
  BY AnswerTyped DEF CutShort
<1>2. CountersOK' /\ \A k \in Keys : SameCounters(k)
  BY SameCountersOK DEF CutShort
<1>3. ASSUME NEW k \in Keys PROVE r \notin Passed(k)' /\ r \notin Unrecorded(k)'
  BY <1>1 DEF Passed, Unrecorded
<1>4. CASE at[r] \in {"failUser", "failIp"}
  <2>1. faults' = faults + 1 /\ faults' \in 0 .. MaxFaults
    BY <1>4, ThrottleAssumption DEF CutShort, Fault
  <2>2. ASSUME NEW k \in Keys PROVE Faults(k)
    <3>1. r \notin Passed(k)
      BY <1>4 DEF Passed
    <3>2. PICK p \in Nat, u \in Nat : Besides(r, k, p, u) /\ Besides(r, k, p, u)'
      BY <1>1, CountMoves
    <3>3. /\ Cardinality(Passed(k)) = p /\ Cardinality(Passed(k))' = p
          /\ Cardinality(Unrecorded(k)) \in {u, u + 1} /\ Cardinality(Unrecorded(k))' = u
      BY <1>3, <3>1, <3>2 DEF Besides
    <3> QED BY <1>2, <2>1, <3>3 DEF Faults
  <2> QED BY <1>1, <1>2, <2>1, <2>2 DEF Effect
<1>5. CASE at[r] \notin {"failUser", "failIp"}
  <2>1. faults' = faults
    BY <1>5 DEF CutShort
  <2>2. ASSUME NEW k \in Keys PROVE Rests(k)
    <3>1. r \notin Unrecorded(k)
      BY <1>5 DEF Unrecorded
    <3>2. PICK p \in Nat, u \in Nat : Besides(r, k, p, u) /\ Besides(r, k, p, u)'
      BY <1>1, CountMoves
    <3> QED BY <1>2, <1>3, <2>1, <3>1, <3>2 DEF Rests, Besides
  <2> QED BY <1>1, <1>2, <2>1, <2>2 DEF Effect
<1> QED BY <1>4, <1>5

\* As time passes, counters only forget; what is n old was n - 1 old, so that the
\* lag of the rows at every age is needed for the lag at the next.
LEMMA TickCounts ==
  ASSUME ThrottleInv, Tick
  PROVE  ThrottleInv'
<1>1. LoginsTyped' /\ UNCHANGED <<at, user, ip, faults>>
  BY DEF ThrottleInv, ThrottleTyped, LoginsTyped, Tick, keyVars
<1>2. /\ CountersOK'
      /\ \A k \in Keys : rows'[k] = Older(rows[k]) /\ Recent(rows'[k]) <= Recent(rows[k])
      /\ \A k \in Watched : tried'[k] = Older(tried[k]) /\ Recent(tried'[k]) <= Recent(tried[k])
  BY TickCounters DEF ThrottleInv, ThrottleTyped
<1>3. ASSUME NEW k \in Keys PROVE Counted(k)'
  <2> DEFINE P == Cardinality(Passed(k))
             U == Cardinality(Unrecorded(k))
  <2>1. P' = P /\ U' = U /\ Bound' = Bound
    BY <1>1 DEF Passed, Unrecorded, Bound
  <2>2. P \in Nat /\ U \in Nat /\ Cardinality(Logins) \in Nat /\ faults \in Nat
    BY CountTyped, ThrottleAssumption DEF ThrottleInv, ThrottleTyped
  <2>3. Bound \in Int
    BY <2>2, ThrottleAssumption DEF Bound
  <2>4. Counted(k) /\ rows[k] \in [Ages -> Nat] /\ rows'[k] \in [Ages -> Nat]
        /\ (k \in Watched => tried[k] \in [Ages -> Nat] /\ tried'[k] \in [Ages -> Nat])
    BY <1>2 DEF ThrottleInv, ThrottleTyped, CountersOK
  <2>5. Recent(rows[k]) \in Nat /\ Recent(rows'[k]) \in Nat
        /\ (k \in Watched => Recent(tried[k]) \in Nat /\ Recent(tried'[k]) \in Nat)
    BY <2>4, CountersTyped
  <2>6. RowsBounded(k)'
    <3>1. Recent(rows[k]) + P + U <= Bound
      BY <2>4 DEF Counted, RowsBounded
    <3> HIDE DEF P, U
    <3>2. Recent(rows'[k]) + P + U <= Bound
      BY <1>2, <2>2, <2>3, <2>5, <3>1
    <3> QED BY <2>1, <3>2 DEF RowsBounded, P, U, Recent
  <2>7. ASSUME k \in Watched PROVE GuessesBounded(k)'
    <3>1. Recent(tried[k]) + P <= Bound
      BY <2>4, <2>7 DEF Counted, GuessesBounded
    <3> HIDE DEF P
    <3>2. Recent(tried'[k]) + P <= Bound
      BY <1>2, <2>2, <2>3, <2>5, <2>7, <3>1
    <3> QED BY <2>1, <3>2 DEF GuessesBounded, P, Recent
  <2>8. ASSUME k \in Watched PROVE RowsLag(k)'
    <3>1. ASSUME NEW n \in Ages PROVE tried'[k][n] <= rows'[k][n] + U + faults
      <4>1. \A m \in Ages : tried[k][m] <= rows[k][m] + U + faults
        BY <2>4, <2>8 DEF Counted, RowsLag
      <4>2. CASE n = 0
        <5>1. tried'[k][n] = 0 /\ rows'[k][n] = 0
          BY <1>2, <2>8, <4>2 DEF Older
        <5> HIDE DEF U
        <5> QED BY <2>2, <5>1
      <4>3. CASE n # 0
        <5>1. tried'[k][n] = tried[k][n - 1] /\ rows'[k][n] = rows[k][n - 1]
          <6>1. Older(tried[k])[n] = tried[k][n - 1] /\ Older(rows[k])[n] = rows[k][n - 1]
            BY <4>3 DEF Older
          <6> QED BY <1>2, <2>8, <6>1
        <5>2. n - 1 \in Ages
          BY <4>3, ThrottleAssumption DEF Ages
        <5> HIDE DEF U
        <5> QED BY <4>1, <5>1, <5>2
      <4> QED BY <4>2, <4>3
    <3> QED BY <1>1, <2>1, <3>1 DEF RowsLag
  <2> QED BY <2>6, <2>7, <2>8 DEF Counted
<1> QED BY <1>1, <1>2, <1>3 DEF ThrottleInv, ThrottleTyped

LEMMA ThrottleInitInv == ThrottleInit => ThrottleInv
<1> SUFFICES ASSUME ThrottleInit PROVE ThrottleInv
  OBVIOUS
<1>1. LoginsTyped /\ faults \in 0 .. MaxFaults /\ faults = 0
  BY ThrottleAssumption DEF ThrottleInit, LoginsTyped, Steps
<1>2. Window - 1 \in Ages /\ None \in [Ages -> Nat] /\ Growing(None)
  BY ThrottleAssumption DEF Ages, None, Growing
<1>3. CountersOK
  BY <1>2 DEF ThrottleInit, CountersOK, Monotone
<1>4. ASSUME NEW k \in Keys PROVE Counted(k)
  <2>1. Passed(k) = {} /\ Unrecorded(k) = {}
    BY DEF ThrottleInit, Passed, Unrecorded
  <2>2. Cardinality(Passed(k)) = 0 /\ Cardinality(Unrecorded(k)) = 0 /\ Cardinality(Logins) \in Nat
    BY <2>1, FS_EmptySet, CountTyped
  <2>3. rows[k] = None /\ (k \in Watched => tried[k] = None)
    BY DEF ThrottleInit
  <2>4. 0 <= Limit - 1 + Cardinality(Logins) + faults
    BY <1>1, <2>2, ThrottleAssumption
  <2> QED
    BY <1>1, <1>2, <2>2, <2>3, <2>4
    DEF Counted, RowsBounded, RowsLag, GuessesBounded, Recent, Bound, None
<1> QED BY <1>1, <1>3, <1>4 DEF ThrottleInv, ThrottleTyped

LEMMA ThrottleNextInv ==
  ASSUME ThrottleInv, [ThrottleNext]_throttleVars
  PROVE  ThrottleInv'
<1>1. ASSUME ThrottleTyped', \A k \in Keys : Effect(k) PROVE ThrottleInv'
  BY <1>1, EffectCounts DEF ThrottleInv
<1>2. ASSUME NEW r \in Logins, NEW u \in Names, NEW i \in IPs, Login(r, u, i) PROVE ThrottleInv'
  BY <1>1, <1>2, LoginEffect DEF ThrottleInv
<1>3. ASSUME NEW r \in Logins, CheckUser(r) PROVE ThrottleInv'
  BY <1>1, <1>3, CheckUserEffect DEF ThrottleInv
<1>4. ASSUME NEW r \in Logins, CheckIp(r) PROVE ThrottleInv'
  BY <1>1, <1>4, CheckIpEffect DEF ThrottleInv
<1>5. ASSUME NEW r \in Logins, CheckFailsOpen(r) PROVE ThrottleInv'
  BY <1>1, <1>5, CheckFailsOpenEffect DEF ThrottleInv
<1>6. ASSUME NEW r \in Logins, Authenticated(r) PROVE ThrottleInv'
  BY <1>1, <1>6, AuthenticatedEffect DEF ThrottleInv
<1>7. ASSUME NEW r \in Logins, NotAuthenticated(r) PROVE ThrottleInv'
  BY <1>1, <1>7, NotAuthenticatedEffect DEF ThrottleInv
<1>8. ASSUME NEW r \in Logins, LoginFailed(r) PROVE ThrottleInv'
  BY <1>1, <1>8, LoginFailedEffect DEF ThrottleInv
<1>9. ASSUME NEW r \in Logins, LoginSucceeded(r) PROVE ThrottleInv'
  BY <1>1, <1>9, LoginSucceededEffect DEF ThrottleInv
<1>10. ASSUME NEW r \in Logins, CutShort(r) PROVE ThrottleInv'
  BY <1>1, <1>10, CutShortEffect DEF ThrottleInv
<1>11. ASSUME UNCHANGED throttleVars PROVE ThrottleInv'
  BY <1>11 DEF ThrottleInv, ThrottleTyped, LoginsTyped, CountersOK, Monotone, Growing, Counted,
     RowsBounded, RowsLag, GuessesBounded, Recent, Bound, Passed, Unrecorded, throttleVars, keyVars
<1> QED
  BY <1>2, <1>3, <1>4, <1>5, <1>6, <1>7, <1>8, <1>9, <1>10, <1>11, TickCounts DEF ThrottleNext

LEMMA ThrottleInvariant == ThrottleSpec => []ThrottleInv
BY ThrottleInitInv, ThrottleNextInv, PTL DEF ThrottleSpec

\* The auth_failures rows of a key that count never exceed the limit by more than
\* the logins in flight and the faults (internal/web/ratelimit.go: the check and
\* the record are separate statements), and the counters keep their types.
THEOREM ThrottleTypes == ThrottleSpec => []ThrottleTypeOK
<1>1. ASSUME ThrottleInv PROVE ThrottleTypeOK
  <2>1. ASSUME NEW k \in Keys
        PROVE  Recent(rows[k]) <= Limit + Cardinality(Logins) + MaxFaults - 1
    <3> DEFINE R == Recent(rows[k])
               P == Cardinality(Passed(k))
               U == Cardinality(Unrecorded(k))
               L == Cardinality(Logins)
    <3>1. R \in Nat /\ P \in Nat /\ U \in Nat /\ L \in Nat
      BY <1>1, CountTyped, CountersTyped DEF ThrottleInv, ThrottleTyped, CountersOK
    <3>2. R + P + U <= Limit - 1 + L + faults
      BY <1>1 DEF ThrottleInv, Counted, RowsBounded, Bound
    <3>3. faults \in 0 .. MaxFaults
      BY <1>1 DEF ThrottleInv, ThrottleTyped
    <3> HIDE DEF R, P, U, L
    <3>4. R <= Limit + L + MaxFaults - 1
      BY <3>1, <3>2, <3>3, ThrottleAssumption
    <3> QED BY <3>4 DEF R, L
  <2> QED BY <1>1, <2>1
       DEF ThrottleTypeOK, ThrottleInv, ThrottleTyped, LoginsTyped, CountersOK, Steps
<1> QED BY <1>1, ThrottleInvariant, PTL

\* The limit on wrong passwords holds for the deployment as a whole, for any number
\* of replicas, logins and keys, any limit and any window (ratelimit.go: "makes the
\* limit hold for the deployment as a whole").
THEOREM GuessLimit == ThrottleSpec => []GuessesAreBounded
<1>1. ASSUME ThrottleInv PROVE GuessesAreBounded
  <2>1. ASSUME NEW k \in Watched
        PROVE  Recent(tried[k]) <= Limit - 1 + Cardinality(Logins) + faults
    <3> DEFINE T == Recent(tried[k])
               P == Cardinality(Passed(k))
               L == Cardinality(Logins)
    <3>1. T \in Nat /\ P \in Nat /\ L \in Nat /\ faults \in Nat
      <4>1. tried[k] \in [Ages -> Nat] /\ faults \in Nat
        BY <1>1, ThrottleAssumption DEF ThrottleInv, ThrottleTyped, CountersOK
      <4> QED BY <4>1, CountTyped, CountersTyped
    <3>2. k \in Keys
      BY ThrottleAssumption DEF Keys
    <3>3. T + P <= Limit - 1 + L + faults
      BY <1>1, <3>2 DEF ThrottleInv, Counted, GuessesBounded, Bound
    <3> HIDE DEF T, P, L
    <3>4. T <= Limit - 1 + L + faults
      BY <3>1, <3>3, ThrottleAssumption
    <3> QED BY <3>4 DEF T, L
  <2> QED BY <2>1 DEF GuessesAreBounded
<1> QED BY <1>1, ThrottleInvariant, PTL
=============================================================================
