----------------------------- MODULE UserAccess -----------------------------
(***************************************************************************)
(* Portal accounts, their sessions and API tokens: internal/auth/auth.go   *)
(* over the users, sessions and api_tokens tables, and the administration  *)
(* of accounts by the portal and the API (internal/web/pages.go, api.go)   *)
(* and by the command line (internal/cli/misc_cmd.go).                     *)
(*                                                                         *)
(* A sign-in reads the account and then writes a session or a token, a     *)
(* sign-in through a directory also writes the account; an administrator   *)
(* reads the account, counts the administrators and then writes.  All of   *)
(* these are separate statements of many replicas.  Passwords are right:   *)
(* LoginThrottle is about the others.                                      *)
(***************************************************************************)
EXTENDS Naturals, FiniteSets

CONSTANTS
  Users,          \* user names
  Local,          \* those with a password
  Directory,      \* those that LDAP or OIDC vouches for
  BreakGlass,     \* the administrator of the configuration file
  Sessions, Tokens,
  NoUser, NoToken,
  Requests,
  CommandLine     \* the requests that may also be goca commands on the server

ASSUME AccessAssumption ==
  /\ Local \subseteq Users /\ Directory \subseteq Users \ Local /\ BreakGlass \in Local
  /\ CommandLine \subseteq Requests
  /\ NoUser \notin Users /\ NoToken \notin Tokens

VARIABLES
  role,       \* users.role, or "none" without a row
  disabled,   \* users.disabled
  owner,      \* sessions: the user of each session that has not expired
  token,      \* api_tokens: owner and role
  revoked,    \* the tokens that are revoked, expired or deleted with their owner
  pc,         \* the next statement of each request
  who, as,    \* the user it is of, then the account it administers; the role it has read
  what,       \* what an administrator does
  gone,       \* ghost: the requests whose account was deleted since they read its id
  disturbed,  \* ghost: the requests since whose last read an account was changed
  barred,     \* ghost: those whose user has been without access ever since they began,
  weak,       \* ghost: no administrator ever since,
  capped,     \* ghost: or that came with a token of a user
  command     \* ghost: those that are goca commands

accounts == <<role, disabled>>
credentials == <<owner, token, revoked>>
locals == <<who, as, what>>
ghosts == <<gone, disturbed, barred, weak, capped, command>>
vars == <<accounts, credentials, pc, locals, ghosts>>

Roles == {"user", "admin"}
Deeds == {"promote", "demote", "enable", "disable", "delete"}
Exists(u) == role[u] # "none"
Admins == {u \in Users : role[u] = "admin" /\ u \notin disabled}

TypeOK ==
  /\ role \in [Users -> Roles \cup {"none"}]
  /\ disabled \in SUBSET {u \in Users : Exists(u)}
  /\ owner \in [Sessions -> {u \in Users : Exists(u)} \cup {NoUser}]
  /\ token \in [Tokens -> [owner : {u \in Users : Exists(u)}, role : Roles] \cup {NoToken}]
  /\ revoked \in SUBSET Tokens
  /\ pc \in [Requests -> {"idle", "sync", "reread", "issue", "owner", "granted",
                          "count", "write", "create", "sessions"}]
  /\ who \in [Requests -> Users \cup {NoUser}]
  /\ as \in [Requests -> Roles \cup {"none"}]
  /\ what \in [Requests -> Deeds \cup {"none"}]
  /\ gone \in SUBSET Requests /\ disturbed \in SUBSET Requests
  /\ barred \in SUBSET Requests /\ weak \in SUBSET Requests /\ capped \in SUBSET Requests
  /\ command \in SUBSET Requests

\* The first replica has started.
Init ==
  /\ role = [u \in Users |-> IF u = BreakGlass THEN "admin" ELSE "none"]
  /\ disabled = {}
  /\ owner = [s \in Sessions |-> NoUser]
  /\ token = [t \in Tokens |-> NoToken]
  /\ revoked = {}
  /\ pc = [r \in Requests |-> "idle"]
  /\ who = [r \in Requests |-> NoUser]
  /\ as = [r \in Requests |-> "none"]
  /\ what = [r \in Requests |-> "none"]
  /\ gone = {} /\ disturbed = {} /\ barred = {} /\ weak = {} /\ capped = {}
  /\ command = {}

---------------------------------------------------------------------------
(* Helpers *)

Goto(r, label) == pc' = [pc EXCEPT ![r] = label]

\* A request begins for user u with role ro, as it has read it.
Begin(r, label, u, ro) ==
  /\ pc[r] = "idle"
  /\ Goto(r, label)
  /\ who' = [who EXCEPT ![r] = u]
  /\ as' = [as EXCEPT ![r] = ro]
  /\ barred' = IF Exists(u) /\ u \notin disabled THEN barred ELSE barred \cup {r}
  /\ weak' = IF role[u] = "admin" THEN weak ELSE weak \cup {r}
  /\ UNCHANGED <<what, gone, command>>

\* It goes on as "pc = label" without the user it is of, to do something to u.
Administering(r, label, u, ro, deed) ==
  /\ Goto(r, label)
  /\ who' = [who EXCEPT ![r] = u]
  /\ as' = [as EXCEPT ![r] = ro]
  /\ what' = [what EXCEPT ![r] = deed]
  /\ gone' = gone \ {r} /\ disturbed' = disturbed \ {r}
  /\ barred' = barred \ {r} /\ weak' = weak \ {r} /\ capped' = capped \ {r}
  /\ command' = IF label # "idle" /\ pc[r] = "idle" THEN command \cup {r} ELSE command \ {r}

\* It ends.
Return(r) == Administering(r, "idle", NoUser, "none", "none")

\* Accounts are written; the reads of the requests in R were for this write.
Change(R, newRole, newDisabled) ==
  /\ role' = newRole
  /\ disabled' = newDisabled
  /\ disturbed' = IF newRole = role /\ newDisabled = disabled THEN disturbed \ R
                  ELSE (disturbed \cup {q \in Requests : pc[q] \in {"sync", "write", "create"}}) \ R
  /\ barred' = {q \in barred : newRole[who[q]] = "none" \/ who[q] \in newDisabled}
  /\ weak' = {q \in weak : newRole[who[q]] # "admin"}

\* Request r has written and ends; the account of those in Q is gone.
Finish(r, Q) ==
  /\ Goto(r, "idle")
  /\ who' = [who EXCEPT ![r] = NoUser]
  /\ as' = [as EXCEPT ![r] = "none"]
  /\ what' = [what EXCEPT ![r] = "none"]
  /\ gone' = (gone \cup Q) \ {r}
  /\ command' = command \ {r}

---------------------------------------------------------------------------
(* Signing in *)

\* Authenticate finds a local account that is not disabled.
Authenticate(r, u) ==
  /\ u \in Local /\ Exists(u) /\ u \notin disabled
  /\ Begin(r, "issue", u, role[u])
  /\ UNCHANGED <<accounts, credentials, disturbed, capped>>

\* syncDirectoryUser reads the account.  "A user promoted to admin locally keeps
\* that role even if the directory/provider does not grant it."
SyncRead(r, u, granted) ==
  /\ u \in Directory /\ u \notin disabled
  /\ Begin(r, "sync", u, IF role[u] = "admin" THEN "admin" ELSE granted)
  /\ UNCHANGED <<accounts, credentials, disturbed, capped>>

\* If it cannot be read it is taken for a new one.
SyncReadFails(r, u, granted) ==
  /\ u \in Directory /\ Exists(u)
  /\ Begin(r, "sync", u, granted)
  /\ disturbed' = disturbed \cup {r}
  /\ UNCHANGED <<accounts, credentials, capped>>

\* UpsertUser refreshes the row of the name, or inserts one; of two who insert the
\* second refreshes.
SyncWrite(r) ==
  /\ pc[r] = "sync"
  /\ Change({r}, [role EXCEPT ![who[r]] = as[r]], disabled)
  /\ gone' = gone \ {r}
  /\ Goto(r, "reread")
  /\ UNCHANGED <<credentials, locals, capped, command>>

\* and returns it as it is now.
SyncReread(r) ==
  /\ pc[r] = "reread"
  /\ r \notin gone
  /\ as' = [as EXCEPT ![r] = role[who[r]]]
  /\ Goto(r, "issue")
  /\ UNCHANGED <<accounts, credentials, who, what, ghosts>>

\* If it cannot, because the row was deleted or the statement fails, and there is a row
\* of the name, UpsertUser writes once more, with the role of before (the model may
\* do so more than once).
SyncRetry(r) ==
  /\ pc[r] = "reread"
  /\ Exists(who[r])
  /\ Goto(r, "sync")
  /\ disturbed' = disturbed \cup {r}
  /\ UNCHANGED <<accounts, credentials, locals, gone, barred, weak, capped, command>>

\* Mutant: sessions of deleted users.
CreateSessionNoFK(r, s) ==
  /\ pc[r] = "issue"
  /\ owner[s] = NoUser
  /\ owner' = [owner EXCEPT ![s] = who[r]]
  /\ Return(r)
  /\ UNCHANGED <<accounts, token, revoked>>

\* finishLogin; the row's id must still exist.
CreateSession(r, s) ==
  /\ pc[r] = "issue"
  /\ owner[s] = NoUser
  /\ r \notin gone
  /\ owner' = [owner EXCEPT ![s] = who[r]]
  /\ Return(r)
  /\ UNCHANGED <<accounts, token, revoked>>

\* A sign-in of gocactl gets a token of the user's role; somebody signed in
\* chooses, "only admins can create admin tokens".
IssueAPIToken(r, t, ro) ==
  /\ \/ pc[r] = "issue" /\ ro = as[r]
     \/ pc[r] = "granted" /\ (ro = "admin" => as[r] = "admin")
  /\ token[t] = NoToken /\ t \notin revoked
  /\ r \notin gone
  /\ token' = [token EXCEPT ![t] = [owner |-> who[r], role |-> ro]]
  /\ Return(r)
  /\ UNCHANGED <<accounts, owner, revoked>>

---------------------------------------------------------------------------
(* Access *)

\* UserFromSession: one statement, and the check of the disabled flag.
UserFromSession(r, s) ==
  /\ owner[s] # NoUser /\ owner[s] \notin disabled
  /\ Begin(r, "granted", owner[s], role[owner[s]])
  /\ UNCHANGED <<accounts, credentials, disturbed, capped>>

\* LookupAPIToken reads the token
LookupAPIToken(r, t) ==
  /\ token[t] # NoToken /\ t \notin revoked
  /\ Begin(r, "owner", token[t].owner, token[t].role)
  /\ capped' = IF token[t].role = "admin" THEN capped ELSE capped \cup {r}
  /\ UNCHANGED <<accounts, credentials, disturbed>>

\* Mutant: the token's role is ignored.
UserFromAPITokenUncapped(r) ==
  /\ pc[r] = "owner"
  /\ r \notin gone /\ who[r] \notin disabled
  /\ as' = [as EXCEPT ![r] = role[who[r]]]
  /\ Goto(r, "granted")
  /\ UNCHANGED <<accounts, credentials, who, what, ghosts>>

\* and then its owner, whose role the token's caps.
UserFromAPIToken(r) ==
  /\ pc[r] = "owner"
  /\ r \notin gone /\ who[r] \notin disabled
  /\ as' = [as EXCEPT ![r] = IF @ = "admin" THEN role[who[r]] ELSE @]
  /\ Goto(r, "granted")
  /\ UNCHANGED <<accounts, credentials, who, what, ghosts>>

\* Logout, or the session's expiry.
DestroySession(s) ==
  /\ owner[s] # NoUser
  /\ owner' = [owner EXCEPT ![s] = NoUser]
  /\ UNCHANGED <<accounts, token, revoked, pc, locals, ghosts>>

\* Revocation of a token, or its expiry.
RevokeAPIToken(t) ==
  /\ token[t] # NoToken /\ t \notin revoked
  /\ revoked' = revoked \cup {t}
  /\ UNCHANGED <<accounts, owner, token, pc, locals, ghosts>>

---------------------------------------------------------------------------
(* Administration *)

\* The request is one of an administrator, or a command.
MayAdminister(r) ==
  \/ pc[r] = "granted" /\ as[r] = "admin"
  \/ pc[r] = "idle" /\ r \in CommandLine

\* The portal and the API look whether an account that they have read as an
\* administrator's is the last one before they take something away.
Checked(deed, ro) == deed \in {"demote", "disable", "delete"} /\ ro = "admin"

\* The account u is read.
ReadTarget(r, u, deed) ==
  /\ MayAdminister(r)
  /\ Exists(u)
  /\ Administering(r, IF pc[r] = "granted" /\ Checked(deed, role[u]) THEN "count" ELSE "write",
                   u, role[u], deed)
  /\ UNCHANGED <<accounts, credentials>>

\* Mutant: administrators who are disabled count too.
isLastAdminAny(r) ==
  /\ pc[r] = "count"
  /\ IF Cardinality({u \in Users : role[u] = "admin"}) <= 1 THEN Return(r)
     ELSE Goto(r, "write") /\ UNCHANGED <<locals, ghosts>>
  /\ UNCHANGED <<accounts, credentials>>

\* isLastAdmin counts.
isLastAdmin(r) ==
  /\ pc[r] = "count"
  /\ IF Cardinality(Admins) <= 1 THEN Return(r)
     ELSE Goto(r, "write") /\ UNCHANGED <<locals, ghosts>>
  /\ UNCHANGED <<accounts, credentials>>

\* SetUserRole or SetUserDisabled, by the id that was read.
SetUser(r) ==
  LET u == who[r]
      newRole == CASE what[r] = "promote" -> "admin" [] what[r] = "demote" -> "user"
                   [] OTHER -> role[u]
      newDisabled == CASE what[r] = "disable" -> disabled \cup {u}
                       [] what[r] = "enable" -> disabled \ {u}
                       [] OTHER -> disabled
  IN
  /\ pc[r] = "write" /\ what[r] # "delete"
  /\ IF r \in gone THEN Change({r}, role, disabled)
     ELSE Change({r}, [role EXCEPT ![u] = newRole], newDisabled)
  /\ IF what[r] = "disable"
     THEN Goto(r, "sessions") /\ UNCHANGED <<locals, gone, command>>
     ELSE Finish(r, {})
  /\ UNCHANGED <<credentials, capped>>

\* A patch through the API goes on from the role to the disabled flag, with the role
\* that the account had when it was read.
SetUserThen(r, deed) ==
  LET newRole == IF what[r] = "promote" THEN "admin" ELSE "user"
      next == IF Checked(deed, as[r]) THEN "count" ELSE "write"
      own == IF next = "write" THEN {} ELSE {r}
  IN
  /\ pc[r] = "write" /\ r \notin command
  /\ what[r] \in {"promote", "demote"} /\ deed \in {"enable", "disable"}
  /\ Change(own, IF r \in gone THEN role ELSE [role EXCEPT ![who[r]] = newRole], disabled)
  /\ Goto(r, next)
  /\ what' = [what EXCEPT ![r] = deed]
  /\ UNCHANGED <<credentials, who, as, gone, capped, command>>

\* DeleteUserSessions, by the id; an error is ignored.
DeleteUserSessions(r) ==
  /\ pc[r] = "sessions"
  /\ IF r \in gone THEN UNCHANGED owner
     ELSE owner' = [s \in Sessions |-> IF owner[s] = who[r] THEN NoUser ELSE owner[s]]
  /\ Return(r)
  /\ UNCHANGED <<accounts, token, revoked>>

\* DeleteUser; sessions and tokens go with the row.
DeleteUser(r) ==
  LET u == who[r]
      mine == {t \in Tokens : token[t] # NoToken /\ token[t].owner = u}
  IN
  /\ pc[r] = "write" /\ what[r] = "delete"
  /\ r \notin gone
  /\ Change({r}, [role EXCEPT ![u] = "none"], disabled \ {u})
  /\ owner' = [s \in Sessions |-> IF owner[s] = u THEN NoUser ELSE owner[s]]
  /\ token' = [t \in Tokens |-> IF t \in mine THEN NoToken ELSE token[t]]
  /\ revoked' = revoked \cup mine
  /\ Finish(r, {q \in Requests : who[q] = u})
  /\ UNCHANGED capped

\* CreateLocalUser finds the name free
CreateLocalUser(r, u, ro) ==
  /\ MayAdminister(r)
  /\ u \in Local /\ ~Exists(u)
  /\ Administering(r, "create", u, ro, "none")
  /\ UNCHANGED <<accounts, credentials>>

\* and writes the account with UpsertUser, which is not an error if it is taken.
CreateWrite(r) ==
  /\ pc[r] = "create"
  /\ Change({r}, [role EXCEPT ![who[r]] = as[r]], disabled)
  /\ Finish(r, {})
  /\ UNCHANGED <<credentials, capped>>

\* EnsureLocalAdmin, at the start of a replica.
EnsureLocalAdmin ==
  /\ role[BreakGlass] # "admin"
  /\ Change({}, [role EXCEPT ![BreakGlass] = "admin"], disabled)
  /\ UNCHANGED <<credentials, pc, locals, gone, capped, command>>

\* The handler is done, a statement of it fails or finds no row, or its process dies.
Abandon(r) == pc[r] # "idle" /\ Return(r) /\ UNCHANGED <<accounts, credentials>>

SignIn(r) ==
  \/ \E u \in Users : Authenticate(r, u)
  \/ \E u \in Users, ro \in Roles : SyncRead(r, u, ro) \/ SyncReadFails(r, u, ro)
  \/ SyncWrite(r) \/ SyncReread(r) \/ SyncRetry(r)
  \/ \E s \in Sessions : CreateSession(r, s)
  \/ \E t \in Tokens, ro \in Roles : IssueAPIToken(r, t, ro)

Access(r) ==
  \/ \E s \in Sessions : UserFromSession(r, s)
  \/ \E t \in Tokens : LookupAPIToken(r, t)
  \/ UserFromAPIToken(r)

Administer(r) ==
  \/ \E u \in Users, deed \in Deeds : ReadTarget(r, u, deed)
  \/ isLastAdmin(r) \/ SetUser(r) \/ DeleteUserSessions(r) \/ DeleteUser(r)
  \/ \E deed \in Deeds : SetUserThen(r, deed)
  \/ \E u \in Users, ro \in Roles : CreateLocalUser(r, u, ro)
  \/ CreateWrite(r)

Next ==
  \/ \E r \in Requests : SignIn(r) \/ Access(r) \/ Administer(r) \/ Abandon(r)
  \/ \E s \in Sessions : DestroySession(s)
  \/ \E t \in Tokens : RevokeAPIToken(t)
  \/ EnsureLocalAdmin

Spec == Init /\ [][Next]_vars

---------------------------------------------------------------------------
(* Properties *)

\* UserFromSession and UserFromAPIToken refuse a disabled user; docs/index.md: "the
\* effective role is the lower of the two".  However sign-ins, revocations,
\* demotions and deletions interleave with it, a request that is let in acts for
\* a user who had access at some moment since it began, and as an administrator
\* only if the user was one at some moment and the token is an administrator's.
OnlyEntitledAccess ==
  \A r \in Requests :
    /\ pc[r] = "granted" => r \notin barred
    /\ (pc[r] \in {"issue", "granted"} /\ as[r] = "admin") => r \notin weak \cup capped

\* The step is one of request r.
Goes(r) == pc'[r] # pc[r] \/ what'[r] # what[r]

\* docs/index.md: "The portal refuses to remove or demote the last enabled admin."
\* The step that takes the last enabled administrator away is one of the command
\* line, or of a request since whose last read an account was changed, by another
\* one or by its own patch (or that could not read it, or read it back).
LastAdminStays ==
  [][Admins # {} /\ Admins' = {} =>
       \E r \in Requests : /\ pc[r] \in {"write", "sync", "create"} /\ Goes(r)
                           /\ r \in command \cup disturbed]_vars

\* The same as the document says it: no deed of the portal or the API takes the last
\* one away.
PortalKeepsAnAdmin ==
  [][\A r \in Requests \ command :
       (pc[r] = "write" /\ Goes(r) /\ Admins # {}) => Admins' # {}]_vars
=============================================================================
