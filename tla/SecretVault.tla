---------------------------- MODULE SecretVault ----------------------------
(***************************************************************************)
(* The secrets of one name: internal/vault/service.go over                 *)
(* internal/store/secrets.go, and the fetch of a workload                  *)
(* (internal/web/api_vault_fetch.go).                                      *)
(*                                                                         *)
(* A name is unique among the rows of the secrets table; a deleted secret  *)
(* frees it, and ids are never used again.  Requests address a secret by   *)
(* its name and resolve it to a row, a fetch three times.  Put is the only *)
(* transaction: it holds the lock of the secret's row from the reservation *)
(* of a version to the commit, and what it wrote is seen after that.       *)
(***************************************************************************)
EXTENDS Naturals, FiniteSets, FiniteSetsExt

CONSTANTS
  Secrets,       \* ids of secrets of the name, in the course of time
  Certificate,   \* those of type certificate; the others are kv or file
  Values,        \* what can be put
  NoRow, Scrubbed,
  Workloads,     \* identities that fetch: namespace, service account, trust domain
  NoSecret,
  Requests,
  NoRequest,
  MaxVersion,    \* bound: versions of a secret
  MaxRenewals    \* bound: renewals of the linked certificate

ASSUME VaultAssumption ==
  /\ Certificate \subseteq Secrets
  /\ NoSecret \notin Secrets /\ NoRequest \notin Requests
  /\ NoRow \notin Values /\ Scrubbed \notin Values /\ NoRow # Scrubbed
  /\ MaxVersion \in Nat /\ MaxRenewals \in Nat
  /\ IsFiniteSet(Requests)

VARIABLES
  alive,       \* the rows of secrets; at most one, the name being unique
  used,        \* the ids given out
  disabled,    \* secrets.disabled
  current,     \* secrets.current_version
  payload,     \* secret_versions: the value sealed for each version, Scrubbed if
               \* destroyed, NoRow without a row
  bound,       \* secret_bindings: the workloads some usable binding matches
  renewals,    \* how often the certificate of a certificate secret was renewed
  lock,        \* the Put whose transaction holds the row
  pc,          \* the next statement of each request
  op,          \* what it is: put, latest, version or fetch
  sec,         \* the row it resolved the name to
  arg,         \* the value to put, the version to get, the workload that fetches
  got,         \* the version reserved, or served
  began,       \* ghost: the secret of the name when it began
  newest,      \* ghost: and its newest version, or renewal, then
  barred,      \* ghost: the secrets disabled ever since it began
  unbound      \* ghost: the secrets its workload was not bound to ever since

tables == <<alive, used, disabled, current, payload, bound, renewals>>
locals == <<op, sec, arg, got>>
ghosts == <<began, newest, barred, unbound>>
vars == <<tables, lock, pc, locals, ghosts>>

Versions == 1 .. MaxVersion
Args == Values \cup Versions \cup Workloads \cup {0}

TypeOK ==
  /\ alive \in SUBSET Secrets /\ used \in SUBSET Secrets /\ alive \subseteq used
  /\ disabled \in SUBSET Secrets
  /\ current \in [Secrets -> 0 .. MaxVersion]
  /\ payload \in [Secrets -> [Versions -> Values \cup {NoRow, Scrubbed}]]
  /\ bound \in [Secrets -> SUBSET Workloads]
  /\ renewals \in 0 .. MaxRenewals
  /\ lock \in [Secrets -> Requests \cup {NoRequest}]
  /\ pc \in [Requests -> {"idle", "reserve", "seal", "bindings", "list", "materialize",
                          "read", "served"}]
  /\ op \in [Requests -> {"none", "put", "latest", "version", "fetch"}]
  /\ sec \in [Requests -> Secrets \cup {NoSecret}]
  /\ \A r \in Requests : arg[r] \in Args
  /\ got \in [Requests -> 0 .. MaxVersion]
  /\ began \in [Requests -> Secrets \cup {NoSecret}]
  /\ newest \in [Requests -> Nat]
  /\ barred \in [Requests -> SUBSET Secrets]
  /\ unbound \in [Requests -> SUBSET Secrets]
  /\ Cardinality(alive) <= 1
  /\ \A s \in Secrets, r \in Requests : lock[s] = r <=> pc[r] = "seal" /\ sec[r] = s

Init ==
  /\ alive = {} /\ used = {} /\ disabled = {}
  /\ current = [s \in Secrets |-> 0]
  /\ payload = [s \in Secrets |-> [v \in Versions |-> NoRow]]
  /\ bound = [s \in Secrets |-> {}]
  /\ renewals = 0
  /\ lock = [s \in Secrets |-> NoRequest]
  /\ pc = [r \in Requests |-> "idle"]
  /\ op = [r \in Requests |-> "none"]
  /\ sec = [r \in Requests |-> NoSecret]
  /\ arg = [r \in Requests |-> 0]
  /\ got = [r \in Requests |-> 0]
  /\ began = [r \in Requests |-> NoSecret]
  /\ newest = [r \in Requests |-> 0]
  /\ barred = [r \in Requests |-> {}]
  /\ unbound = [r \in Requests |-> {}]

---------------------------------------------------------------------------
(* The operators.  They resolve the name and then write by the row's id;   *)
(* ids are not reused, so a row that went away meanwhile makes the write   *)
(* find nothing, and one action stands for both statements.                *)

Create(s) ==
  /\ alive = {} /\ s \notin used
  /\ alive' = {s} /\ used' = used \cup {s}
  /\ UNCHANGED <<disabled, current, payload, bound, renewals, lock, pc, locals, ghosts>>

\* The versions and bindings go with the row; the statement waits for its lock.
DeleteSecret(s) ==
  /\ s \in alive /\ lock[s] = NoRequest
  /\ alive' = alive \ {s}
  /\ disabled' = disabled \ {s}
  /\ current' = [current EXCEPT ![s] = 0]
  /\ payload' = [payload EXCEPT ![s] = [v \in Versions |-> NoRow]]
  /\ bound' = [bound EXCEPT ![s] = {}]
  /\ UNCHANGED <<used, renewals, lock, pc, locals, ghosts>>

SetSecretDisabled(s) ==
  /\ s \in alive \ disabled /\ lock[s] = NoRequest
  /\ disabled' = disabled \cup {s}
  /\ UNCHANGED <<alive, used, current, payload, bound, renewals, lock, pc, locals, ghosts>>

SetSecretEnabled(s) ==
  /\ s \in alive \cap disabled /\ lock[s] = NoRequest
  /\ disabled' = disabled \ {s}
  /\ barred' = [r \in Requests |-> barred[r] \ {s}]
  /\ UNCHANGED <<alive, used, current, payload, bound, renewals, lock, pc, locals, began, newest, unbound>>

Bind(s, w) ==
  /\ s \in alive /\ w \notin bound[s]
  /\ bound' = [bound EXCEPT ![s] = @ \cup {w}]
  /\ unbound' = [r \in Requests |-> IF arg[r] = w THEN unbound[r] \ {s} ELSE unbound[r]]
  /\ UNCHANGED <<alive, used, disabled, current, payload, renewals, lock, pc, locals, began, newest, barred>>

\* The last binding that matches is deleted, or expires.
Unbind(s, w) ==
  /\ w \in bound[s]
  /\ bound' = [bound EXCEPT ![s] = @ \ {w}]
  /\ UNCHANGED <<alive, used, disabled, current, payload, renewals, lock, pc, locals, ghosts>>

DestroySecretVersion(s, v) ==
  /\ payload[s][v] \in Values
  /\ payload' = [payload EXCEPT ![s][v] = Scrubbed]
  /\ UNCHANGED <<alive, used, disabled, current, bound, renewals, lock, pc, locals, ghosts>>

\* Renew stores another certificate, linked to the one it replaces; no secret
\* refers to it.
Renew ==
  /\ renewals < MaxRenewals
  /\ renewals' = renewals + 1
  /\ UNCHANGED <<alive, used, disabled, current, payload, bound, lock, pc, locals, ghosts>>

---------------------------------------------------------------------------
(* Requests *)

Goto(r, label) == pc' = [pc EXCEPT ![r] = label]

\* The versions that are neither destroyed nor missing.
Live(s) == {v \in Versions : payload[s][v] \in Values}

\* The request returns, and what it held is given back.
Return(r) ==
  /\ Goto(r, "idle")
  /\ op' = [op EXCEPT ![r] = "none"]
  /\ sec' = [sec EXCEPT ![r] = NoSecret]
  /\ arg' = [arg EXCEPT ![r] = 0]
  /\ got' = [got EXCEPT ![r] = 0]
  /\ began' = [began EXCEPT ![r] = NoSecret]
  /\ newest' = [newest EXCEPT ![r] = 0]
  /\ barred' = [barred EXCEPT ![r] = {}]
  /\ unbound' = [unbound EXCEPT ![r] = {}]
  /\ lock' = [s \in Secrets |-> IF lock[s] = r THEN NoRequest ELSE lock[s]]

\* A request of a kind, with an argument, finds the row s for the name.
Resolve(r, kind, x, s, label) ==
  /\ pc[r] = "idle"
  /\ s \in alive
  /\ Goto(r, label)
  /\ op' = [op EXCEPT ![r] = kind]
  /\ sec' = [sec EXCEPT ![r] = s]
  /\ arg' = [arg EXCEPT ![r] = x]
  /\ began' = [began EXCEPT ![r] = s]
  /\ newest' = [newest EXCEPT ![r] =
                  IF s \in Certificate THEN renewals ELSE Max(Live(s) \cup {0})]
  /\ barred' = [barred EXCEPT ![r] = disabled]
  /\ unbound' = [unbound EXCEPT ![r] = {t \in Secrets : x \notin bound[t]}]
  /\ UNCHANGED <<tables, lock, got>>

\* There is no secret of the name.
NotFound(r) ==
  /\ pc[r] = "idle"
  /\ alive = {}
  /\ UNCHANGED vars

\* Put: a certificate secret, or a disabled one, is refused.
BeginPut(r, s, x) ==
  /\ s \notin Certificate \cup disabled
  /\ current[s] + Cardinality({q \in Requests : op[q] = "put" /\ sec[q] = s}) < MaxVersion
  /\ Resolve(r, "put", x, s, "reserve")

\* Mutant: the number is given out before the transaction.
ReserveAtOnce(r) ==
  LET s == sec[r] IN
  /\ pc[r] = "reserve"
  /\ lock[s] = NoRequest
  /\ IF s \in alive
     THEN /\ Goto(r, "seal")
          /\ lock' = [lock EXCEPT ![s] = r]
          /\ got' = [got EXCEPT ![r] = current[s] + 1]
          /\ current' = [current EXCEPT ![s] = @ + 1]
          /\ UNCHANGED <<op, sec, arg, ghosts>>
     ELSE Return(r) /\ UNCHANGED current
  /\ UNCHANGED <<alive, used, disabled, payload, bound, renewals>>

\* CreateSecretVersion's UPDATE ... RETURNING waits for the row, locks it and
\* yields the next number, unless the row is gone.
Reserve(r) ==
  LET s == sec[r] IN
  /\ pc[r] = "reserve"
  /\ lock[s] = NoRequest
  /\ IF s \in alive
     THEN /\ Goto(r, "seal")
          /\ lock' = [lock EXCEPT ![s] = r]
          /\ got' = [got EXCEPT ![r] = current[s] + 1]
          /\ UNCHANGED <<op, sec, arg, ghosts>>
     ELSE Return(r)
  /\ UNCHANGED tables

\* The payload is sealed for the row and the number, inserted and committed.
Commit(r) ==
  LET s == sec[r] IN
  /\ pc[r] = "seal"
  /\ payload[s][got[r]] = NoRow
  /\ payload' = [payload EXCEPT ![s][got[r]] = arg[r]]
  /\ current' = [current EXCEPT ![s] = got[r]]
  /\ Return(r)
  /\ UNCHANGED <<alive, used, disabled, bound, renewals>>

\* Mutant: the function returns and the transaction stays open.
SealFailsNoRollback(r) ==
  /\ pc[r] = "seal"
  /\ Goto(r, "idle")
  /\ op' = [op EXCEPT ![r] = "none"]
  /\ UNCHANGED <<tables, lock, sec, arg, got, ghosts>>

\* Sealing, the INSERT or the COMMIT fails; the transaction is rolled back.
SealFails(r) ==
  /\ pc[r] = "seal"
  /\ Return(r)
  /\ UNCHANGED tables

\* GetLatest and GetVersion: resolveOpenable.
BeginGet(r, s, x) ==
  /\ s \notin Certificate \cup disabled
  /\ Resolve(r, IF x = 0 THEN "latest" ELSE "version", x, s, "read")

\* fetchOneVaultSecret: Get finds a row.
BeginFetch(r, s, w) == Resolve(r, "fetch", w, s, "bindings")

\* Bindings resolves the name again,
FetchResolve(r) ==
  /\ pc[r] = "bindings"
  /\ \/ \E s \in alive :
          /\ Goto(r, "list")
          /\ sec' = [sec EXCEPT ![r] = s]
          /\ UNCHANGED <<lock, op, arg, got, ghosts>>
     \/ alive = {} /\ Return(r)
  /\ UNCHANGED tables

\* lists the bindings of that row, and MatchesBinding decides.
FetchAuthorize(r) ==
  /\ pc[r] = "list"
  /\ IF arg[r] \in bound[sec[r]]
     THEN Goto(r, "materialize") /\ UNCHANGED <<lock, locals, ghosts>>
     ELSE Return(r)
  /\ UNCHANGED tables

\* Mutant: it does not look whether the secret is disabled.
MaterializeDisabled(r) ==
  /\ pc[r] = "materialize"
  /\ \/ \E s \in alive :
          /\ Goto(r, IF s \in Certificate THEN "served" ELSE "read")
          /\ sec' = [sec EXCEPT ![r] = s]
          /\ UNCHANGED <<lock, op, arg, got, ghosts>>
     \/ alive = {} /\ Return(r)
  /\ UNCHANGED tables

\* Materialize resolves the name once more, refuses a disabled secret, and reads
\* the certificate a certificate secret is linked to.
Materialize(r) ==
  /\ pc[r] = "materialize"
  /\ \/ \E s \in alive \ disabled :
          /\ Goto(r, IF s \in Certificate THEN "served" ELSE "read")
          /\ sec' = [sec EXCEPT ![r] = s]
          /\ UNCHANGED <<lock, op, arg, got, ghosts>>
     \/ alive \subseteq disabled /\ Return(r)
  /\ UNCHANGED tables

\* GetLatestSecretVersion's ORDER BY version DESC LIMIT 1.
Latest(S) == Max(S)

\* GetSecretVersion or GetLatestSecretVersion, and open.
ReadVersion(r) ==
  LET s == sec[r]
      found == IF op[r] = "version" THEN Live(s) \cap {arg[r]} ELSE Live(s)
  IN
  /\ pc[r] = "read"
  /\ IF found # {}
     THEN /\ Goto(r, "served")
          /\ got' = [got EXCEPT ![r] = Latest(found)]
          /\ UNCHANGED <<lock, op, sec, arg, ghosts>>
     ELSE Return(r)
  /\ UNCHANGED tables

\* The answer has been sent.
Answered(r) == pc[r] = "served" /\ Return(r) /\ UNCHANGED tables

\* A statement fails, the process dies or the caller is gone; the database rolls
\* an open transaction back.
Abandon(r) ==
  /\ pc[r] \notin {"idle", "served"}
  /\ Return(r)
  /\ UNCHANGED tables

Step(r) ==
  \/ Reserve(r) \/ Commit(r) \/ SealFails(r)
  \/ FetchResolve(r) \/ FetchAuthorize(r) \/ Materialize(r) \/ ReadVersion(r)
  \/ Answered(r)

Operate(s) ==
  \/ Create(s) \/ DeleteSecret(s) \/ SetSecretDisabled(s) \/ SetSecretEnabled(s)
  \/ \E w \in Workloads : Bind(s, w) \/ Unbind(s, w)
  \/ \E v \in Versions : DestroySecretVersion(s, v)

Next ==
  \/ \E s \in Secrets : Operate(s)
  \/ Renew
  \/ \E r \in Requests :
       \/ NotFound(r) \/ Step(r) \/ Abandon(r)
       \/ \E s \in Secrets :
            \/ \E x \in Values : BeginPut(r, s, x)
            \/ \E x \in Versions \cup {0} : BeginGet(r, s, x)
            \/ \E w \in Workloads : BeginFetch(r, s, w)

Spec == Init /\ [][Next]_vars

\* A request that is not abandoned runs on, and the database gives a row's lock to
\* those who wait for it in turn.
FairSpec ==
  Spec /\ \A r \in Requests : SF_vars(Reserve(r)) /\ WF_vars(Commit(r) \/ SealFails(r))

---------------------------------------------------------------------------
(* Properties *)

\* CreateSecretVersion: "all inside one transaction", so that a concurrent writer
\* "waits and then gets the next number".  The versions of a secret are the log of
\* its successful writes, without gaps; none is overwritten, and a destroyed one
\* does not come back.
Log == INSTANCE VersionedSecrets WITH
  alive <- alive,
  used <- used,
  log <- [s \in Secrets |-> [v \in 1 .. current[s] |-> payload[s][v]]]
WritesAreALog == Log!Spec

\* SetDisabled: "A disabled secret is refused by Get, GetLatest and ... the CSI
\* provider"; Unbind "revokes one binding".  A request that began when a secret was
\* disabled serves nothing of it unless it was enabled meanwhile, and a workload
\* gets a secret only if it was bound to it at some moment of the fetch (or the
\* name went to a new secret during the fetch).
NothingServedWhileBarred ==
  \A r \in Requests : pc[r] = "served" =>
    /\ sec[r] \notin barred[r]
    /\ op[r] = "fetch" /\ sec[r] = began[r] => sec[r] \notin unbound[r]

\* GetLatest: "opens the newest, non-destroyed version".  What is served is at least
\* as new as the newest version there was when the request began, unless that one
\* has been destroyed.
ServedIsFresh ==
  \A r \in Requests :
    /\ pc[r] = "served" /\ op[r] \in {"latest", "fetch"}
    /\ sec[r] = began[r] /\ sec[r] \notin Certificate
    /\ newest[r] \in Live(sec[r])
    => got[r] >= newest[r]

\* Get and the fetch of a workload read a name, its bindings and its versions one
\* after the other while operators change each of them: what they hand out was
\* allowed and current at some moment of the request.
ServedRightly == NothingServedWhileBarred /\ ServedIsFresh

\* docs/secrets.md: after a renewal "every reader of the secret (CLI, web, API, CSI
\* mount) picks up the new certificate the next time it's read, with no separate
\* action against the secret itself".  A certificate secret serves the certificate
\* that was the newest when the request began.
RenewedIsServed ==
  \A r \in Requests :
    pc[r] = "served" /\ sec[r] \in Certificate /\ sec[r] = began[r] => got[r] >= newest[r]

\* A Put comes to an end: nobody waits for ever for a row whose holder failed.
PutReturns == \A r \in Requests : op[r] = "put" ~> op[r] = "none"
=============================================================================
