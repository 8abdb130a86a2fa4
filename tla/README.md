# TLA+ specifications of goca

goca is a certificate authority with a web portal, a REST API, an ACME server,
a secret vault and webhooks. Several replicas, and the `goca` command line, may
work on one database (SQLite or PostgreSQL). There are almost no multi-statement
transactions: a handler is a sequence of SQL statements, each atomic, and between
two of them any other handler of any process may run, the process may crash, or
the request's context may be cancelled. That is where the hard questions are,
and what these specifications are about.

Conventions: a request (or a dispatcher) has a program counter `pc` (`phase`)
naming its next statement; one action is one statement together with the checks
of its result and the early returns up to the next statement. Variables named
after columns are tables. A variable marked *ghost* is history used by
properties only. An operator whose comment begins with *Mutant* is a deliberately
wrong version of the definition after it; it is part of no specification, and
shows that the property named with it in `PROJECT.json` can fail.

## 1. Inventory

| Component | State | Operations | Hard behaviour | What makes it correct |
|---|---|---|---|---|
| ACME registration, EAB credentials (`internal/acme/service.go`, `eab_admin.go`, `internal/store/acme.go`) | `acme_eab_creds` (cap, count, disabled, expiry), `acme_accounts` | NewAccount, CreateEAB, SetEABDisabled, DeleteEAB | a reservation and an insert in separate statements; lost replies; delete against insert | the cap holds, slots are conserved, a credential outlives its accounts |
| ACME orders (`service.go`, `store/acme.go`) | `acme_orders`, authorizations, challenges | NewOrder, Finalize, DeactivateAccount | concurrent Finalize, late errors, crash between claim and link | one certificate per order, for its owner; completion is final |
| ACME protocol, nonces (`jws.go`, `nonce.go`, `web/acme_protocol.go`) | `acme_nonces` | NewNonce, consume, purge | replay | a nonce is used once |
| Certificate life cycle (`internal/ca/service.go`, `lifecycle.go`) | `certificates` | Issue, Revoke, Hold, Release, Renew, BulkRevoke, delete | check in one statement, write in another | only a hold is lifted; reasons are kept; a renewal leaves a replacement |
| Retirement of authorities (`lifecycle.go`) | `cas.status`, `ca_revocations` | RevokeCA (recursive), SetCAStatus | issuance in flight, failure halfway down the tree | the cascade is complete, or says what is missing |
| CRL publication (`ca/service.go`, `store.go`) | `cas.crl_number`, `ca_revocations` | GenerateCRL, RecordCARevocation | read of the entries and of the number in separate statements | a number names one list, a later list has the higher number, and what was revoked for good is on it |
| Authority management, import (`ca/service.go`, `import.go`) | `cas` | CreateCA, CompleteCA, import, SetDefaultCA, DeleteCA | pending authorities, the default | parents form a forest; at most one default |
| Webhooks (`internal/webhooks`, `store/webhook.go`) | `webhooks`, `webhook_deliveries` | Emit, claim, deliver, retry, disable, delete | several dispatchers, crashes, stale claims, backoff | nothing is sent by two dispatchers at once, every delivery is settled |
| Secret vault (`internal/vault`, `store/secrets.go`, `web/api_vault_fetch.go`) | `secrets`, versions, bindings | Create, Put, Get, GetLatest, DestroyVersion, Materialize, Bind, fetch | a transaction that seals while it holds a row; a name resolved three times in one fetch | writes are a log; what is served was allowed and current |
| Accounts and access (`internal/auth`, `web/session.go`, `pages.go`, `api.go`, `cli/misc_cmd.go`) | `users`, `sessions`, `api_tokens` | sign-in, directory sync, session, token, role, disable, delete, create | the account changes between its read and the write that follows from it | nobody is let in without being entitled; an administrator remains |
| Login throttle (`web/ratelimit.go`) | `auth_failures` | retryAfter, Fail, Reset, Purge | check, then count | bounded guesses per window; a refusal ends |
| Portal script (`web/static/app.js`) | the page: sections, fields, ticks, labels | handlers of change, click and submit; clipboard answers; timers | events before the script ran, restored form state, overlapping copies | what is hidden is not sent; the bulk bar tells what it sends; labels come back |
| Kubernetes authentication, CSI (`internal/k8sauth`, `internal/csi`, `web/api_csi_auth.go`) | registry in memory, `k8s_auth_methods` | Set, Remove, Verify | a registry per replica, stale against the table | a removed method verifies nothing |
| Directories (`ldapauth`, `oidcauth`), ESO provider, rendering and API decoding (`web`), CLIs (`cli`, `rcli`, `gocaclient`), store and migrations, X.509 (`pki`), `pqcrypt`, configuration, metrics | little of their own | | mostly I/O, parsing and rendering | |

Components interact through the database, through direct calls (the ACME server
calls `ca.Service.Issue`; every operation of the CA service calls `recordAudit`,
whose event sink is the dispatcher's `Emit`), and through the clock (expiry,
backoff, stale claims).

## 2. Modules

| Module | Models | EXTENDS / uses |
|---|---|---|
| `AcmeAccounts` | NewAccount statement by statement, and the administration of EAB credentials | instantiates `AccountQuota` |
| `AccountQuota` | what registration promises: an atomic, capped, permanent registry | |
| `AcmeAccountsProofs` | proofs | `AcmeAccounts` |
| `AcmeOrders` | NewOrder and Finalize, disabling and deactivation, expiry, crashes | instantiates `OrderPromise` |
| `OrderPromise` | what the server promises of orders: placed, issued for and delivered once, each in one step | |
| `AcmeOrdersProofs` | proofs | `AcmeOrders` |
| `CertStatus` | the status of certificates under Issue, Revoke, Hold, Release, Renew, BulkRevoke, deletion | |
| `CaRetirement` | RevokeCA and its recursion, next to Issue and operators | |
| `CaRetirementProofs` | proofs | `CaRetirement` |
| `WebhookDelivery` | Emit, dispatchers, the clock, crashes | instantiates `DeliveryPromise` |
| `DeliveryPromise` | what the queue promises: each delivery is tried until it is settled, and every failure counts once | |
| `WebhookDeliveryProofs` | proofs | `WebhookDelivery` |
| `CrlPublication` | GenerateCRL on several replicas while certificates and subordinates are revoked | extends `CertStatus`: the composition of both |
| `CertificateProofs` | proofs about `CertStatus` and `CrlPublication` | `CrlPublication` |
| `SecretVault` | the secrets of a name: Put, Get, fetch, operators | instantiates `VersionedSecrets` |
| `VersionedSecrets` | what the vault promises of writes: an append-only log | |
| `SecretVaultProofs` | proofs | `SecretVault` |
| `UserAccess` | sign-ins, sessions, tokens and the administration of accounts | |
| `LoginThrottle` | the check and the count of failed logins, the clock | |
| `AccessProofs` | proofs about `UserAccess` and `LoginThrottle` | both |
| `PortalPage` | a page of the portal and its script | |
| `PortalPageProofs` | proofs | `PortalPage` |
| `MC*` | instances for TLC | |

### AcmeAccounts

`credState`, `disabled`, `expired`, `count` are rows of `acme_eab_creds`;
`account[k]` is the credential under which the key `k` is registered (the unique
thumbprint of `acme_accounts`). NewAccount is `Begin` (parsing, nonce, signature),
`Lookup` (by thumbprint), `Verify` (VerifyEAB and Usable), `Reserve`, `Insert`,
`Release`. DeleteEAB is two actions, since it lists the accounts and deletes in
separate statements; the foreign key is in the guard of the second. Every
statement may also fail; a reservation whose handler is gone is counted in the
ghost `leaked`. CreateAcmeAccount may also fail after its INSERT has committed (its
reply is lost, or the read-back fails); NewAccount then releases the slot of an
account that exists, and the ghost `lost` has its key. The cap itself fails by
these (see the disagreements below); SlotsAreSound is what is left of it: the
counter is right about all other accounts, and they stay within the cap.

### AcmeOrders

An order's status, owner, error, certificate (`link`) and the number of
certificates ever stored for it (`issued`). The data of a CSR is abstracted to
whether it parses (`garbled`) and matches the order's names. `stuck` is the ghost
set of orders whose claimant is gone: the code has no recovery for those, and the
client places a new order. An order may be `invalid` while its claimant still
issues, because a refused, slower request may write its error after the claim;
the claimant then completes it all the same. To `OrderPromise` an order is its
holder, the number of certificates issued for it, and whether it is delivered
(`valid`); claims, errors and refusals are steps that leave those alone.

### CertStatus

`status`, `code` and `from` are columns of `certificates`. An operator's permanent
reasons are one value; `superseded` is kept apart because Renew uses it. Renew is
`BeginRenew`, `Issue`, `RenewLink`, `RenewRevokeOld`; UnrevokeCertificate is
`ReleaseRead` and `ReleaseWrite`. BulkRevoke reads its selection in one or several
statements and then revokes one by one. `Releasers` limits which requests may be
a Release, so that the race of two of them can be studied on its own.

### CaRetirement

A RevokeCA carries a stack of authorities, the innermost first. `RetireFails`,
the second disjuncts of `RetireSweep` and `RetireChildren`, and the outcomes of
`RetireParent` are the error paths, enabled by `Faults`. `warned` records only
warnings of failures; the fixed advice RevokeCA gives for roots and for external
issuers is left out. The ghost `silent` marks a request in which something failed
and the result does not say so; CascadeComplete is about cascades in which nothing
failed, and looks at everything beneath the authority, however deep. Hold, Release and Revoke of one certificate are single
actions here, since `CertStatus` has their detail; held certificates are set
aside by the properties because the cascade passes over them. The reason of the
retirement is taken to be another one than certificateHold.

Authorities come into being during the run (`CreateCA`, which stands for CreateCA,
ImportCA and the completion of a pending subordinate; one that waits for its
certificate counts as not created). None of the three asks for the status of the
parent, so one can appear beneath an authority whose children a cascade has read
already, or that is retired; the ghost `slipped` has those, and CascadeComplete
sets them aside. The search for certificates returns the first `SearchLimit` of an
authority, oldest first, and EarlyAreRevoked is about what it can return.
DeleteCA and the adoption of existing authorities by an imported parent
(SetCAParent) are not modelled.

### WebhookDelivery

A row per event and webhook. Time is discrete: `Tick` advances `wait`
(next_attempt), `age` (claimed_at) and `elapsed` (a delivery in progress, bounded
by Timeout: the HTTP client gives up). A dispatcher claims a batch, takes one
delivery after the other, and records with the `attempts` its claim returned.
Database calls take no time. Crashes and failed statements are bounded by `MaxFaults`.

A batch may take longer than a claim lasts, as it may at the program's defaults
(100 deliveries of up to 10 s each against 2 minutes). The ghost `overdue` has the
deliveries whose claim got stale in the hands of a dispatcher; only those may be
claimed, posted and counted by two. To `DeliveryPromise`, `pending` and `failed`
are both `queued`, its `tries` are the row's `attempts`, `received` is the ghost
`accepted`, and a queued delivery that gets overdue leaves the promise (`RunOut`).
The shift of the backoff is taken to be exact: it overflows an int64 only after
many more attempts than the five there are by default.

### CrlPublication

A call of GenerateCRL is four steps: `ReadCertificates`, `ReadCARevocations`,
`NextCRLNumber` (one UPDATE ... RETURNING) and `Publish`. The handlers of
`CertStatus` run between them as they are, so a revocation, a hold, a release or a
renewal falls before, between or after the reads. The validity of a list, dates
and encoding are left out. The ghosts `since` and `due` record which lists were
out, and what was revoked for good, when the call began.

### SecretVault

All secrets that ever have one name: `alive` is the row there is, `used` the ids
given out. `Reserve` takes the row lock with the UPDATE of `current_version`,
`Commit` and `SealFails` end the transaction; what it wrote is seen after the commit.
A fetch resolves the name for the record, again for its bindings and again for
its value, and `FetchResolve`, `FetchAuthorize`, `Materialize` and `ReadVersion` are
those steps. A binding is abstracted to the workloads it matches, a value to a
model value; sealing and opening are inverse to each other because the number that
is sealed for is the number of the row, which `WritesAreALog` is about.

### UserAccess

`role` and `disabled` are columns of `users` (`"none"` without a row), `owner` and
`token` the rows of `sessions` and `api_tokens`, whose foreign keys cascade. A
request is of one user until it administers an account; `who` is first the one,
then the other. A portal handler is `ReadTarget`, `isLastAdmin`, `SetUser` (or
`DeleteUser`) and, after disabling, `DeleteUserSessions`; `SetUserThen` is the API's
patch going on from the role to the disabled flag with the role it read at first.
A `goca` command does the same without looking for the last administrator.
syncDirectoryUser is `SyncRead` (or `SyncReadFails`: any error of the read counts
as no row), `SyncWrite`, `SyncReread`, and `SyncRetry`: when the row is gone, or a
statement fails, and the name has a row again, UpsertUser writes once more. CreateLocalUser checks that the name is free
and then calls UpsertUser, which refreshes an account created meanwhile. The ghost
`gone` is about ids: a name that was deleted and created anew has another one.
Passwords are taken to be right, the names of local and directory accounts to be
different, and expiry is the same as logout or revocation.

### LoginThrottle

`rows[k][n]` counts the rows of `auth_failures` of a key that are at most `n` ticks
old, which is what the query for a window asks. A login is `CheckUser`,
`CheckIp`, the password, and then two statements that record a failure under both
keys, or forget those of both. A check that fails lets the login through, as the
code has it. Old rows count for nothing, so the janitor's purge is left out.

### PortalPage

The one module about the browser. A page has one control of each kind; its
sections, the values they want and the fields inside them are constants, and
`PageAssumption` is what the templates give. `Load` is the script running at the
end of the page; before that only the browser acts: the user may already choose,
tick and submit. `writing` and `timers` are clipboard writes and timers
under way. `sent` is the last submission, with what was shown and said at that time.

## 3. Runs

| Run | Bounds | States | Shows |
|---|---|---|---|
| `acme_accounts` | 2 keys, 2 credentials (caps 1 and 2), 2 requests, lost replies | 1.6 M | SlotsAreSound, CredentialsGovern; refinement of `AccountQuota` |
| `acme_orders` | 1 order, 2 accounts of one credential, 2 requests | 0.92 M | FinalizeIsSound, OnlyEntitledIssue; refinement of `OrderPromise`; a claim is resolved |
| `cert_status` | 2 certificates, 3 requests, one of them a Release | 0.48 M | permanence, reasons, replacements |
| `ca_retirement` | a root and its subordinate, created in the run, 2 certificates, search limit 1, 2 requests, faults | 1.65 M | what was active when its issuer was disabled, and the search returns, is revoked; overlapping cascades are complete |
| `webhook_delivery` | 2 events, 1 webhook, 2 dispatchers, batch 2, 2 attempts, 1 fault; Timeout 1, ClaimStale 2, Backoff 2, MaxDelay 1 | 0.38 M | exclusivity but for claims that got stale, SettledRightly; refinement of `DeliveryPromise`; every delivery is settled |
| `webhook_batch` | the same with Timeout 2, ClaimStale 3, no faults | | refutes NeverInTwoHands |
| `cert_two_releases` | 1 certificate, 3 requests, two of them Releases | | refutes PermanentStays |
| `crl_publication` | 1 certificate, 2 requests, 1 subordinate, 2 calls, 2 numbers | 1.0 M | NumbersTellLists, RevokedIsListed |
| `secret_vault` | a key-value secret and a certificate secret of one name, 1 value, 1 workload, 2 requests, 2 versions, 1 renewal | 0.45 M | ServedRightly; refinement of `VersionedSecrets`; every Put returns |
| `user_access` | a local and a directory user, 1 session, 1 token, 2 requests, each of the portal or a command | 2.7 M | OnlyEntitledAccess, LastAdminStays |
| `login_throttle` | 2 users, 1 address, 2 logins, limit 2, window 2, 1 fault | 0.59 M | GuessesAreBounded; a refusal ends |
| `portal_page` | the sections of the import form, a show-when field, 2 rows, 1 button, 2 overlapping copies | 29 k | HiddenIsNotSubmitted, BulkIsTold; labels come back |

Some properties are conjunctions of named parts that are told apart in the modules:
SlotsAreSound (SlotConservation, PaidCap), CredentialsGovern, FinalizeIsSound
(OneCertificatePerOrder, ExclusiveClaim, ProcessingHasClaimant,
ValidHasCertificate), OnlyEntitledIssue, SettledRightly, NumbersTellLists
(NumbersAreUnique, LaterIsNewer), ServedRightly, HiddenIsNotSubmitted, BulkIsTold.

Why the bounds are enough: every race in these protocols is between two holders
of one resource (a slot, an order, a row), so two requests on one resource reach
it, and a third plays the operator in `cert_status`. A second resource is there
where a handler touches two (a renewal's old and new certificate, a batch of
two deliveries, two certificates of which the search returns one). Batch * Timeout
is not below ClaimStale, so that claims get stale in hand.
A root and its subordinate are the smallest tree with a call inside a call; `CaRetirementDeep.cfg`
has a chain of three, for one request, and also finds that the recursion ends
(RetirementEnds), which follows from the tree being finite.
Two attempts distinguish one that is retried from the last, and Backoff above
MaxDelay makes the cap bite. Two lists are what NumbersTellLists compares, two
versions an old and a new one, two secrets of a name the one that was deleted and
the one after it. Of users there is the last administrator and one other. A limit
of two tells the first failure from the last that is accepted; since the code
treats user names and addresses alike, wrong passwords are counted for the address,
the key that two logins of different users share. For
the safety properties the proofs of section 4 remove the bounds.
Symmetry is used for requests, keys or certificates that the constants do not
distinguish, and in no run with a liveness property. Deadlock is checked in every
run.

### Disagreements between the code and what is said of it

Two runs end in a violation. `cert_two_releases`: two Releases of one hold with
a revocation in between lift a permanent revocation, since the UPDATE does not
repeat the check. README.md says "Only a hold can be lifted." `webhook_batch`: a
delivery is in the hands of two dispatchers, as at the defaults, where a tick may
take 100 x 10 s and a claim is stale after 2 minutes. store/webhook.go:245 says "two
dispatchers polling concurrently must never both deliver the same event".

TLC refutes the following in the same way with the configurations named, each on
the MC module of its component. They are not in the list of runs, which is kept
short.

| Configuration | Property | What the code does |
|---|---|---|
| `AcmeAccountsLostReply.cfg` | AccountCap | NewAccount calls its reservation "the authoritative, atomic one" (service.go:216) and releases the slot on *every* error of CreateAcmeAccount; if the INSERT had committed, the account exists without a slot and the cap can be exceeded |
| `WebhookDisabled.cfg` | DisabledIsSkipped | deliver does not look whether the webhook is disabled, so queued deliveries of a disabled one are posted; docs/observability.md:147-148 says they "are simply skipped" |
| `CaRetirementIssue.cfg` | NothingSlipsThrough | an Issue that had passed its check stores an active certificate after RevokeCA's search; lifecycle.go:378 says "Stop new issuance first, so nothing slips through mid-operation" |
| `CaRetirementCreate.cfg` | NoChildOfDisabled | CreateCA signs a new authority with the key of a disabled one, also of one that is retired; lifecycle.go:369 says "It is disabled so nothing more can be issued from it" |
| `CaRetirementLimit.cfg` | AllEarlyAreRevoked | beyond the search limit of 10000 (1 in the run), which also counts revoked certificates, RevokeCA revokes nothing and says nothing; lifecycle.go:370 says "with cascade, every certificate it issued is revoked too" |
| `CrlNumber.cfg` | HigherIsNewer | GenerateCRL reads before it takes its number: of two concurrent lists the one with the higher number can lack a revocation the other has, although the number is there "to discard stale CRLs" (store.go:1101-1103) |
| `SecretRenewed.cfg` | RenewedIsServed | a certificate secret serves the certificate it was linked to, also after a renewal, where docs/secrets.md:295-299 says that readers pick up the new one "with no separate action" |
| `UserAccessAdmin.cfg` | PortalKeepsAnAdmin | "The portal refuses to remove or demote the last enabled admin" (docs/index.md:506): two deeds that both counted two, or one and a directory sign-in that writes an older role back, leave none |

Observations that no document contradicts outright:

* RevokeCA drops an error of ChildCAs, of the read of the parent, and the warnings of
  a child's retirement, so a cascade can look complete and is not (`silent`); a
  certificate on hold passes through a cascade and can be released.
* A delivery whose signing key cannot be decrypted is retried for ever
  (`Undecryptable`); an order whose claimant crashed stays `processing`.
* A fetch authorises one row of a name and materialises what the name stands for
  later; ServedRightly sets the case of a new secret aside. Put can report an error
  after its commit, when the read back fails. The remark on gaps in
  docs/secrets.md:362-366 describes an earlier version: numbers have none.
* A directory sign-in writes the role it computed from an earlier read: a promotion
  or demotion in between is lost, and a failing read counts as no account, also for
  the disabled flag. A sign-in in flight creates its session after
  DeleteUserSessions, which works when the user is enabled again. CreateLocalUser
  overwrites the role of an account that appeared after its check. A patch that
  demotes and disables one of two administrators is carried out by half: the second
  check counts the first change against it. Changing a password keeps the sessions.
  Commands do not look for the last administrator.
* A second copy that completes while the button says "copied" takes that for the
  label and keeps it; a refused execCommand says "copied" too; nothing asks for
  confirmation, and nothing is disabled, before the script has run; sections by
  data-kind are hidden and stay enabled.

### Fairness

`AcmeOrders!FairSpec` and `CaRetirement!FairSpec` assume weak fairness of a
handler's own steps: a goroutine that is neither cancelled nor dead runs on, and
its statements return or fail. No handler is forced to begin, and `Abandon` stays
possible. `WebhookDelivery!FairSpec` adds the clock (`Tick`) and the dispatchers'
tickers (`Run`); crashes are finitely many. `LoginThrottle!FairThrottleSpec` assumes the
clock only, `PortalPage!FairSpec` that timers fire. `SecretVault!FairSpec` assumes weak
fairness of the end of a transaction, which is sealing in memory and an INSERT, and
strong fairness of `Reserve`: both databases hand a row lock on when it is free, so a
writer that waits is served although others come and go. No fairness is assumed of
operators.

## 4. Proofs

All are for arbitrary sets of constants. TLC checked each inductive invariant first.

* `AcmeAccountsProofs`: `TypeCorrect`; `RegistrationSafe` (SlotsAreSound: slots are
  conserved and the paid accounts stay within the cap); `RegistrationBarred`
  (CredentialsGovern); `RegistrationRefinesQuota`. `PaidCap` is not inductive: the count, not the
  accounts, is what Reserve guards. The invariant is SlotConservation with the
  bound on `count`; each step moves one request in or out of `Holders`, or one key
  in or out of `Paid`, and the lemmas on cardinality give the rest. The cap
  follows since the paid accounts are at most `count`. A lost reply moves its request
  to `release` with its slot and leaves the account out of `Paid`, so no hypothesis
  about replies is needed; the plain cap is what they break. Assumed: the sets of keys and
  requests are finite.
* `AcmeOrdersProofs`: `OrderTypeCorrect`, `FinalizeSafe` (FinalizeIsSound),
  `CompletionFinal`, `FinalizeEntitled` (OnlyEntitledIssue). The invariant says what a request that won the claim may
  rely on: nobody else holds the order (`HoldsAlone`), it can be neither claimed
  again nor already valid (`Unheld`), and the certificates stored for it are none
  before and one after Issue (`Certificates`). `OrdersImplementPromise` shows
  OrdersKeepPromise from it: Issue is IssueOnce because the claimant finds none
  stored, and LinkCertificate is Deliver because it finds one and an order that is not
  valid. CompletionFinal adds the certificate a valid order names (ValidIsFinal). The
  refinement also needs `Owned`, that a request acts on an order that was placed: else
  a late error would make one.
* `CertificateProofs`, on certificates: `StatusTypeCorrect`, `OnlyHoldsAreLifted`,
  `RenewalReplaces`, `ReasonsAreKept`. PermanentStays needs `HoldStays`: a Release
  that has seen a hold still finds it, since RevokeCertificate leaves revoked
  certificates alone and there is one Release at a time. That hypothesis,
  `OneReleaser`, is exactly what `cert_two_releases` drops. RenewalReplaces needs
  that a replacement belongs to one renewal and is linked once (`LinkedOnce`).

* `CertificateProofs`, on the lists: `CrlTypeCorrect`,
  `NumbersUnique`, `NumbersOrderLists` (NumbersTellLists), `RevocationsAreListed`
  (RevokedIsListed). The bound on `crlNumber` needs `Counting`: numbers given out,
  calls that hold or still want one, and lists together stay within MaxCRL; hence
  the assumption that there are finitely many calls. A number is unique because a
  call holds one that is neither on a list nor held by another (`NumberInv`). That
  a list has everything due needs what each call may rely on after each of its
  reads (`ContentInv`): what was revoked for good when it began is still revoked,
  or deleted, when it reads. This is PermanentStays again, so both theorems
  assume `OneReleaser`.
* `AccessProofs`, on accounts: `AccessTypeCorrect`, `AccessIsEntitled` (OnlyEntitledAccess),
  `LastAdminIsKept` (LastAdminStays). The invariant says what a request may
  rely on: the account it is about exists, or was deleted since it read the id
  (`Knows`); a user recorded as without access, or as no administrator, since the
  request began still is so, and such a request is not let in, or not as an
  administrator (`Entitled`); what it read is still so unless it is `disturbed`, and
  a deed of the portal that was not disturbed leaves another administrator (`Fresh`).
* `AccessProofs`, on the throttle: `ThrottleTypes` (ThrottleTypeOK), `GuessLimit`
  (GuessesAreBounded), for any logins, keys, limit and window. The bound is not
  inductive: a login that passed its check may still guess, and a wrong guess may not
  be recorded yet, or never. The invariant counts, for each key, the logins that
  passed its check (`Passed`) and those whose wrong guess is not yet a row
  (`Unrecorded`). The rows that count, with those that these logins may still add,
  stay within the limit, the logins there can be and the faults (`RowsBounded`), and
  so do the guesses with those that were let through (`GuessesBounded`); the rows
  lag behind the guesses by no more than what is unrecorded or was lost
  (`RowsLag`). `RowsLag` is needed for every age and not only for the window, since
  `Tick` makes the count of each age that of the one before. A step of a login has
  one of six effects on a key, and one lemma shows that each preserves the
  counts. Assumed: finitely many
  logins.
* `SecretVaultProofs`: `VaultTypeCorrect`, `SecretsServedRightly` (ServedRightly),
  `VaultIsALog` (WritesAreALog). The refinement needs `Locks` and `Counting`: a row
  lock has one holder, whose number is the next after the versions there are, so
  that Commit appends. Freshness needs `Newest`: the newest version of the
  beginning still has its row, and what is served is no older if it is not destroyed. The maximum
  of a set of versions exists by the well-foundedness of `<` on the naturals.
  Assumed: finitely many requests.
* `PortalPageProofs`: `PageTypeCorrect`, `FormSubmitsWhatIsShown`
  (HiddenIsNotSubmitted), `BulkBarIsRight` (BulkIsTold). The script goes through the
  sections in document order and each one sets its fields, so the last one decides;
  lemma `LastDecides` shows that, sections being nested as PageAssumption says, the
  last one is hidden exactly if any of them is. The invariant is that hidden and
  disabled are functions of the choices once the script has run (`FormInv`), and
  that the bar agrees with the ticks (`BulkInv`). Assumed: PageAssumption, which
  the templates fulfil, with finitely many rows.
* `WebhookDeliveryProofs`: `WebhookTypeCorrect`, `DeliveryIsExclusive`
  (ExclusiveDelivery), `DeliverySettledRightly` (SettledRightly),
  `DeliveriesImplementPromise` (DeliveriesKeepPromise), for any Batch, Timeout and
  ClaimStale. The key is `InTime`: the age of a claim plus Timeout for each delivery
  in hand is at most Batch * Timeout plus the time spent on the current one. So a
  claim gets stale in hand only behind the rest of its batch (StaleBehindOthers), and
  then the delivery is `overdue`. Of every other one, nobody else takes it, and the
  row still has the attempts the claim returned (`Held`). For an overdue one the
  invariant only keeps that the row's attempts are not below what any claim of it
  returned, which is enough for a dead delivery to have MaxAttempts failures.
  Assumed: finitely many events and webhooks, and `PowerAssumption`, that the powers
  of two in RetryDelay are natural numbers, for which the provers have no rule and
  which TLC evaluates. In the refinement a claim and a restart change nothing that
  DeliveryPromise has, a tick of the clock is RunOut of what gets overdue; recording
  a result is one Succeed or FailOnce because the row is still queued, with the
  attempts the claim returned, so the failure that the dispatcher takes for the last
  is the last.

* `CaRetirementProofs`: `RetirementTypeCorrect`, `CascadeIsComplete` (CascadeComplete),
  `PromisesAreKept` (EarlyAreRevoked). Assumed: no authority is above itself, since
  the parent exists before its child is signed; certificates are finitely many. So
  no authority is on a stack twice (`NoneTwice`), and what a call does for its
  authority leaves its callers' frames alone. CascadeInv says that a frame that
  has read its children, and in which nothing failed, has each of them still to do,
  on the stack, or retired (`Follows`), and that the children of a retired authority
  are retired, both but for those that `slipped`; so everything beneath is, `Beneath`
  being the smallest set closed under the other children. CreateCA keeps it because
  the new authority has slipped whenever somebody has read its parent's children.
  SweepInv adds that what a frame found active, and the search returns, is revoked,
  on its list, or warned of (`Sweeps`). What the search returns does not shrink,
  since certificates are only added, at the end (`FoundSame`, `FoundBefore`).

Only model-checked: the liveness properties (ClaimResolves, EventuallySettled,
LabelComesBack, PutReturns, RefusalEnds), because fairness is out of the prover's reach. Every invariant, action property and
refinement of the passing runs is also a theorem.

## 5. Plan

In order of importance; done in this version: the modules of section 2. The set of
runs is kept small: a new module gets one run for its safety and liveness together,
on the smallest instance that shows its hazards, and related runs are merged.

1. `CaRegistry`: creation, pending and completion, import, default, deletion;
   parents form a forest (which CaRetirement assumes).
2. `AcmeNonces`; RevokeCert; account updates.
3. `K8sAuthMethods`: the registry of each replica against the table; CSI mounts.
4. Pure algorithms against reference definitions: event filters (`matches`), allowed
   domains, placeholder rewriting, secret bindings' globs, slugs.

## 6. Not modelled

Cryptography, ASN.1, JWS parsing, HTTP and templates; the CLIs' argument parsing
and printing; configuration, service installation, metrics, terminal I/O; the
generated Kubernetes and gRPC types. Audit rows and metrics are written by most
operations and read by none of the modelled ones, so they are left out, except
that an audit write triggers Emit. Of the portal's script only the focus of the
search box; `api-docs-init.js`, which passes a constant configuration to a vendored
viewer, has no state.
