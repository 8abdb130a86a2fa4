----------------------------- MODULE AcmeOrders -----------------------------
(***************************************************************************)
(* ACME orders: NewOrder, Finalize and the account and credential checks   *)
(* they make (internal/acme/service.go, policy.go) over the order table    *)
(* (internal/store/acme.go).                                               *)
(*                                                                         *)
(* Each handler is a sequence of SQL statements, each atomic; handlers of  *)
(* all the replicas interleave between them.  A handler can be abandoned   *)
(* between two statements, by a crash or by a client that disconnects (its *)
(* context then fails every later statement, SetAcmeOrderError included).  *)
(* A certificate is identified by the order it was issued for and its rank *)
(* among those issued for it; there should never be a second one.          *)
(***************************************************************************)
EXTENDS Naturals, FiniteSets

CONSTANTS
  Orders,      \* acme_orders rows that may be created
  Accounts,    \* registered accounts
  Creds,       \* the EAB credentials they were bootstrapped with
  CredOf,      \* eab_id of each account
  Requests     \* handlers in flight, on all the replicas

ASSUME CredOfAssumption == CredOf \in [Accounts -> Creds]

VARIABLES
  status,      \* acme_orders.status; "none" before the row exists
  owner,       \* acme_orders.account_id
  error,       \* the orders with an error_json
  overdue,     \* the orders past expires_at
  authorized,  \* the orders whose authorization and challenge rows all exist
  issued,      \* how many certificates were issued for each order
  link,        \* acme_orders.certificate_id: the rank of the certificate, or 0
  disabled,    \* the credentials with disabled = 1
  deactivated, \* the accounts with status "deactivated"
  pc,          \* the next statement of each request
  acct,        \* the account whose key signed the request
  order,       \* the order a finalize names, or a new-order has created
  csr,         \* what the CSR of a finalize asks for
  barred,      \* ghost: why the request must be refused, known when it began
  stuck        \* ghost: the claimed orders whose finalize was abandoned

orderVars == <<status, owner, error, overdue, authorized, issued, link>>
reqVars == <<acct, order, csr, barred>>
vars == <<orderVars, disabled, deactivated, pc, reqVars, stuck>>

Statuses == {"none", "ready", "processing", "valid", "invalid"}

\* "match": exactly the order's names.  "mismatch": other names, a non-DNS
\* SAN or a foreign common name.  "garbled": not a CSR at all.
CSRs == {"match", "mismatch", "garbled"}

\* An account is deactivated for good; a credential can be enabled again.
Reasons == {"account", "credential"}

PCs == {"idle", "newAuth", "newCred", "newInsert", "newAuthz",
        "finAuth", "finRead", "finReject", "finCred", "finClaim", "finIssue",
        "finFail", "finLink"}

TypeOK ==
  /\ status \in [Orders -> Statuses]
  /\ owner \in [Orders -> Accounts]
  /\ error \in SUBSET Orders
  /\ overdue \in SUBSET Orders
  /\ authorized \in SUBSET Orders
  /\ issued \in [Orders -> Nat]
  /\ link \in [Orders -> Nat]
  /\ disabled \in SUBSET Creds
  /\ deactivated \in SUBSET Accounts
  /\ pc \in [Requests -> PCs]
  /\ acct \in [Requests -> Accounts]
  /\ order \in [Requests -> Orders]
  /\ csr \in [Requests -> CSRs]
  /\ barred \in [Requests -> SUBSET Reasons]
  /\ stuck \in SUBSET Orders

Init ==
  /\ status = [o \in Orders |-> "none"]
  /\ owner \in [Orders -> Accounts]
  /\ error = {}
  /\ overdue = {}
  /\ authorized = {}
  /\ issued = [o \in Orders |-> 0]
  /\ link = [o \in Orders |-> 0]
  /\ disabled = {}
  /\ deactivated = {}
  /\ pc = [r \in Requests |-> "idle"]
  /\ acct \in [Requests -> Accounts]
  /\ order \in [Requests -> Orders]
  /\ csr = [r \in Requests |-> "match"]
  /\ barred = [r \in Requests |-> {}]
  /\ stuck = {}

\* The request goes on with the statement label; when it is over its locals are
\* forgotten.
Goto(r, label) ==
  /\ pc' = [pc EXCEPT ![r] = label]
  /\ csr' = [csr EXCEPT ![r] = IF label = "idle" THEN "match" ELSE @]
  /\ barred' = [barred EXCEPT ![r] = IF label = "idle" THEN {} ELSE @]

\* The finalizes that won the claim of order o and have not finished with it.
Claimants(o) ==
  {r \in Requests : order[r] = o /\ pc[r] \in {"finIssue", "finFail", "finLink"}}

---------------------------------------------------------------------------
(* The operator, the clock and the account's own deactivation. *)

SetEABDisabled(c) ==
  /\ disabled' = disabled \cup {c}
  /\ UNCHANGED <<orderVars, deactivated, pc, reqVars, stuck>>

\* Enabling c again ends the bar it was on its accounts' requests.
SetEABEnabled(c) ==
  /\ c \in disabled
  /\ disabled' = disabled \ {c}
  /\ barred' = [r \in Requests |->
                  IF CredOf[acct[r]] = c THEN barred[r] \ {"credential"} ELSE barred[r]]
  /\ UNCHANGED <<orderVars, deactivated, pc, acct, order, csr, stuck>>

\* DeactivateAccount by an administrator, or a status update by the client.
DeactivateAccount(a) ==
  /\ a \notin deactivated
  /\ deactivated' = deactivated \cup {a}
  /\ UNCHANGED <<orderVars, disabled, pc, reqVars, stuck>>

\* Time passes the order's expires_at.
Expire(o) ==
  /\ status[o] # "none"
  /\ overdue' = overdue \cup {o}
  /\ UNCHANGED <<status, owner, error, authorized, issued, link, disabled,
                 deactivated, pc, reqVars, stuck>>

---------------------------------------------------------------------------
(* NewOrder *)

MustRefuse(a) ==
  {x \in Reasons : \/ x = "account" /\ a \in deactivated
                   \/ x = "credential" /\ CredOf[a] \in disabled}

BeginNewOrder(r, a) ==
  /\ pc[r] = "idle"
  /\ pc' = [pc EXCEPT ![r] = "newAuth"]
  /\ acct' = [acct EXCEPT ![r] = a]
  /\ barred' = [barred EXCEPT ![r] = MustRefuse(a)]
  /\ UNCHANGED <<orderVars, disabled, deactivated, order, csr, stuck>>

\* Mutant: authenticate does not look at the account's status.
AuthenticateAnyStatus(r, from, to) ==
  /\ pc[r] = from
  /\ Goto(r, to) \/ Goto(r, "idle")
  /\ UNCHANGED <<orderVars, disabled, deactivated, acct, order, stuck>>

\* authenticate: ResolveAccount refuses a deactivated account.
Authenticate(r, from, to) ==
  /\ pc[r] = from
  /\ \/ acct[r] \notin deactivated /\ Goto(r, to)
     \/ Goto(r, "idle")
  /\ UNCHANGED <<orderVars, disabled, deactivated, acct, order, stuck>>

\* activeCred refuses a disabled credential.
ActiveCred(r, from, to) ==
  /\ pc[r] = from
  /\ \/ CredOf[acct[r]] \notin disabled /\ Goto(r, to)
     \/ Goto(r, "idle")
  /\ UNCHANGED <<orderVars, disabled, deactivated, acct, order, stuck>>

\* Mutant: the order is born "pending", as RFC 8555 has it.
InsertOrderPending(r, o) ==
  /\ pc[r] = "newInsert"
  /\ status[o] = "none"
  /\ status' = [status EXCEPT ![o] = "pending"]
  /\ owner' = [owner EXCEPT ![o] = acct[r]]
  /\ order' = [order EXCEPT ![r] = o]
  /\ Goto(r, "newAuthz")
  /\ UNCHANGED <<error, overdue, authorized, issued, link, disabled,
                 deactivated, acct, stuck>>

\* CreateAcmeOrder: the order is born "ready".  Names outside the credential's
\* domains, or an unsupported notBefore or notAfter, are refused instead.
InsertOrder(r, o) ==
  /\ pc[r] = "newInsert"
  /\ status[o] = "none"
  /\ status' = [status EXCEPT ![o] = "ready"]
  /\ owner' = [owner EXCEPT ![o] = acct[r]]
  /\ order' = [order EXCEPT ![r] = o]
  /\ Goto(r, "newAuthz")
  /\ UNCHANGED <<error, overdue, authorized, issued, link, disabled,
                 deactivated, acct, stuck>>

\* CreateAcmeAuthorization and CreateAcmeChallenge for each identifier.
InsertAuthz(r) ==
  /\ pc[r] = "newAuthz"
  /\ authorized' = authorized \cup {order[r]}
  /\ Goto(r, "idle")
  /\ UNCHANGED <<status, owner, error, overdue, issued, link, disabled,
                 deactivated, acct, order, stuck>>

---------------------------------------------------------------------------
(* Finalize *)

BeginFinalize(r, a, o, x) ==
  /\ pc[r] = "idle"
  /\ pc' = [pc EXCEPT ![r] = "finAuth"]
  /\ acct' = [acct EXCEPT ![r] = a]
  /\ order' = [order EXCEPT ![r] = o]
  /\ csr' = [csr EXCEPT ![r] = x]
  /\ barred' = [barred EXCEPT ![r] = MustRefuse(a)]
  /\ UNCHANGED <<orderVars, disabled, deactivated, stuck>>

\* GetAcmeOrder and the checks on what it returned.
FinalizeRead(r) ==
  LET o == order[r] IN
  /\ pc[r] = "finRead"
  /\ Goto(r, IF status[o] # "ready" \/ owner[o] # acct[r] THEN "idle"
             ELSE IF o \in overdue \/ csr[r] = "mismatch" THEN "finReject"
             ELSE IF csr[r] = "garbled" THEN "idle" ELSE "finCred")
  /\ UNCHANGED <<orderVars, disabled, deactivated, acct, order, stuck>>

\* Mutant: an error demotes an order whatever its status.
OrderErrorAlways(o) ==
  /\ status' = [status EXCEPT ![o] = "invalid"]
  /\ error' = error \cup {o}

\* SetAcmeOrderError.
OrderError(o) ==
  IF status[o] = "valid" THEN UNCHANGED <<status, error>>
  ELSE /\ status' = [status EXCEPT ![o] = "invalid"]
       /\ error' = error \cup {o}

\* A refused request marks its order invalid; an error of the write is ignored.
FinalizeReject(r) ==
  /\ pc[r] = "finReject"
  /\ Goto(r, "idle")
  /\ OrderError(order[r]) \/ UNCHANGED <<status, error>>
  /\ UNCHANGED <<owner, overdue, authorized, issued, link, disabled,
                 deactivated, acct, order, stuck>>

\* Mutant: the claim trusts the status read earlier.
ClaimBlind(r) ==
  /\ pc[r] = "finClaim"
  /\ status' = [status EXCEPT ![order[r]] = "processing"]
  /\ Goto(r, "finIssue")
  /\ UNCHANGED <<owner, error, overdue, authorized, issued, link, disabled,
                 deactivated, acct, order, stuck>>

\* ClaimAcmeOrderForFinalize: one conditional UPDATE, "ready" to "processing".
\* If its reply is lost the handler stops and the claim has no holder.
Claim(r) ==
  LET o == order[r] IN
  /\ pc[r] = "finClaim"
  /\ \/ /\ status[o] = "ready"
        /\ status' = [status EXCEPT ![o] = "processing"]
        /\ \/ Goto(r, "finIssue") /\ UNCHANGED stuck
           \/ Goto(r, "idle") /\ stuck' = stuck \cup {o}
     \/ Goto(r, "idle") /\ UNCHANGED <<status, stuck>>
  /\ UNCHANGED <<owner, error, overdue, authorized, issued, link, disabled,
                 deactivated, acct, order>>

\* Issue signs and stores the certificate, or fails; it can also store the
\* certificate and then fail (CreateCertificate reads back what it inserted).
Issue(r) ==
  LET o == order[r]
      store == issued' = [issued EXCEPT ![o] = @ + 1]
  IN
  /\ pc[r] = "finIssue"
  /\ \/ store /\ Goto(r, "finLink")
     \/ store /\ Goto(r, "finFail")
     \/ UNCHANGED issued /\ Goto(r, "finFail")
  /\ UNCHANGED <<status, owner, error, overdue, authorized, link, disabled,
                 deactivated, acct, order, stuck>>

\* Mutant: a failed issue leaves its order claimed.
IssueFailedSilently(r) ==
  /\ pc[r] = "finFail"
  /\ Goto(r, "idle")
  /\ UNCHANGED <<orderVars, disabled, deactivated, acct, order, stuck>>

\* SetAcmeOrderError after a failed issue; an error of the write is ignored
\* and leaves the claim without a holder.
IssueFailed(r) ==
  LET o == order[r] IN
  /\ pc[r] = "finFail"
  /\ Goto(r, "idle")
  /\ \/ OrderError(o) /\ UNCHANGED stuck
     \/ stuck' = stuck \cup {o} /\ UNCHANGED <<status, error>>
  /\ UNCHANGED <<owner, overdue, authorized, issued, link, disabled,
                 deactivated, acct, order>>

\* SetAcmeOrderCertificate, unconditional.  If it fails the certificate exists
\* but no order names it.
LinkCertificate(r) ==
  LET o == order[r] IN
  /\ pc[r] = "finLink"
  /\ Goto(r, "idle")
  /\ \/ /\ status' = [status EXCEPT ![o] = "valid"]
        /\ link' = [link EXCEPT ![o] = issued[o]]
        /\ UNCHANGED stuck
     \/ stuck' = stuck \cup {o} /\ UNCHANGED <<status, link>>
  /\ UNCHANGED <<owner, error, overdue, authorized, issued, disabled,
                 deactivated, acct, order>>

\* The replica crashes, or the client disconnects.
Abandon(r) ==
  /\ pc[r] # "idle"
  /\ Goto(r, "idle")
  /\ stuck' = stuck \cup {o \in Orders : r \in Claimants(o)}
  /\ UNCHANGED <<orderVars, disabled, deactivated, acct, order>>

NewOrderStep(r) ==
  \/ Authenticate(r, "newAuth", "newCred")
  \/ ActiveCred(r, "newCred", "newInsert")
  \/ \E o \in Orders : InsertOrder(r, o)
  \/ InsertAuthz(r)

FinalizeStep(r) ==
  \/ Authenticate(r, "finAuth", "finRead")
  \/ FinalizeRead(r)
  \/ FinalizeReject(r)
  \/ ActiveCred(r, "finCred", "finClaim")
  \/ Claim(r)
  \/ Issue(r)
  \/ IssueFailed(r)
  \/ LinkCertificate(r)

Next ==
  \/ \E c \in Creds : SetEABDisabled(c) \/ SetEABEnabled(c)
  \/ \E a \in Accounts : DeactivateAccount(a)
  \/ \E o \in Orders : Expire(o)
  \/ \E r \in Requests, a \in Accounts : BeginNewOrder(r, a)
  \/ \E r \in Requests, a \in Accounts, o \in Orders, x \in CSRs :
        BeginFinalize(r, a, o, x)
  \/ \E r \in Requests : NewOrderStep(r) \/ FinalizeStep(r) \/ Abandon(r)

Spec == Init /\ [][Next]_vars

\* A handler that is not abandoned runs to its end.
FairSpec == Spec /\ \A r \in Requests : WF_vars(FinalizeStep(r))

---------------------------------------------------------------------------
(* Properties *)

\* However finalizes race, crash or fail, an order yields one certificate at
\* most (ClaimAcmeOrderForFinalize: "of two concurrent finalize requests for
\* one order, exactly one issues a certificate").
OneCertificatePerOrder == \A o \in Orders : issued[o] <= 1

\* The claim is exclusive: at most one request at a time is between winning
\* the claim of an order and finishing with it.
ExclusiveClaim ==
  \A o \in Orders : \A r, s \in Claimants(o) : r = s

\* A valid order names a certificate that was issued for it, and only a valid
\* order names one: GetAcmeOrderByCertificate, which download and revocation
\* rest on, never finds an order that is not complete.
ValidHasCertificate ==
  \A o \in Orders : /\ status[o] = "valid" <=> link[o] # 0
                    /\ link[o] <= issued[o]

\* No order stays in "processing" with nobody at work on it, unless the request
\* that claimed it was abandoned.
ProcessingHasClaimant ==
  \A o \in Orders : status[o] = "processing" => Claimants(o) # {} \/ o \in stuck

\* However finalizes race, crash or fail: of the requests for an order one at a
\* time works on it and one at most gets a certificate, and none leaves it
\* processing with nobody at work unless it was abandoned; a valid order, and no
\* other, names the certificate issued for it.
FinalizeIsSound ==
  /\ OneCertificatePerOrder
  /\ ExclusiveClaim
  /\ ProcessingHasClaimant
  /\ ValidHasCertificate

\* A request that began when its account was deactivated, or its credential
\* disabled and not enabled since, creates no order and issues nothing, however
\* long it takes and whatever changes meanwhile.
BarredIssuesNothing ==
  \A r \in Requests :
    pc[r] \in {"newInsert", "newAuthz", "finClaim", "finIssue", "finLink"} =>
      barred[r] = {}

\* Only the account that placed an order gets to have it claimed and issued.
OnlyOwnerIssues ==
  \A o \in Orders : \A r \in Claimants(o) : acct[r] = owner[o]

\* Whoever gets an order or a certificate was entitled to it: it is the order's
\* owner, and was not barred all the while.
OnlyEntitledIssue == OnlyOwnerIssues /\ BarredIssuesNothing

\* An order that produced its certificate keeps it: no concurrent, failing
\* request makes a valid order invalid or changes its certificate.
ValidIsFinal ==
  [][\A o \in Orders : status[o] = "valid" =>
        status'[o] = "valid" /\ link'[o] = link[o]]_vars

\* The orders as the client sees them.
Holder == [o \in Orders |-> IF status[o] = "none" THEN {} ELSE {owner[o]}]
Delivered == {o \in Orders : status[o] = "valid"}

Promise == INSTANCE OrderPromise WITH holder <- Holder, delivered <- Delivered

\* Statement by statement, with requests that race, fail late and crash, orders
\* behave as if placing, issuing and delivering were one step each: an order never
\* changes hands, a second certificate is never issued for it, and no late error of
\* another request takes a delivered one back.
OrdersKeepPromise == Promise!Spec

\* A claimed order is eventually resolved, or its request was abandoned.
ClaimResolves ==
  \A o \in Orders : status[o] = "processing" ~> (status[o] # "processing" \/ o \in stuck)
=============================================================================
