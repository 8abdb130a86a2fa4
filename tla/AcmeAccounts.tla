---------------------------- MODULE AcmeAccounts ----------------------------
(***************************************************************************)
(* ACME account registration (internal/acme/service.go, NewAccount) over   *)
(* the shared database (internal/store/acme.go), with the operator's side  *)
(* (internal/acme/eab_admin.go).                                           *)
(*                                                                         *)
(* Every goca replica runs any number of NewAccount handlers; a handler is *)
(* a sequence of SQL statements, each atomic, interleaved with those of    *)
(* every other handler.  pc[r] is the next statement of request r.  A      *)
(* request can be abandoned between any two statements: its replica dies,  *)
(* or its client disconnects, which cancels the context every later        *)
(* statement of the handler runs under (the release of a slot included).   *)
(*                                                                         *)
(* The JWS layer (parsing, url header, signature, nonce: AcmeNonces) has   *)
(* accepted the request before Begin; a request it refuses changes         *)
(* nothing here.                                                           *)
(***************************************************************************)
EXTENDS Integers, FiniteSets

CONSTANTS
  Keys,             \* account keys, by RFC 7638 thumbprint
  Creds,            \* EAB credentials
  Requests,         \* NewAccount handlers in flight, on all the replicas
  MaxAccounts,      \* max_accounts of each credential; 0 is unlimited
  NoAccount         \* a thumbprint with no row in acme_accounts

ASSUME CredsAssumption == NoAccount \notin Creds
ASSUME FiniteAssumption == IsFiniteSet(Keys) /\ IsFiniteSet(Requests)
ASSUME MaxAssumption == MaxAccounts \in [Creds -> Int]

VARIABLES
  credState,   \* acme_eab_creds: "none" (not created yet), "live", "deleted"
  disabled,    \* the credentials with disabled = 1
  expired,     \* the credentials past expires_at
  count,       \* account_count of each credential
  account,     \* acme_accounts by thumbprint: the row's eab_id, or NoAccount
  deleting,    \* DeleteEAB handlers that saw no account of the credential
  pc,          \* the next statement of each request
  key,         \* the key each request is signed with
  eab,         \* the credential its externalAccountBinding names
  barred,      \* ghost: disabled when the request began, never enabled since
  leaked,      \* ghost: slots reserved by requests that were then abandoned
  lost         \* ghost: the keys whose account was inserted and yet answered
               \* with an error

vars == <<credState, disabled, expired, count, account, deleting,
          pc, key, eab, barred, leaked, lost>>
credVars == <<credState, disabled, expired, deleting>>
reqVars == <<key, eab, barred>>

PCs == {"idle", "lookup", "verify", "reserve", "insert", "release"}

TypeOK ==
  /\ credState \in [Creds -> {"none", "live", "deleted"}]
  /\ disabled \in SUBSET Creds
  /\ expired \in SUBSET Creds
  /\ count \in [Creds -> Nat]
  /\ account \in [Keys -> Creds \cup {NoAccount}]
  /\ deleting \in SUBSET Creds
  /\ pc \in [Requests -> PCs]
  /\ key \in [Requests -> Keys]
  /\ eab \in [Requests -> Creds]
  /\ barred \in [Requests -> BOOLEAN]
  /\ leaked \in [Creds -> Nat]
  /\ lost \in SUBSET Keys

Init ==
  /\ credState = [c \in Creds |-> "none"]
  /\ disabled = {}
  /\ expired = {}
  /\ count = [c \in Creds |-> 0]
  /\ account = [k \in Keys |-> NoAccount]
  /\ deleting = {}
  /\ pc = [r \in Requests |-> "idle"]
  /\ key \in [Requests -> Keys]
  /\ eab \in [Requests -> Creds]
  /\ barred = [r \in Requests |-> FALSE]
  /\ leaked = [c \in Creds |-> 0]
  /\ lost = {}

\* The accounts a credential bootstrapped (ListAcmeAccountsByEAB).
AccountsOf(c) == {k \in Keys : account[k] = c}

\* The requests that hold a slot of c which is neither an account nor released.
Holders(c) == {r \in Requests : eab[r] = c /\ pc[r] \in {"insert", "release"}}

---------------------------------------------------------------------------
(* The operator's side: EAB credentials. *)

CreateEAB(c) ==
  /\ credState[c] = "none"
  /\ credState' = [credState EXCEPT ![c] = "live"]
  /\ UNCHANGED <<disabled, expired, deleting, count, account, pc,
                 reqVars, leaked, lost>>

DisableEAB(c) ==
  /\ credState[c] = "live"
  /\ disabled' = disabled \cup {c}
  /\ UNCHANGED <<credState, expired, deleting, count, account, pc,
                 reqVars, leaked, lost>>

\* Enabling ends the bar on the requests that began while c was disabled.
EnableEAB(c) ==
  /\ credState[c] = "live"
  /\ disabled' = disabled \ {c}
  /\ barred' = [r \in Requests |-> barred[r] /\ eab[r] # c]
  /\ UNCHANGED <<credState, expired, deleting, count, account, pc,
                 key, eab, leaked, lost>>

\* Time passes expires_at.
ExpireEAB(c) ==
  /\ credState[c] = "live"
  /\ expired' = expired \cup {c}
  /\ UNCHANGED <<credState, disabled, deleting, count, account, pc,
                 reqVars, leaked, lost>>

\* DeleteEAB reads the list of accounts and refuses if it is not empty ...
DeleteEABCheck(c) ==
  /\ credState[c] = "live"
  /\ AccountsOf(c) = {}
  /\ deleting' = deleting \cup {c}
  /\ UNCHANGED <<credState, disabled, expired, count, account, pc,
                 reqVars, leaked, lost>>

\* Mutant: the accounts' foreign key does not protect the credential.
DeleteEABCredNoFK(c) ==
  /\ c \in deleting
  /\ deleting' = deleting \ {c}
  /\ credState' = [credState EXCEPT ![c] = "deleted"]
  /\ UNCHANGED <<disabled, expired, count, account, pc, reqVars, leaked, lost>>

\* ... and deletes the row in a second statement, which the foreign key of
\* acme_accounts refuses if an account has appeared meanwhile.
DeleteEABCred(c) ==
  /\ c \in deleting
  /\ deleting' = deleting \ {c}
  /\ credState' = IF credState[c] = "live" /\ AccountsOf(c) = {}
                  THEN [credState EXCEPT ![c] = "deleted"] ELSE credState
  /\ UNCHANGED <<disabled, expired, count, account, pc, reqVars,
                 leaked, lost>>

---------------------------------------------------------------------------
(* One NewAccount handler. *)

Goto(r, label) == pc' = [pc EXCEPT ![r] = label]

Begin(r, k, c) ==
  /\ pc[r] = "idle"
  /\ Goto(r, "lookup")
  /\ key' = [key EXCEPT ![r] = k]
  /\ eab' = [eab EXCEPT ![r] = c]
  /\ barred' = [barred EXCEPT ![r] = c \in disabled]
  /\ UNCHANGED <<credVars, count, account, leaked, lost>>

\* GetAcmeAccountByThumbprint: a registered key is answered at once (with its
\* account, or a refusal if that was deactivated).  A new key goes on, unless
\* the request is onlyReturnExisting or its contacts are invalid.
Lookup(r) ==
  /\ pc[r] = "lookup"
  /\ \/ account[key[r]] = NoAccount /\ Goto(r, "verify")
     \/ Goto(r, "idle")
  /\ UNCHANGED <<credVars, count, account, reqVars, leaked, lost>>

Usable(c) ==
  /\ c \notin disabled
  /\ c \notin expired
  /\ MaxAccounts[c] > 0 => count[c] < MaxAccounts[c]

\* VerifyEAB reads the credential; a wrong MAC or an unusable one is refused.
Verify(r) ==
  /\ pc[r] = "verify"
  /\ \/ credState[eab[r]] = "live" /\ Usable(eab[r]) /\ Goto(r, "reserve")
     \/ Goto(r, "idle")
  /\ UNCHANGED <<credVars, count, account, reqVars, leaked, lost>>

\* Mutant: the UPDATE trusts the earlier Usable() and has no cap of its own.
HasSlotUncapped(c) == credState[c] = "live"

HasSlot(c) ==
  /\ credState[c] = "live"
  /\ MaxAccounts[c] = 0 \/ count[c] < MaxAccounts[c]

\* ReserveEABAccountSlot: one conditional UPDATE.  When the statement fails
\* the handler stops without releasing; if it had committed the slot is lost.
Reserve(r) ==
  LET c == eab[r] IN
  /\ pc[r] = "reserve"
  /\ \/ /\ HasSlot(c)
        /\ count' = [count EXCEPT ![c] = @ + 1]
        /\ \/ Goto(r, "insert") /\ UNCHANGED leaked
           \/ Goto(r, "idle") /\ leaked' = [leaked EXCEPT ![c] = @ + 1]
     \/ Goto(r, "idle") /\ UNCHANGED <<count, leaked, lost>>
  /\ UNCHANGED <<credVars, account, reqVars, lost>>

\* Mutant: the INSERT replaces the row on a conflict of thumbprints.
InsertUpsert(r) ==
  /\ pc[r] = "insert"
  /\ credState[eab[r]] = "live"
  /\ account' = [account EXCEPT ![key[r]] = eab[r]]
  /\ Goto(r, "idle")
  /\ UNCHANGED <<credVars, count, reqVars, leaked, lost>>

\* CreateAcmeAccount: the INSERT, refused by the unique thumbprint or by the
\* foreign key to the credential, then a read of the new row.  Every error,
\* one that follows the INSERT's commit included, leads to the release.
Insert(r) ==
  LET k == key[r]
      c == eab[r]
      inserted == /\ account[k] = NoAccount
                  /\ credState[c] = "live"
                  /\ account' = [account EXCEPT ![k] = c]
  IN
  /\ pc[r] = "insert"
  /\ \/ inserted /\ Goto(r, "idle") /\ UNCHANGED lost
     \/ inserted /\ Goto(r, "release") /\ lost' = lost \cup {k}
     \/ Goto(r, "release") /\ UNCHANGED <<account, lost>>
  /\ UNCHANGED <<credVars, count, reqVars, leaked>>

\* Mutant: the slot is given back twice, without the account_count > 0 guard.
ReleaseTwice(r) ==
  /\ pc[r] = "release"
  /\ Goto(r, "idle")
  /\ count' = [count EXCEPT ![eab[r]] = @ - 2]
  /\ UNCHANGED <<credVars, account, reqVars, leaked, lost>>

\* ReleaseEABAccountSlot; its error is ignored, which loses the slot.
Release(r) ==
  LET c == eab[r] IN
  /\ pc[r] = "release"
  /\ Goto(r, "idle")
  /\ \/ /\ count' = IF credState[c] = "live" /\ count[c] > 0
                    THEN [count EXCEPT ![c] = @ - 1] ELSE count
        /\ UNCHANGED leaked
     \/ leaked' = [leaked EXCEPT ![c] = @ + 1] /\ UNCHANGED count
  /\ UNCHANGED <<credVars, account, reqVars, lost>>

\* The replica crashes, or the client disconnects.
Abandon(r) ==
  /\ pc[r] # "idle"
  /\ Goto(r, "idle")
  /\ leaked' = IF r \in Holders(eab[r])
               THEN [leaked EXCEPT ![eab[r]] = @ + 1] ELSE leaked
  /\ UNCHANGED <<credVars, count, account, reqVars, lost>>

Step(r) == Lookup(r) \/ Verify(r) \/ Reserve(r) \/ Insert(r) \/ Release(r)

Next ==
  \/ \E c \in Creds : \/ CreateEAB(c) \/ DisableEAB(c) \/ EnableEAB(c)
                      \/ ExpireEAB(c) \/ DeleteEABCheck(c) \/ DeleteEABCred(c)
  \/ \E r \in Requests, k \in Keys, c \in Creds : Begin(r, k, c)
  \/ \E r \in Requests : Step(r) \/ Abandon(r)

Spec == Init /\ [][Next]_vars

---------------------------------------------------------------------------
(* Properties *)

\* The accounts of c that took a slot for good: all but those whose creation was
\* answered with an error, which NewAccount took for a failed one.
Paid(c) == AccountsOf(c) \ lost

\* A capped credential never has more accounts than its cap (NewAccount:
\* "Usable() above is a fast, readable refusal; this is the authoritative,
\* atomic one").  Not so: an account whose read-back fails keeps its row while
\* its slot is released (AcmeAccountsLostReply.cfg).
AccountCap ==
  \A c \in Creds : MaxAccounts[c] > 0 =>
                     Cardinality(AccountsOf(c)) <= MaxAccounts[c]

\* What holds of max_accounts over all replicas: the accounts of a capped
\* credential exceed its cap by no more than the lost ones among them.
PaidCap ==
  \A c \in Creds : MaxAccounts[c] > 0 => Cardinality(Paid(c)) <= MaxAccounts[c]

\* No slot is lost or counted twice: account_count is exactly the paid
\* accounts, the slots requests still hold, and those of abandoned requests.
SlotConservation ==
  \A c \in Creds : credState[c] = "live" =>
    count[c] = Cardinality(Paid(c)) + Cardinality(Holders(c)) + leaked[c]

\* ReserveEABAccountSlot and ReleaseEABAccountSlot: whatever registrations race,
\* crash or fail, the counter that decides about max_accounts is right, and the
\* cap is passed only by accounts whose creation failed after the INSERT, one
\* for each such failure.
SlotsAreSound == SlotConservation /\ PaidCap

\* An account's credential is never deleted under it, although DeleteEAB checks
\* for accounts in one statement and deletes in another.
CredentialOfAccountLives ==
  \A k \in Keys : account[k] # NoAccount => credState[account[k]] = "live"

\* A registration that began while its credential was disabled, and was not
\* enabled since, never gets as far as reserving a slot or creating an account
\* (SetEABDisabled: disabling stops it from bootstrapping new accounts).
DisabledBarsRegistration ==
  \A r \in Requests : pc[r] \in {"reserve", "insert", "release"} => ~barred[r]

\* DeleteEAB and SetEABDisabled against registrations in flight: an account keeps
\* its credential, and a disabled credential makes no account.
CredentialsGovern == CredentialOfAccountLives /\ DisabledBarsRegistration

\* The registration protocol implements the atomic quota of AccountQuota, in
\* which a registration that is answered with an error takes no room.
Quota == INSTANCE AccountQuota WITH account <- account, lost <- lost
QuotaSpec == Quota!Spec
=============================================================================
