---------------------------- MODULE AccountQuota ----------------------------
(***************************************************************************)
(* What the ACME server promises about External Account Binding: a key     *)
(* registers at most once, under one credential, and a credential with a   *)
(* positive cap bootstraps no more accounts than the cap, not counting     *)
(* those whose registration was answered with an error although the        *)
(* account exists.  Registration is one atomic step here; AcmeAccounts is  *)
(* the several-statement implementation.                                   *)
(***************************************************************************)
EXTENDS Integers, FiniteSets

CONSTANTS
  Keys,           \* account keys, by RFC 7638 thumbprint
  Creds,          \* EAB credentials
  MaxAccounts,    \* the cap of each credential, 0 for none
  NoAccount       \* a key that is not registered

VARIABLES
  account,        \* the credential each key registered under
  lost            \* the keys whose registration was answered with an error

vars == <<account, lost>>

\* The keys that take up the room of credential c.
Paid(c) == {k \in Keys : account[k] = c} \ lost

Init ==
  /\ account = [k \in Keys |-> NoAccount]
  /\ lost = {}

\* A new key registers under a credential that still has room; the answer may
\* be an error.
Register(k, c) ==
  /\ account[k] = NoAccount
  /\ MaxAccounts[c] > 0 => Cardinality(Paid(c)) < MaxAccounts[c]
  /\ account' = [account EXCEPT ![k] = c]
  /\ lost' \in {lost, lost \cup {k}}

Next == \E k \in Keys, c \in Creds : Register(k, c)

Spec == Init /\ [][Next]_vars
=============================================================================
