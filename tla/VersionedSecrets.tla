-------------------------- MODULE VersionedSecrets --------------------------
(***************************************************************************)
(* What the secret vault promises of what is written to it: a secret is a  *)
(* log of values.  A write appends one value, in one atomic step, so that  *)
(* versions have no gaps and none is overwritten; a version can be         *)
(* scrubbed, and stays scrubbed; a deleted secret never comes back.        *)
(* SecretVault is the implementation.                                      *)
(***************************************************************************)
EXTENDS Naturals, Sequences

CONSTANTS
  Secrets,    \* secrets, by their ids
  Values,
  Scrubbed    \* a version whose value has been destroyed

VARIABLES
  alive,      \* the secrets that exist
  used,       \* the secrets that exist or existed
  log         \* the values written to each secret

vars == <<alive, used, log>>

Init ==
  /\ alive = {}
  /\ used = {}
  /\ log = [s \in Secrets |-> <<>>]

Create(s) ==
  /\ s \notin used
  /\ alive' = alive \cup {s}
  /\ used' = used \cup {s}
  /\ UNCHANGED log

Delete(s) ==
  /\ s \in alive
  /\ alive' = alive \ {s}
  /\ log' = [log EXCEPT ![s] = <<>>]
  /\ UNCHANGED used

Write(s, v) ==
  /\ s \in alive
  /\ log' = [log EXCEPT ![s] = Append(@, v)]
  /\ UNCHANGED <<alive, used>>

Scrub(s, i) ==
  /\ s \in alive
  /\ i \in DOMAIN log[s]
  /\ log' = [log EXCEPT ![s][i] = Scrubbed]
  /\ UNCHANGED <<alive, used>>

Next ==
  \E s \in Secrets :
    \/ Create(s) \/ Delete(s)
    \/ \E v \in Values : Write(s, v)
    \/ \E i \in DOMAIN log[s] : Scrub(s, i)

Spec == Init /\ [][Next]_vars
=============================================================================
