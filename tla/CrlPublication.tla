--------------------------- MODULE CrlPublication ---------------------------
(***************************************************************************)
(* Revocation lists of one authority that has its key: GenerateCRL         *)
(* (internal/ca/service.go), called by the public endpoint on every        *)
(* download, by the portal, the API and the CLI, on every replica, while   *)
(* the handlers of CertStatus revoke, hold, release and delete             *)
(* certificates of that authority and RevokeCA retires its subordinates.   *)
(*                                                                         *)
(* GenerateCRL reads the revoked certificates, then the retired            *)
(* subordinates, then takes a number, then signs: four steps, with         *)
(* anything between them.                                                  *)
(***************************************************************************)
EXTENDS CertStatus, Sequences

CONSTANTS
  Subordinates,   \* authorities signed by this one
  Generators,     \* calls of GenerateCRL in flight
  MaxCRL          \* bound: numbers taken, or to be taken by calls in flight

ASSUME CrlAssumption == MaxCRL \in Nat /\ IsFiniteSet(Generators)

VARIABLES
  retired,     \* ca_revocations: the subordinates listed as revoked
  crlNumber,   \* cas.crl_number
  genPc,       \* the next statement of each call
  entries,     \* what it has read of the certificates, with reasons
  caEntries,   \* what it has read of the subordinates
  number,      \* the number it has taken
  since,       \* ghost: lists that were out when it began
  due,         \* ghost: what was revoked for good when it began
  published    \* the lists that were handed out, in that order

genVars == <<entries, caEntries, number, since, due>>
crlVars == <<retired, crlNumber, genPc, genVars, published>>

Entry == Certs \X Reasons

CrlTypeOK ==
  /\ retired \in SUBSET Subordinates
  /\ crlNumber \in 0 .. MaxCRL
  /\ genPc \in [Generators -> {"idle", "certs", "cas", "number", "sign"}]
  /\ entries \in [Generators -> SUBSET Entry]
  /\ caEntries \in [Generators -> SUBSET Subordinates]
  /\ number \in [Generators -> 0 .. MaxCRL]
  /\ since \in [Generators -> 0 .. MaxCRL]
  /\ due \in [Generators -> SUBSET (Certs \cup Subordinates)]
  /\ published \in Seq([number : 1 .. MaxCRL, entries : SUBSET Entry,
                        caEntries : SUBSET Subordinates, since : 0 .. MaxCRL])

CrlInit ==
  /\ Init
  /\ retired = {}
  /\ crlNumber = 0
  /\ genPc = [g \in Generators |-> "idle"]
  /\ entries = [g \in Generators |-> {}]
  /\ caEntries = [g \in Generators |-> {}]
  /\ number = [g \in Generators |-> 0]
  /\ since = [g \in Generators |-> 0]
  /\ due = [g \in Generators |-> {}]
  /\ published = <<>>

GenGoto(g, label) == genPc' = [genPc EXCEPT ![g] = label]

\* The call returns, with a list or an error.
GenReturn(g) ==
  /\ GenGoto(g, "idle")
  /\ entries' = [entries EXCEPT ![g] = {}]
  /\ caEntries' = [caEntries EXCEPT ![g] = {}]
  /\ number' = [number EXCEPT ![g] = 0]
  /\ since' = [since EXCEPT ![g] = 0]
  /\ due' = [due EXCEPT ![g] = {}]

---------------------------------------------------------------------------
(* Actions *)

\* RecordCARevocation, at the end of RevokeCA.
RecordCARevocation(s) ==
  /\ retired' = retired \cup {s}
  /\ UNCHANGED <<vars, crlNumber, genPc, genVars, published>>

\* GenerateCRL finds the authority and its key.
BeginCRL(g) ==
  /\ genPc[g] = "idle"
  /\ crlNumber + Cardinality({h \in Generators : genPc[h] \in {"certs", "cas", "number"}}) < MaxCRL
  /\ GenGoto(g, "certs")
  /\ since' = [since EXCEPT ![g] = Len(published)]
  /\ due' = [due EXCEPT ![g] = {c \in Certs : status[c] = "revoked" /\ code[c] # "hold"}
                                 \cup retired]
  /\ UNCHANGED <<vars, retired, crlNumber, entries, caEntries, number, published>>

\* RevokedCertificates: those on hold too, each with its reason.
RevokedCertificates == {e \in Entry : status[e[1]] = "revoked" /\ e[2] = code[e[1]]}

ReadCertificates(g) ==
  /\ genPc[g] = "certs"
  /\ entries' = [entries EXCEPT ![g] = RevokedCertificates]
  /\ GenGoto(g, "cas")
  /\ UNCHANGED <<vars, retired, crlNumber, caEntries, number, since, due, published>>

\* Mutant: retired subordinates are left off the list.
ReadCARevocationsNone(g) ==
  /\ genPc[g] = "cas"
  /\ GenGoto(g, "number")
  /\ UNCHANGED <<vars, retired, crlNumber, genVars, published>>

\* CARevocations.
ReadCARevocations(g) ==
  /\ genPc[g] = "cas"
  /\ caEntries' = [caEntries EXCEPT ![g] = retired]
  /\ GenGoto(g, "number")
  /\ UNCHANGED <<vars, retired, crlNumber, entries, number, since, due, published>>

\* Mutant: the number is the next one, and is not written back.
NextCRLNumberUnsaved(g) ==
  /\ genPc[g] = "number"
  /\ number' = [number EXCEPT ![g] = crlNumber + 1]
  /\ GenGoto(g, "sign")
  /\ UNCHANGED <<vars, retired, crlNumber, entries, caEntries, since, due, published>>

\* Mutant: it returns the number before the increment.
NextCRLNumberOld(g) ==
  /\ genPc[g] = "number"
  /\ crlNumber' = crlNumber + 1
  /\ number' = [number EXCEPT ![g] = crlNumber]
  /\ GenGoto(g, "sign")
  /\ UNCHANGED <<vars, retired, entries, caEntries, since, due, published>>

\* NextCRLNumber: one UPDATE ... RETURNING.
NextCRLNumber(g) ==
  /\ genPc[g] = "number"
  /\ crlNumber' = crlNumber + 1
  /\ number' = [number EXCEPT ![g] = crlNumber + 1]
  /\ GenGoto(g, "sign")
  /\ UNCHANGED <<vars, retired, entries, caEntries, since, due, published>>

\* CreateCRL signs, and the caller gets the list.
Publish(g) ==
  /\ genPc[g] = "sign"
  /\ published' = Append(published,
       [number |-> number[g], entries |-> entries[g], caEntries |-> caEntries[g],
        since |-> since[g]])
  /\ GenReturn(g)
  /\ UNCHANGED <<vars, retired, crlNumber>>

\* A statement or the signature fails, the process dies, or the caller is gone;
\* a number that was taken stays taken.
AbandonCRL(g) ==
  /\ genPc[g] # "idle"
  /\ GenReturn(g)
  /\ UNCHANGED <<vars, retired, crlNumber, published>>

GenerateCRL(g) ==
  BeginCRL(g) \/ ReadCertificates(g) \/ ReadCARevocations(g) \/ NextCRLNumber(g) \/ Publish(g)

CrlNext ==
  \/ Next /\ UNCHANGED crlVars
  \/ \E s \in Subordinates \ retired : RecordCARevocation(s)
  \/ \E g \in Generators : GenerateCRL(g) \/ AbandonCRL(g)

CrlSpec == CrlInit /\ [][CrlNext]_<<vars, crlVars>>

---------------------------------------------------------------------------
(* Properties *)

\* What a list says is revoked, and what of it can only go away by deletion.
Listed(l) == {e[1] : e \in l.entries} \cup l.caEntries
ForGood(l) == {e[1] : e \in {d \in l.entries : d[2] # "hold"}} \cup l.caEntries
Deleted == {c \in Certs : status[c] = "deleted"}

\* store.go: two replicas must not "both publish CRL number n+1 for different
\* CRLs".  No number is on two lists, whatever fails.
NumbersAreUnique ==
  \A i, j \in DOMAIN published : published[i].number = published[j].number => i = j

\* README: "--crl regenerates the authority's CRL immediately".  A list whose
\* generation began after a certificate was revoked for good, or a subordinate
\* retired, has it when it is signed, unless its record was deleted: no hold, release, renewal or
\* second revocation going on meanwhile takes it off.
RevokedIsListed ==
  \A g \in Generators : genPc[g] = "sign" =>
    due[g] \subseteq {e[1] : e \in entries[g]} \cup caEntries[g] \cup Deleted

\* A list whose generation began after another was handed out has the higher
\* number, and all that the other had for good.
LaterIsNewer ==
  \A i, j \in DOMAIN published : i <= published[j].since =>
    /\ published[i].number < published[j].number
    /\ ForGood(published[i]) \subseteq Listed(published[j]) \cup Deleted

\* GenerateCRL and NextCRLNumber: whatever fails and whatever is revoked or
\* released meanwhile, a number is on one list only, and of two lists made one
\* after the other the later has the higher number and nothing less.
NumbersTellLists == NumbersAreUnique /\ LaterIsNewer

\* store.go: the number is required "to increase strictly, and relying parties use
\* it to discard stale CRLs".  Of any two lists the one with the higher number has
\* all that the other had for good: who keeps it has not discarded the newer one.
HigherIsNewer ==
  \A i, j \in DOMAIN published : published[i].number < published[j].number =>
    ForGood(published[i]) \subseteq Listed(published[j]) \cup Deleted
=============================================================================
