----------------------------- MODULE CertStatus -----------------------------
(***************************************************************************)
(* The status of certificates: Issue and Revoke (internal/ca/service.go),  *)
(* Renew, Hold, Release and BulkRevoke (internal/ca/lifecycle.go) over the *)
(* certificates table (internal/store/store.go).                           *)
(*                                                                         *)
(* Every handler is a sequence of SQL statements, each atomic; handlers of *)
(* all the replicas and of the CLI interleave between them, and a handler  *)
(* can be abandoned between two of them.  Which authority signs, and       *)
(* whether it may, is the subject of CaRetirement.                         *)
(***************************************************************************)
EXTENDS Naturals, FiniteSets

CONSTANTS
  Certs,       \* certificates that may be issued
  NoCert,
  Requests,    \* handlers in flight
  Releasers    \* the requests that may be a Release

ASSUME StatusAssumption ==
  NoCert \notin Certs /\ Releasers \subseteq Requests

VARIABLES
  status,      \* certificates.status; "none" before the row, "deleted" after
  code,        \* certificates.revoke_code; "none" when not revoked
  from,        \* certificates.renewed_from
  pc,          \* the next statement of each request
  cert,        \* the certificate a request is about; NoCert for a plain Issue
  new,         \* the certificate it has issued
  reason,      \* the reason it revokes with
  supersede,   \* a renewal that has to revoke the old certificate in the end
  todo,        \* the certificates a bulk revocation has still to revoke
  permanent    \* ghost: the certificates ever revoked for another reason than hold

certVars == <<status, code, from, permanent>>
reqVars == <<cert, new, reason, supersede, todo>>
vars == <<certVars, pc, reqVars>>

\* "superseded" stands for the revocation a renewal makes; an operator's
\* revocation, whatever its permanent reason, is "keyCompromise".
Reasons == {"hold", "superseded", "keyCompromise"}

PCs == {"idle", "revoke", "relRead", "relWrite", "issue", "renLink", "renRevoke",
        "bulk", "sweep"}

TypeOK ==
  /\ status \in [Certs -> {"none", "active", "revoked", "deleted"}]
  /\ code \in [Certs -> Reasons \cup {"none"}]
  /\ \A c \in Certs : code[c] # "none" <=> status[c] = "revoked"
  /\ from \in [Certs -> Certs \cup {NoCert}]
  /\ pc \in [Requests -> PCs]
  /\ cert \in [Requests -> Certs \cup {NoCert}]
  /\ new \in [Requests -> Certs \cup {NoCert}]
  /\ reason \in [Requests -> Reasons]
  /\ supersede \in [Requests -> BOOLEAN]
  /\ todo \in [Requests -> SUBSET Certs]
  /\ permanent \in SUBSET Certs

Init ==
  /\ status = [c \in Certs |-> "none"]
  /\ code = [c \in Certs |-> "none"]
  /\ from = [c \in Certs |-> NoCert]
  /\ pc = [r \in Requests |-> "idle"]
  /\ cert = [r \in Requests |-> NoCert]
  /\ new = [r \in Requests |-> NoCert]
  /\ reason = [r \in Requests |-> "hold"]
  /\ supersede = [r \in Requests |-> FALSE]
  /\ todo = [r \in Requests |-> {}]
  /\ permanent = {}

Goto(r, label) == pc' = [pc EXCEPT ![r] = label]

\* The handler returns; its locals are gone.
Return(r) ==
  /\ Goto(r, "idle")
  /\ cert' = [cert EXCEPT ![r] = NoCert]
  /\ new' = [new EXCEPT ![r] = NoCert]
  /\ reason' = [reason EXCEPT ![r] = "hold"]
  /\ supersede' = [supersede EXCEPT ![r] = FALSE]
  /\ todo' = [todo EXCEPT ![r] = {}]

Exists(c) == status[c] \in {"active", "revoked"}

\* Mutant: a certificate that is revoked already is revoked once more.
RevokeCertificateAgain(c, why) ==
  /\ Exists(c)
  /\ status' = [status EXCEPT ![c] = "revoked"]
  /\ code' = [code EXCEPT ![c] = why]
  /\ permanent' = IF why = "hold" THEN permanent ELSE permanent \cup {c}

\* RevokeCertificate: one UPDATE, of a certificate that is not revoked.
RevokeCertificate(c, why) ==
  /\ status[c] = "active"
  /\ status' = [status EXCEPT ![c] = "revoked"]
  /\ code' = [code EXCEPT ![c] = why]
  /\ permanent' = IF why = "hold" THEN permanent ELSE permanent \cup {c}

\* It finds no such row, or the database fails.
RevokeFails == UNCHANGED <<status, code, permanent>>

---------------------------------------------------------------------------
(* Revoke, Hold, Release and Delete *)

\* Revoke: GetCertificate finds the certificate, whatever its status.
BeginRevoke(r, c, why) ==
  /\ pc[r] = "idle"
  /\ Exists(c)
  /\ Goto(r, "revoke")
  /\ cert' = [cert EXCEPT ![r] = c]
  /\ reason' = [reason EXCEPT ![r] = why]
  /\ UNCHANGED <<certVars, new, supersede, todo>>

\* Hold refuses what is revoked when it looks, then revokes with reason hold.
BeginHold(r, c) ==
  /\ pc[r] = "idle"
  /\ status[c] = "active"
  /\ Goto(r, "revoke")
  /\ cert' = [cert EXCEPT ![r] = c]
  /\ UNCHANGED <<certVars, new, reason, supersede, todo>>

WriteRevoke(r) ==
  /\ pc[r] = "revoke"
  /\ Return(r)
  /\ RevokeCertificate(cert[r], reason[r]) \/ RevokeFails
  /\ UNCHANGED from

\* Release: GetCertificate finds the certificate.
BeginRelease(r, c) ==
  /\ r \in Releasers
  /\ pc[r] = "idle"
  /\ Exists(c)
  /\ Goto(r, "relRead")
  /\ cert' = [cert EXCEPT ![r] = c]
  /\ UNCHANGED <<certVars, new, reason, supersede, todo>>

\* Mutant: any revocation can be lifted.
ReleaseReadAnyReason(r) ==
  /\ pc[r] = "relRead"
  /\ IF status[cert[r]] = "revoked" THEN Goto(r, "relWrite") /\ UNCHANGED reqVars ELSE Return(r)
  /\ UNCHANGED certVars

\* UnrevokeCertificate's SELECT and the checks of what it returns.
ReleaseRead(r) ==
  /\ pc[r] = "relRead"
  /\ IF code[cert[r]] = "hold" THEN Goto(r, "relWrite") /\ UNCHANGED reqVars ELSE Return(r)
  /\ UNCHANGED certVars

\* Mutant: the UPDATE leaves the reason behind.
ReleaseWriteKeepCode(r) ==
  /\ pc[r] = "relWrite"
  /\ Return(r)
  /\ status' = [status EXCEPT ![cert[r]] = IF Exists(cert[r]) THEN "active" ELSE @]
  /\ UNCHANGED <<code, from, permanent>>

\* UnrevokeCertificate's UPDATE, whose WHERE names the certificate only.
ReleaseWrite(r) ==
  LET c == cert[r] IN
  /\ pc[r] = "relWrite"
  /\ Return(r)
  /\ status' = [status EXCEPT ![c] = IF Exists(c) THEN "active" ELSE @]
  /\ code' = [code EXCEPT ![c] = "none"]
  /\ UNCHANGED <<from, permanent>>

DeleteCertificate(c) ==
  /\ Exists(c)
  /\ status' = [status EXCEPT ![c] = "deleted"]
  /\ code' = [code EXCEPT ![c] = "none"]
  /\ UNCHANGED <<from, permanent, pc, reqVars>>

---------------------------------------------------------------------------
(* Issue and Renew *)

BeginIssue(r) ==
  /\ pc[r] = "idle"
  /\ Goto(r, "issue")
  /\ UNCHANGED <<certVars, reqVars>>

\* Renew reads the old certificate, whatever its status; a revoked one is not
\* revoked again in the end.
BeginRenew(r, c, revokeOld) ==
  /\ pc[r] = "idle"
  /\ Exists(c)
  /\ Goto(r, "issue")
  /\ cert' = [cert EXCEPT ![r] = c]
  /\ supersede' = [supersede EXCEPT ![r] = revokeOld /\ status[c] # "revoked"]
  /\ UNCHANGED <<certVars, new, reason, todo>>

\* Issue: the request is refused, or CreateCertificate stores the certificate.
Issue(r) ==
  /\ pc[r] = "issue"
  /\ \/ Return(r) /\ UNCHANGED status
     \/ \E c \in Certs :
          /\ status[c] = "none"
          /\ status' = [status EXCEPT ![c] = "active"]
          /\ IF cert[r] = NoCert THEN Return(r)
             ELSE /\ Goto(r, "renLink")
                  /\ new' = [new EXCEPT ![r] = c]
                  /\ UNCHANGED <<cert, reason, supersede, todo>>
  /\ UNCHANGED <<code, from, permanent>>

\* Mutant: the replacement is not linked to what it replaces.
RenewLinkNothing(r) ==
  /\ pc[r] = "renLink"
  /\ IF supersede[r] THEN Goto(r, "renRevoke") /\ UNCHANGED reqVars ELSE Return(r)
  /\ UNCHANGED certVars

\* SetRenewedFrom.  Without RevokeOld, or if the update fails, Renew is over.
RenewLink(r) ==
  /\ pc[r] = "renLink"
  /\ \/ /\ from' = [from EXCEPT ![new[r]] = cert[r]]
        /\ IF supersede[r] THEN Goto(r, "renRevoke") /\ UNCHANGED reqVars ELSE Return(r)
     \/ Return(r) /\ UNCHANGED from
  /\ UNCHANGED <<status, code, permanent>>

\* The old certificate is revoked as superseded.
RenewRevokeOld(r) ==
  /\ pc[r] = "renRevoke"
  /\ Return(r)
  /\ RevokeCertificate(cert[r], "superseded") \/ RevokeFails
  /\ UNCHANGED from

---------------------------------------------------------------------------
(* BulkRevoke *)

BeginBulk(r, why) ==
  /\ pc[r] = "idle"
  /\ Goto(r, "bulk")
  /\ reason' = [reason EXCEPT ![r] = why]
  /\ UNCHANGED <<certVars, cert, new, supersede, todo>>

\* One read of the selection, a certificate by its id or a search.  What is
\* revoked when it is read is skipped.
BulkSelect(r, S) ==
  /\ pc[r] = "bulk"
  /\ \A c \in S : Exists(c)
  /\ todo' = [todo EXCEPT ![r] = @ \cup {c \in S : status[c] # "revoked"}]
  /\ Goto(r, "bulk") \/ Goto(r, "sweep")
  /\ UNCHANGED <<certVars, cert, new, reason, supersede>>

\* RevokeCertificate for one of them; a failure is noted and the loop goes on.
BulkRevoke(r) ==
  /\ pc[r] = "sweep"
  /\ \/ \E c \in todo[r] :
          /\ todo' = [todo EXCEPT ![r] = @ \ {c}]
          /\ RevokeCertificate(c, reason[r]) \/ RevokeFails
          /\ UNCHANGED <<from, pc, cert, new, reason, supersede>>
     \/ todo[r] = {} /\ Return(r) /\ UNCHANGED certVars

\* The process dies, or the caller's context is cancelled.
Abandon(r) ==
  /\ pc[r] # "idle"
  /\ Return(r)
  /\ UNCHANGED certVars

Begin(r) ==
  \/ BeginIssue(r)
  \/ \E c \in Certs : BeginHold(r, c) \/ BeginRelease(r, c)
  \/ \E c \in Certs, revokeOld \in BOOLEAN : BeginRenew(r, c, revokeOld)
  \/ \E c \in Certs, why \in {"hold", "keyCompromise"} : BeginRevoke(r, c, why)
  \/ \E why \in {"hold", "keyCompromise"} : BeginBulk(r, why)

Step(r) ==
  \/ WriteRevoke(r) \/ ReleaseRead(r) \/ ReleaseWrite(r)
  \/ Issue(r) \/ RenewLink(r) \/ RenewRevokeOld(r)
  \/ (\E S \in SUBSET Certs : BulkSelect(r, S))
  \/ BulkRevoke(r)

Next ==
  \/ \E c \in Certs : DeleteCertificate(c)
  \/ \E r \in Requests : Begin(r) \/ Step(r) \/ Abandon(r)

Spec == Init /\ [][Next]_vars

---------------------------------------------------------------------------
(* Properties *)

\* README: "Only a hold can be lifted.  Every other reason is a permanent
\* statement about the certificate, and goca will not undo it."  A certificate
\* ever revoked for another reason than hold stays revoked for such a reason,
\* until its record is deleted.
PermanentStays ==
  \A c \in permanent : status[c] = "deleted" \/ (status[c] = "revoked" /\ code[c] # "hold")

\* A permanent revocation keeps its reason: neither a bulk revocation, a renewal
\* nor a second revocation rewrites it.
ReasonIsKept ==
  [][\A c \in Certs : status[c] = "revoked" /\ code[c] # "hold" /\ status'[c] = "revoked" =>
        code'[c] = code[c]]_vars

\* A certificate that a renewal revoked has its replacement: nobody is left
\* without a certificate by a renewal that fails or is abandoned halfway.
SupersededHasReplacement ==
  \A c \in Certs : code[c] = "superseded" =>
    \E d \in Certs : d # c /\ from[d] = c /\ status[d] # "none"
=============================================================================
