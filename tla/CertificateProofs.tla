------------------------- MODULE CertificateProofs -------------------------
(***************************************************************************)
(* What the runs of CertStatus and of CrlPublication check on one or two   *)
(* certificates and two calls of GenerateCRL, for any certificates,        *)
(* subordinates, requests and calls, and any number of lists.              *)
(***************************************************************************)
EXTENDS CrlPublication, FiniteSetTheorems, SequenceTheorems, TLAPS

---------------------------------------------------------------------------
(* The status of certificates *)

\* The two halves of TypeOK: the rows of the table, the locals of the requests.
Rows ==
  /\ status \in [Certs -> {"none", "active", "revoked", "deleted"}]
  /\ code \in [Certs -> Reasons \cup {"none"}]
  /\ \A c \in Certs : code[c] # "none" <=> status[c] = "revoked"
  /\ from \in [Certs -> Certs \cup {NoCert}]
  /\ permanent \in SUBSET Certs

Locals ==
  /\ pc \in [Requests -> PCs]
  /\ cert \in [Requests -> Certs \cup {NoCert}]
  /\ new \in [Requests -> Certs \cup {NoCert}]
  /\ reason \in [Requests -> Reasons]
  /\ supersede \in [Requests -> BOOLEAN]
  /\ todo \in [Requests -> SUBSET Certs]

\* What a request knows of the certificates it works on.
Working(r) ==
  /\ pc[r] \in {"revoke", "relRead", "relWrite", "renLink", "renRevoke"} => cert[r] \in Certs
  /\ cert[r] \in Certs => status[cert[r]] # "none"
  /\ pc[r] \in {"relRead", "relWrite"} => r \in Releasers
  /\ reason[r] # "superseded"

\* A Release that has seen a hold still finds one, or the record is gone:
\* only a Release lifts a hold, and RevokeCertificate does not touch one.
HoldStays(r) ==
  pc[r] = "relWrite" => status[cert[r]] = "deleted" \/ code[cert[r]] = "hold"

\* The replacement a renewal has issued is its own, and once linked stays so.
Replacing(r) ==
  pc[r] \in {"renLink", "renRevoke"} =>
    /\ new[r] \in Certs
    /\ new[r] # cert[r]
    /\ status[new[r]] # "none"
    /\ pc[r] = "renRevoke" => from[new[r]] = cert[r]

\* A replacement is linked once, so a link is never overwritten.
LinkedOnce ==
  /\ \A c \in Certs : status[c] = "none" => from[c] = NoCert
  /\ \A r \in Requests : pc[r] = "renLink" => from[new[r]] = NoCert
  /\ \A r, s \in Requests :
       r # s /\ pc[r] \in {"renLink", "renRevoke"} /\ pc[s] \in {"renLink", "renRevoke"}
         => new[r] # new[s]

PermanentKnown == \A c \in permanent : status[c] # "none"

\* One Release at a time.
OneReleaser == \A r, s \in Releasers : r = s

\* Every step keeps the types, and a certificate revoked exactly while it has a reason.
LEMMA TypeStep ==
  ASSUME TypeOK, \A r \in Requests : Working(r), [Next]_vars
  PROVE  TypeOK'
<1> USE StatusAssumption DEF TypeOK, Working, PCs, Reasons, certVars, reqVars
<1>1. ASSUME NEW c \in Certs, DeleteCertificate(c)
      PROVE  TypeOK'
  BY <1>1 DEF DeleteCertificate, Exists
<1>2. ASSUME NEW r \in Requests, BeginIssue(r)
      PROVE  TypeOK'
  BY <1>2 DEF BeginIssue, Goto
<1>3. ASSUME NEW r \in Requests, NEW c \in Certs, BeginHold(r, c)
      PROVE  TypeOK'
  BY <1>3 DEF BeginHold, Goto
<1>4. ASSUME NEW r \in Requests, NEW c \in Certs, BeginRelease(r, c)
      PROVE  TypeOK'
  BY <1>4 DEF BeginRelease, Goto, Exists
<1>5. ASSUME NEW r \in Requests, NEW c \in Certs, NEW b \in BOOLEAN, BeginRenew(r, c, b)
      PROVE  TypeOK'
  BY <1>5 DEF BeginRenew, Goto, Exists
<1>6. ASSUME NEW r \in Requests, NEW c \in Certs,
             NEW why \in {"hold", "keyCompromise"}, BeginRevoke(r, c, why)
      PROVE  TypeOK'
  BY <1>6 DEF BeginRevoke, Goto, Exists, Reasons
<1>7. ASSUME NEW r \in Requests, NEW why \in {"hold", "keyCompromise"}, BeginBulk(r, why)
      PROVE  TypeOK'
  BY <1>7 DEF BeginBulk, Goto, Reasons
<1>8. ASSUME NEW r \in Requests, WriteRevoke(r)
      PROVE  TypeOK'
  BY <1>8 DEF WriteRevoke, Return, Goto, RevokeCertificate, RevokeFails
<1>9. ASSUME NEW r \in Requests, ReleaseRead(r)
      PROVE  TypeOK'
  BY <1>9 DEF ReleaseRead, Return, Goto
<1>10. ASSUME NEW r \in Requests, ReleaseWrite(r)
      PROVE  TypeOK'
  BY <1>10 DEF ReleaseWrite, Return, Goto, Exists
<1>11. ASSUME NEW r \in Requests, Issue(r)
      PROVE  TypeOK'
  <2>1. ASSUME Return(r)
        PROVE  Locals'
    BY <2>1 DEF Return, Goto, Locals
  <2>2. ASSUME NEW c \in Certs, Goto(r, "renLink"), new' = [new EXCEPT ![r] = c],
               UNCHANGED <<cert, reason, supersede, todo>>
        PROVE  Locals'
    BY <2>2 DEF Goto, Locals
  <2>3. ASSUME NEW c \in Certs, status[c] = "none",
               status' = [status EXCEPT ![c] = "active"],
               UNCHANGED <<code, from, permanent>>
        PROVE  Rows'
    BY <2>3 DEF Rows
  <2>4. CASE Return(r) /\ UNCHANGED status
    BY <1>11, <2>1, <2>4 DEF Issue, Rows, Locals
  <2>5. ASSUME NEW c \in Certs, status[c] = "none",
               status' = [status EXCEPT ![c] = "active"],
               \/ Return(r)
               \/ /\ Goto(r, "renLink")
                  /\ new' = [new EXCEPT ![r] = c]
                  /\ UNCHANGED <<cert, reason, supersede, todo>>
        PROVE  Rows' /\ Locals'
    <3>1. UNCHANGED <<code, from, permanent>>
      BY <1>11 DEF Issue
    <3> QED
      BY <2>1, <2>2, <2>3, <2>5, <3>1
  <2>6. Rows' /\ Locals' => TypeOK'
    BY DEF Rows, Locals
  <2> QED
    BY <1>11, <2>4, <2>5, <2>6 DEF Issue
<1>12. ASSUME NEW r \in Requests, RenewLink(r)
      PROVE  TypeOK'
  BY <1>12 DEF RenewLink, Return, Goto
<1>13. ASSUME NEW r \in Requests, RenewRevokeOld(r)
      PROVE  TypeOK'
  BY <1>13 DEF RenewRevokeOld, Return, Goto, RevokeCertificate, RevokeFails, Reasons
<1>14. ASSUME NEW r \in Requests, NEW S \in SUBSET Certs, BulkSelect(r, S)
      PROVE  TypeOK'
  BY <1>14 DEF BulkSelect, Goto
<1>15. ASSUME NEW r \in Requests, BulkRevoke(r)
      PROVE  TypeOK'
  <2>1. ASSUME NEW c \in todo[r], RevokeCertificate(c, reason[r]), UNCHANGED from
        PROVE  Rows'
    BY <2>1 DEF RevokeCertificate, Rows
  <2>2. ASSUME NEW c \in todo[r], todo' = [todo EXCEPT ![r] = @ \ {c}],
               UNCHANGED <<pc, cert, new, reason, supersede>>
        PROVE  Locals'
    BY <2>2 DEF Locals
  <2>3. ASSUME UNCHANGED certVars
        PROVE  Rows'
    BY <2>3 DEF Rows
  <2>4. ASSUME Return(r)
        PROVE  Locals'
    BY <2>4 DEF Return, Goto, Locals
  <2>5. Rows' /\ Locals'
    BY <1>15, <2>1, <2>2, <2>3, <2>4 DEF BulkRevoke, RevokeFails
  <2> QED
    BY <2>5 DEF Rows, Locals
<1>16. ASSUME NEW r \in Requests, Abandon(r)
      PROVE  TypeOK'
  BY <1>16 DEF Abandon, Return, Goto
<1>17. CASE UNCHANGED vars
  BY <1>17 DEF vars
<1> QED
  BY <1>1, <1>2, <1>3, <1>4, <1>5, <1>6, <1>7, <1>8, <1>9, <1>10, <1>11,
     <1>12, <1>13, <1>14, <1>15, <1>16, <1>17
  DEF Next, Begin, Step

\* Every step keeps what requests know of the certificates they work on.
LEMMA WorkingStep ==
  ASSUME TypeOK, \A r \in Requests : Working(r), [Next]_vars
  PROVE  \A q \in Requests : Working(q)'
<1> USE StatusAssumption DEF TypeOK, Working, certVars, reqVars
<1>1. ASSUME NEW c \in Certs, DeleteCertificate(c)
      PROVE  \A q \in Requests : Working(q)'
  BY <1>1 DEF DeleteCertificate, Exists
<1>2. ASSUME NEW r \in Requests, BeginIssue(r)
      PROVE  \A q \in Requests : Working(q)'
  BY <1>2 DEF BeginIssue, Goto
<1>3. ASSUME NEW r \in Requests, NEW c \in Certs, BeginHold(r, c)
      PROVE  \A q \in Requests : Working(q)'
  BY <1>3 DEF BeginHold, Goto
<1>4. ASSUME NEW r \in Requests, NEW c \in Certs, BeginRelease(r, c)
      PROVE  \A q \in Requests : Working(q)'
  BY <1>4 DEF BeginRelease, Goto, Exists
<1>5. ASSUME NEW r \in Requests, NEW c \in Certs, NEW b \in BOOLEAN, BeginRenew(r, c, b)
      PROVE  \A q \in Requests : Working(q)'
  BY <1>5 DEF BeginRenew, Goto, Exists
<1>6. ASSUME NEW r \in Requests, NEW c \in Certs,
             NEW why \in {"hold", "keyCompromise"}, BeginRevoke(r, c, why)
      PROVE  \A q \in Requests : Working(q)'
  BY <1>6 DEF BeginRevoke, Goto, Exists, Reasons
<1>7. ASSUME NEW r \in Requests, NEW why \in {"hold", "keyCompromise"}, BeginBulk(r, why)
      PROVE  \A q \in Requests : Working(q)'
  BY <1>7 DEF BeginBulk, Goto, Reasons
<1>8. ASSUME NEW r \in Requests, WriteRevoke(r)
      PROVE  \A q \in Requests : Working(q)'
  BY <1>8 DEF WriteRevoke, Return, Goto, RevokeCertificate, RevokeFails
<1>9. ASSUME NEW r \in Requests, ReleaseRead(r)
      PROVE  \A q \in Requests : Working(q)'
  BY <1>9 DEF ReleaseRead, Return, Goto
<1>10. ASSUME NEW r \in Requests, ReleaseWrite(r)
      PROVE  \A q \in Requests : Working(q)'
  BY <1>10 DEF ReleaseWrite, Return, Goto, Exists
<1>11. ASSUME NEW r \in Requests, Issue(r)
      PROVE  \A q \in Requests : Working(q)'
  BY <1>11 DEF Issue, Return, Goto
<1>12. ASSUME NEW r \in Requests, RenewLink(r)
      PROVE  \A q \in Requests : Working(q)'
  BY <1>12 DEF RenewLink, Return, Goto
<1>13. ASSUME NEW r \in Requests, RenewRevokeOld(r)
      PROVE  \A q \in Requests : Working(q)'
  BY <1>13 DEF RenewRevokeOld, Return, Goto, RevokeCertificate, RevokeFails, Reasons
<1>14. ASSUME NEW r \in Requests, NEW S \in SUBSET Certs, BulkSelect(r, S)
      PROVE  \A q \in Requests : Working(q)'
  BY <1>14 DEF BulkSelect, Goto
<1>15. ASSUME NEW r \in Requests, BulkRevoke(r)
      PROVE  \A q \in Requests : Working(q)'
  BY <1>15 DEF BulkRevoke, Return, Goto, RevokeCertificate, RevokeFails
<1>16. ASSUME NEW r \in Requests, Abandon(r)
      PROVE  \A q \in Requests : Working(q)'
  BY <1>16 DEF Abandon, Return, Goto
<1>17. CASE UNCHANGED vars
  BY <1>17 DEF vars
<1> QED
  BY <1>1, <1>2, <1>3, <1>4, <1>5, <1>6, <1>7, <1>8, <1>9, <1>10, <1>11,
     <1>12, <1>13, <1>14, <1>15, <1>16, <1>17
  DEF Next, Begin, Step

\* With one Release at a time a hold that was seen stays until it is lifted.
LEMMA HoldStep ==
  ASSUME TypeOK, \A r \in Requests : Working(r),
         OneReleaser, \A r \in Requests : HoldStays(r), [Next]_vars
  PROVE  \A q \in Requests : HoldStays(q)'
<1> USE StatusAssumption DEF TypeOK, Working, HoldStays, OneReleaser, certVars, reqVars
<1>1. ASSUME NEW c \in Certs, DeleteCertificate(c)
      PROVE  \A q \in Requests : HoldStays(q)'
  BY <1>1 DEF DeleteCertificate, Exists
<1>2. ASSUME NEW r \in Requests, BeginIssue(r)
      PROVE  \A q \in Requests : HoldStays(q)'
  BY <1>2 DEF BeginIssue, Goto
<1>3. ASSUME NEW r \in Requests, NEW c \in Certs, BeginHold(r, c)
      PROVE  \A q \in Requests : HoldStays(q)'
  BY <1>3 DEF BeginHold, Goto
<1>4. ASSUME NEW r \in Requests, NEW c \in Certs, BeginRelease(r, c)
      PROVE  \A q \in Requests : HoldStays(q)'
  BY <1>4 DEF BeginRelease, Goto, Exists
<1>5. ASSUME NEW r \in Requests, NEW c \in Certs, NEW b \in BOOLEAN, BeginRenew(r, c, b)
      PROVE  \A q \in Requests : HoldStays(q)'
  BY <1>5 DEF BeginRenew, Goto, Exists
<1>6. ASSUME NEW r \in Requests, NEW c \in Certs,
             NEW why \in {"hold", "keyCompromise"}, BeginRevoke(r, c, why)
      PROVE  \A q \in Requests : HoldStays(q)'
  BY <1>6 DEF BeginRevoke, Goto, Exists, Reasons
<1>7. ASSUME NEW r \in Requests, NEW why \in {"hold", "keyCompromise"}, BeginBulk(r, why)
      PROVE  \A q \in Requests : HoldStays(q)'
  BY <1>7 DEF BeginBulk, Goto, Reasons
<1>8. ASSUME NEW r \in Requests, WriteRevoke(r)
      PROVE  \A q \in Requests : HoldStays(q)'
  BY <1>8 DEF WriteRevoke, Return, Goto, RevokeCertificate, RevokeFails
<1>9. ASSUME NEW r \in Requests, ReleaseRead(r)
      PROVE  \A q \in Requests : HoldStays(q)'
  BY <1>9 DEF ReleaseRead, Return, Goto
<1>10. ASSUME NEW r \in Requests, ReleaseWrite(r)
      PROVE  \A q \in Requests : HoldStays(q)'
  BY <1>10 DEF ReleaseWrite, Return, Goto, Exists
<1>11. ASSUME NEW r \in Requests, Issue(r)
      PROVE  \A q \in Requests : HoldStays(q)'
  BY <1>11 DEF Issue, Return, Goto
<1>12. ASSUME NEW r \in Requests, RenewLink(r)
      PROVE  \A q \in Requests : HoldStays(q)'
  BY <1>12 DEF RenewLink, Return, Goto
<1>13. ASSUME NEW r \in Requests, RenewRevokeOld(r)
      PROVE  \A q \in Requests : HoldStays(q)'
  BY <1>13 DEF RenewRevokeOld, Return, Goto, RevokeCertificate, RevokeFails, Reasons
<1>14. ASSUME NEW r \in Requests, NEW S \in SUBSET Certs, BulkSelect(r, S)
      PROVE  \A q \in Requests : HoldStays(q)'
  BY <1>14 DEF BulkSelect, Goto
<1>15. ASSUME NEW r \in Requests, BulkRevoke(r)
      PROVE  \A q \in Requests : HoldStays(q)'
  BY <1>15 DEF BulkRevoke, Return, Goto, RevokeCertificate, RevokeFails
<1>16. ASSUME NEW r \in Requests, Abandon(r)
      PROVE  \A q \in Requests : HoldStays(q)'
  BY <1>16 DEF Abandon, Return, Goto
<1>17. CASE UNCHANGED vars
  BY <1>17 DEF vars
<1> QED
  BY <1>1, <1>2, <1>3, <1>4, <1>5, <1>6, <1>7, <1>8, <1>9, <1>10, <1>11,
     <1>12, <1>13, <1>14, <1>15, <1>16, <1>17
  DEF Next, Begin, Step

\* The only step that makes a certificate active again finds it on hold.
LEMMA PermanentStep ==
  ASSUME TypeOK, \A r \in Requests : Working(r),
         \A r \in Requests : HoldStays(r), PermanentKnown, PermanentStays, [Next]_vars
  PROVE  (PermanentKnown /\ PermanentStays)'
<1> USE StatusAssumption DEF TypeOK, Working, HoldStays, PermanentKnown, PermanentStays, certVars, reqVars
<1>1. ASSUME NEW c \in Certs, DeleteCertificate(c)
      PROVE  (PermanentKnown /\ PermanentStays)'
  BY <1>1 DEF DeleteCertificate, Exists
<1>2. ASSUME NEW r \in Requests, BeginIssue(r)
      PROVE  (PermanentKnown /\ PermanentStays)'
  BY <1>2 DEF BeginIssue, Goto
<1>3. ASSUME NEW r \in Requests, NEW c \in Certs, BeginHold(r, c)
      PROVE  (PermanentKnown /\ PermanentStays)'
  BY <1>3 DEF BeginHold, Goto
<1>4. ASSUME NEW r \in Requests, NEW c \in Certs, BeginRelease(r, c)
      PROVE  (PermanentKnown /\ PermanentStays)'
  BY <1>4 DEF BeginRelease, Goto, Exists
<1>5. ASSUME NEW r \in Requests, NEW c \in Certs, NEW b \in BOOLEAN, BeginRenew(r, c, b)
      PROVE  (PermanentKnown /\ PermanentStays)'
  BY <1>5 DEF BeginRenew, Goto, Exists
<1>6. ASSUME NEW r \in Requests, NEW c \in Certs,
             NEW why \in {"hold", "keyCompromise"}, BeginRevoke(r, c, why)
      PROVE  (PermanentKnown /\ PermanentStays)'
  BY <1>6 DEF BeginRevoke, Goto, Exists, Reasons
<1>7. ASSUME NEW r \in Requests, NEW why \in {"hold", "keyCompromise"}, BeginBulk(r, why)
      PROVE  (PermanentKnown /\ PermanentStays)'
  BY <1>7 DEF BeginBulk, Goto, Reasons
<1>8. ASSUME NEW r \in Requests, WriteRevoke(r)
      PROVE  (PermanentKnown /\ PermanentStays)'
  BY <1>8 DEF WriteRevoke, Return, Goto, RevokeCertificate, RevokeFails
<1>9. ASSUME NEW r \in Requests, ReleaseRead(r)
      PROVE  (PermanentKnown /\ PermanentStays)'
  BY <1>9 DEF ReleaseRead, Return, Goto
<1>10. ASSUME NEW r \in Requests, ReleaseWrite(r)
      PROVE  (PermanentKnown /\ PermanentStays)'
  BY <1>10 DEF ReleaseWrite, Return, Goto, Exists
<1>11. ASSUME NEW r \in Requests, Issue(r)
      PROVE  (PermanentKnown /\ PermanentStays)'
  BY <1>11 DEF Issue, Return, Goto
<1>12. ASSUME NEW r \in Requests, RenewLink(r)
      PROVE  (PermanentKnown /\ PermanentStays)'
  BY <1>12 DEF RenewLink, Return, Goto
<1>13. ASSUME NEW r \in Requests, RenewRevokeOld(r)
      PROVE  (PermanentKnown /\ PermanentStays)'
  BY <1>13 DEF RenewRevokeOld, Return, Goto, RevokeCertificate, RevokeFails, Reasons
<1>14. ASSUME NEW r \in Requests, NEW S \in SUBSET Certs, BulkSelect(r, S)
      PROVE  (PermanentKnown /\ PermanentStays)'
  BY <1>14 DEF BulkSelect, Goto
<1>15. ASSUME NEW r \in Requests, BulkRevoke(r)
      PROVE  (PermanentKnown /\ PermanentStays)'
  BY <1>15 DEF BulkRevoke, Return, Goto, RevokeCertificate, RevokeFails
<1>16. ASSUME NEW r \in Requests, Abandon(r)
      PROVE  (PermanentKnown /\ PermanentStays)'
  BY <1>16 DEF Abandon, Return, Goto
<1>17. CASE UNCHANGED vars
  BY <1>17 DEF vars
<1> QED
  BY <1>1, <1>2, <1>3, <1>4, <1>5, <1>6, <1>7, <1>8, <1>9, <1>10, <1>11,
     <1>12, <1>13, <1>14, <1>15, <1>16, <1>17
  DEF Next, Begin, Step

\* A replacement belongs to one renewal, which links it once.
LEMMA LinkStep ==
  ASSUME TypeOK, \A r \in Requests : Working(r),
         \A r \in Requests : Replacing(r), LinkedOnce, [Next]_vars
  PROVE  (\A q \in Requests : Replacing(q))' /\ LinkedOnce'
<1> USE StatusAssumption DEF TypeOK, Working, Replacing, LinkedOnce, certVars, reqVars
<1>1. ASSUME NEW c \in Certs, DeleteCertificate(c)
      PROVE  (\A q \in Requests : Replacing(q))' /\ LinkedOnce'
  BY <1>1 DEF DeleteCertificate, Exists
<1>2. ASSUME NEW r \in Requests, BeginIssue(r)
      PROVE  (\A q \in Requests : Replacing(q))' /\ LinkedOnce'
  BY <1>2 DEF BeginIssue, Goto
<1>3. ASSUME NEW r \in Requests, NEW c \in Certs, BeginHold(r, c)
      PROVE  (\A q \in Requests : Replacing(q))' /\ LinkedOnce'
  BY <1>3 DEF BeginHold, Goto
<1>4. ASSUME NEW r \in Requests, NEW c \in Certs, BeginRelease(r, c)
      PROVE  (\A q \in Requests : Replacing(q))' /\ LinkedOnce'
  BY <1>4 DEF BeginRelease, Goto, Exists
<1>5. ASSUME NEW r \in Requests, NEW c \in Certs, NEW b \in BOOLEAN, BeginRenew(r, c, b)
      PROVE  (\A q \in Requests : Replacing(q))' /\ LinkedOnce'
  BY <1>5 DEF BeginRenew, Goto, Exists
<1>6. ASSUME NEW r \in Requests, NEW c \in Certs,
             NEW why \in {"hold", "keyCompromise"}, BeginRevoke(r, c, why)
      PROVE  (\A q \in Requests : Replacing(q))' /\ LinkedOnce'
  BY <1>6 DEF BeginRevoke, Goto, Exists, Reasons
<1>7. ASSUME NEW r \in Requests, NEW why \in {"hold", "keyCompromise"}, BeginBulk(r, why)
      PROVE  (\A q \in Requests : Replacing(q))' /\ LinkedOnce'
  BY <1>7 DEF BeginBulk, Goto, Reasons
<1>8. ASSUME NEW r \in Requests, WriteRevoke(r)
      PROVE  (\A q \in Requests : Replacing(q))' /\ LinkedOnce'
  BY <1>8 DEF WriteRevoke, Return, Goto, RevokeCertificate, RevokeFails
<1>9. ASSUME NEW r \in Requests, ReleaseRead(r)
      PROVE  (\A q \in Requests : Replacing(q))' /\ LinkedOnce'
  BY <1>9 DEF ReleaseRead, Return, Goto
<1>10. ASSUME NEW r \in Requests, ReleaseWrite(r)
      PROVE  (\A q \in Requests : Replacing(q))' /\ LinkedOnce'
  BY <1>10 DEF ReleaseWrite, Return, Goto, Exists
<1>11. ASSUME NEW r \in Requests, Issue(r)
      PROVE  (\A q \in Requests : Replacing(q))' /\ LinkedOnce'
  BY <1>11 DEF Issue, Return, Goto
<1>12. ASSUME NEW r \in Requests, RenewLink(r)
      PROVE  (\A q \in Requests : Replacing(q))' /\ LinkedOnce'
  BY <1>12 DEF RenewLink, Return, Goto
<1>13. ASSUME NEW r \in Requests, RenewRevokeOld(r)
      PROVE  (\A q \in Requests : Replacing(q))' /\ LinkedOnce'
  BY <1>13 DEF RenewRevokeOld, Return, Goto, RevokeCertificate, RevokeFails, Reasons
<1>14. ASSUME NEW r \in Requests, NEW S \in SUBSET Certs, BulkSelect(r, S)
      PROVE  (\A q \in Requests : Replacing(q))' /\ LinkedOnce'
  BY <1>14 DEF BulkSelect, Goto
<1>15. ASSUME NEW r \in Requests, BulkRevoke(r)
      PROVE  (\A q \in Requests : Replacing(q))' /\ LinkedOnce'
  BY <1>15 DEF BulkRevoke, Return, Goto, RevokeCertificate, RevokeFails
<1>16. ASSUME NEW r \in Requests, Abandon(r)
      PROVE  (\A q \in Requests : Replacing(q))' /\ LinkedOnce'
  BY <1>16 DEF Abandon, Return, Goto
<1>17. CASE UNCHANGED vars
  BY <1>17 DEF vars
<1> QED
  BY <1>1, <1>2, <1>3, <1>4, <1>5, <1>6, <1>7, <1>8, <1>9, <1>10, <1>11,
     <1>12, <1>13, <1>14, <1>15, <1>16, <1>17
  DEF Next, Begin, Step

\* A link to what was superseded is never overwritten.
LEMMA SupersededStep ==
  ASSUME TypeOK, \A r \in Requests : Working(r),
         \A r \in Requests : Replacing(r), LinkedOnce, SupersededHasReplacement, [Next]_vars
  PROVE  SupersededHasReplacement'
<1> USE StatusAssumption DEF TypeOK, Working, Replacing, LinkedOnce, SupersededHasReplacement, certVars, reqVars
<1>1. ASSUME NEW c \in Certs, DeleteCertificate(c)
      PROVE  SupersededHasReplacement'
  BY <1>1 DEF DeleteCertificate, Exists
<1>2. ASSUME NEW r \in Requests, BeginIssue(r)
      PROVE  SupersededHasReplacement'
  BY <1>2 DEF BeginIssue, Goto
<1>3. ASSUME NEW r \in Requests, NEW c \in Certs, BeginHold(r, c)
      PROVE  SupersededHasReplacement'
  BY <1>3 DEF BeginHold, Goto
<1>4. ASSUME NEW r \in Requests, NEW c \in Certs, BeginRelease(r, c)
      PROVE  SupersededHasReplacement'
  BY <1>4 DEF BeginRelease, Goto, Exists
<1>5. ASSUME NEW r \in Requests, NEW c \in Certs, NEW b \in BOOLEAN, BeginRenew(r, c, b)
      PROVE  SupersededHasReplacement'
  BY <1>5 DEF BeginRenew, Goto, Exists
<1>6. ASSUME NEW r \in Requests, NEW c \in Certs,
             NEW why \in {"hold", "keyCompromise"}, BeginRevoke(r, c, why)
      PROVE  SupersededHasReplacement'
  BY <1>6 DEF BeginRevoke, Goto, Exists, Reasons
<1>7. ASSUME NEW r \in Requests, NEW why \in {"hold", "keyCompromise"}, BeginBulk(r, why)
      PROVE  SupersededHasReplacement'
  BY <1>7 DEF BeginBulk, Goto, Reasons
<1>8. ASSUME NEW r \in Requests, WriteRevoke(r)
      PROVE  SupersededHasReplacement'
  BY <1>8 DEF WriteRevoke, Return, Goto, RevokeCertificate, RevokeFails
<1>9. ASSUME NEW r \in Requests, ReleaseRead(r)
      PROVE  SupersededHasReplacement'
  BY <1>9 DEF ReleaseRead, Return, Goto
<1>10. ASSUME NEW r \in Requests, ReleaseWrite(r)
      PROVE  SupersededHasReplacement'
  BY <1>10 DEF ReleaseWrite, Return, Goto, Exists
<1>11. ASSUME NEW r \in Requests, Issue(r)
      PROVE  SupersededHasReplacement'
  BY <1>11 DEF Issue, Return, Goto
<1>12. ASSUME NEW r \in Requests, RenewLink(r)
      PROVE  SupersededHasReplacement'
  BY <1>12 DEF RenewLink, Return, Goto
<1>13. ASSUME NEW r \in Requests, RenewRevokeOld(r)
      PROVE  SupersededHasReplacement'
  BY <1>13 DEF RenewRevokeOld, Return, Goto, RevokeCertificate, RevokeFails, Reasons
<1>14. ASSUME NEW r \in Requests, NEW S \in SUBSET Certs, BulkSelect(r, S)
      PROVE  SupersededHasReplacement'
  BY <1>14 DEF BulkSelect, Goto
<1>15. ASSUME NEW r \in Requests, BulkRevoke(r)
      PROVE  SupersededHasReplacement'
  BY <1>15 DEF BulkRevoke, Return, Goto, RevokeCertificate, RevokeFails
<1>16. ASSUME NEW r \in Requests, Abandon(r)
      PROVE  SupersededHasReplacement'
  BY <1>16 DEF Abandon, Return, Goto
<1>17. CASE UNCHANGED vars
  BY <1>17 DEF vars
<1> QED
  BY <1>1, <1>2, <1>3, <1>4, <1>5, <1>6, <1>7, <1>8, <1>9, <1>10, <1>11,
     <1>12, <1>13, <1>14, <1>15, <1>16, <1>17
  DEF Next, Begin, Step

\* What ReasonIsKept says of one step.
KeepsReason ==
  \A d \in Certs : status[d] = "revoked" /\ code[d] # "hold" /\ status'[d] = "revoked" =>
    code'[d] = code[d]

\* RevokeCertificate's WHERE leaves a revoked certificate alone.
LEMMA ReasonStep ==
  ASSUME TypeOK, \A r \in Requests : Working(r), [Next]_vars
  PROVE  KeepsReason
<1> USE StatusAssumption DEF TypeOK, Working, KeepsReason, certVars, reqVars
<1>1. ASSUME NEW c \in Certs, DeleteCertificate(c)
      PROVE  KeepsReason
  BY <1>1 DEF DeleteCertificate, Exists
<1>2. ASSUME NEW r \in Requests, BeginIssue(r)
      PROVE  KeepsReason
  BY <1>2 DEF BeginIssue, Goto
<1>3. ASSUME NEW r \in Requests, NEW c \in Certs, BeginHold(r, c)
      PROVE  KeepsReason
  BY <1>3 DEF BeginHold, Goto
<1>4. ASSUME NEW r \in Requests, NEW c \in Certs, BeginRelease(r, c)
      PROVE  KeepsReason
  BY <1>4 DEF BeginRelease, Goto, Exists
<1>5. ASSUME NEW r \in Requests, NEW c \in Certs, NEW b \in BOOLEAN, BeginRenew(r, c, b)
      PROVE  KeepsReason
  BY <1>5 DEF BeginRenew, Goto, Exists
<1>6. ASSUME NEW r \in Requests, NEW c \in Certs,
             NEW why \in {"hold", "keyCompromise"}, BeginRevoke(r, c, why)
      PROVE  KeepsReason
  BY <1>6 DEF BeginRevoke, Goto, Exists, Reasons
<1>7. ASSUME NEW r \in Requests, NEW why \in {"hold", "keyCompromise"}, BeginBulk(r, why)
      PROVE  KeepsReason
  BY <1>7 DEF BeginBulk, Goto, Reasons
<1>8. ASSUME NEW r \in Requests, WriteRevoke(r)
      PROVE  KeepsReason
  BY <1>8 DEF WriteRevoke, Return, Goto, RevokeCertificate, RevokeFails
<1>9. ASSUME NEW r \in Requests, ReleaseRead(r)
      PROVE  KeepsReason
  BY <1>9 DEF ReleaseRead, Return, Goto
<1>10. ASSUME NEW r \in Requests, ReleaseWrite(r)
      PROVE  KeepsReason
  BY <1>10 DEF ReleaseWrite, Return, Goto, Exists
<1>11. ASSUME NEW r \in Requests, Issue(r)
      PROVE  KeepsReason
  BY <1>11 DEF Issue, Return, Goto
<1>12. ASSUME NEW r \in Requests, RenewLink(r)
      PROVE  KeepsReason
  BY <1>12 DEF RenewLink, Return, Goto
<1>13. ASSUME NEW r \in Requests, RenewRevokeOld(r)
      PROVE  KeepsReason
  BY <1>13 DEF RenewRevokeOld, Return, Goto, RevokeCertificate, RevokeFails, Reasons
<1>14. ASSUME NEW r \in Requests, NEW S \in SUBSET Certs, BulkSelect(r, S)
      PROVE  KeepsReason
  BY <1>14 DEF BulkSelect, Goto
<1>15. ASSUME NEW r \in Requests, BulkRevoke(r)
      PROVE  KeepsReason
  BY <1>15 DEF BulkRevoke, Return, Goto, RevokeCertificate, RevokeFails
<1>16. ASSUME NEW r \in Requests, Abandon(r)
      PROVE  KeepsReason
  BY <1>16 DEF Abandon, Return, Goto
<1>17. CASE UNCHANGED vars
  BY <1>17 DEF vars
<1> QED
  BY <1>1, <1>2, <1>3, <1>4, <1>5, <1>6, <1>7, <1>8, <1>9, <1>10, <1>11,
     <1>12, <1>13, <1>14, <1>15, <1>16, <1>17
  DEF Next, Begin, Step

\* The types, on their own.
LEMMA LocalInvariant == Spec => [](TypeOK /\ \A r \in Requests : Working(r))
<1>1. Init => TypeOK /\ \A r \in Requests : Working(r)
  BY StatusAssumption DEF Init, TypeOK, Working, PCs, Reasons
<1>2. (TypeOK /\ \A r \in Requests : Working(r)) /\ [Next]_vars
        => (TypeOK /\ \A r \in Requests : Working(r))'
  BY TypeStep, WorkingStep
<1> QED
  BY <1>1, <1>2, PTL DEF Spec

\* TypeOK is an invariant: whatever handlers interleave or are abandoned, a
\* certificate row has a reason exactly while it is revoked.
THEOREM StatusTypeCorrect == Spec => []TypeOK
<1> QED
  BY LocalInvariant, PTL

\* README: "Only a hold can be lifted."  With one Release at a time, and any
\* number of other handlers, UnrevokeCertificate never undoes a permanent
\* revocation: the UPDATE is safe although its WHERE does not repeat the check.
THEOREM OnlyHoldsAreLifted ==
  ASSUME OneReleaser
  PROVE  Spec => []PermanentStays
<1> DEFINE Holds == \A r \in Requests : HoldStays(r)
           J == Holds /\ PermanentKnown /\ PermanentStays
<1>1. Init => J
  BY DEF Init, HoldStays, PermanentKnown, PermanentStays
<1>2. (TypeOK /\ \A r \in Requests : Working(r)) /\ J /\ [Next]_vars => J'
  BY OneReleaser, HoldStep, PermanentStep
<1>3. J => PermanentStays
  OBVIOUS
<1> QED
  BY <1>1, <1>2, <1>3, LocalInvariant, PTL DEF Spec

\* Renew: a certificate that a renewal revoked has its replacement, for any
\* number of renewals of the same certificate, and of crashes.
THEOREM RenewalReplaces == Spec => []SupersededHasReplacement
<1> DEFINE J == (\A r \in Requests : Replacing(r)) /\ LinkedOnce /\ SupersededHasReplacement
<1>1. Init => J
  BY DEF Init, Replacing, LinkedOnce, SupersededHasReplacement
<1>2. (TypeOK /\ \A r \in Requests : Working(r)) /\ J /\ [Next]_vars => J'
  BY LinkStep, SupersededStep
<1>3. J => SupersededHasReplacement
  OBVIOUS
<1> QED
  BY <1>1, <1>2, <1>3, LocalInvariant, PTL DEF Spec

\* ReasonIsKept for any number of handlers: the reason of a permanent revocation
\* is never rewritten by a second revocation, a bulk one or a renewal.
THEOREM ReasonsAreKept == Spec => ReasonIsKept
<1>1. (TypeOK /\ \A r \in Requests : Working(r)) /\ [Next]_vars =>
        [\A c \in Certs : status[c] = "revoked" /\ code[c] # "hold" /\ status'[c] = "revoked" =>
           code'[c] = code[c]]_vars
  BY ReasonStep DEF KeepsReason
<1> QED
  BY <1>1, LocalInvariant, PTL DEF Spec, ReasonIsKept

---------------------------------------------------------------------------
(* The lists *)

\* The calls that have still to take a number, and those that have one.
Pending == {g \in Generators : genPc[g] \in {"certs", "cas", "number"}}
Signing == {g \in Generators : genPc[g] = "sign"}

\* Every number is on at most one list or in the hands of one call, and
\* MaxCRL leaves one to each call in flight.
Counting ==
  /\ crlNumber + Cardinality(Pending) <= MaxCRL
  /\ Len(published) + Cardinality(Signing) <= crlNumber
  /\ \A g \in Signing : number[g] \in 1 .. crlNumber

\* Where the numbers are: no two calls or lists share one, and what was out
\* when a call began has a lower one.
NumberInv ==
  /\ \A i \in DOMAIN published : published[i].number <= crlNumber /\ published[i].since < i
  /\ \A g \in Generators : since[g] <= Len(published)
  /\ \A g, h \in Signing : number[g] = number[h] => g = h
  /\ \A g \in Signing, i \in DOMAIN published :
       /\ published[i].number # number[g]
       /\ i <= since[g] => published[i].number < number[g]
  /\ NumbersAreUnique
  /\ \A i, j \in DOMAIN published :
       i <= published[j].since => published[i].number < published[j].number

Named(E) == {e[1] : e \in E}
Lasting(E) == {e \in E : e[2] # "hold"}

\* A revocation for good is in the ghost: permanent is all that PermanentStays
\* is about.
Recorded == \A c \in Certs : code[c] \in Reasons \ {"hold"} => c \in permanent

\* The certificates, whatever their handlers do.
CertInv ==
  /\ TypeOK
  /\ \A r \in Requests : Working(r) /\ HoldStays(r)
  /\ PermanentKnown /\ PermanentStays /\ Recorded

\* What is read or published says only what was true.
Truthful ==
  /\ \A g \in Generators : Named(Lasting(entries[g])) \subseteq permanent /\ caEntries[g] \subseteq retired
  /\ \A i \in DOMAIN published :
       Named(Lasting(published[i].entries)) \subseteq permanent /\ published[i].caEntries \subseteq retired

\* A call has, of each table it has read, all that earlier lists had for good,
\* and all that was due when it began.
Covers(g) ==
  /\ genPc[g] = "certs" => due[g] \subseteq permanent \cup retired
  /\ genPc[g] \in {"cas", "number", "sign"} =>
       \A i \in DOMAIN published : i <= since[g] =>
         Named(Lasting(published[i].entries)) \subseteq Named(entries[g]) \cup Deleted
  /\ genPc[g] = "cas" => due[g] \subseteq Named(entries[g]) \cup Deleted \cup retired
  /\ genPc[g] \in {"number", "sign"} =>
       /\ due[g] \subseteq Named(entries[g]) \cup Deleted \cup caEntries[g]
       /\ \A i \in DOMAIN published : i <= since[g] => published[i].caEntries \subseteq caEntries[g]

\* Of two lists made one after the other the later has nothing less.
ListsCover ==
  \A i, j \in DOMAIN published : i <= published[j].since =>
    /\ Named(Lasting(published[i].entries)) \subseteq Named(published[j].entries) \cup Deleted
    /\ published[i].caEntries \subseteq published[j].caEntries

ContentInv == Truthful /\ (\A g \in Generators : Covers(g)) /\ ListsCover

---------------------------------------------------------------------------
(* Types and counting *)

List == [number : 1 .. MaxCRL, entries : SUBSET Entry,
         caEntries : SUBSET Subordinates, since : 0 .. MaxCRL]

\* The calls in flight can be counted.
LEMMA Countable ==
  /\ IsFiniteSet(Pending) /\ Cardinality(Pending) \in Nat
  /\ IsFiniteSet(Signing) /\ Cardinality(Signing) \in Nat
  /\ Cardinality(Pending') \in Nat /\ Cardinality(Signing') \in Nat
<1>1. /\ Pending \subseteq Generators /\ Pending' \subseteq Generators
      /\ Signing \subseteq Generators /\ Signing' \subseteq Generators
  BY DEF Pending, Signing
<1> QED
  BY <1>1, CrlAssumption, FS_Subset, FS_CardinalityType

\* How many are pending and signing, when one call moves.
LEMMA CountMove ==
  ASSUME CrlTypeOK, NEW g \in Generators,
         NEW label \in {"idle", "certs", "cas", "number", "sign"}, GenGoto(g, label)
  PROVE  /\ Cardinality(Pending') = Cardinality(Pending)
              - (IF g \in Pending THEN 1 ELSE 0)
              + (IF label \in {"certs", "cas", "number"} THEN 1 ELSE 0)
         /\ Cardinality(Signing') = Cardinality(Signing)
              - (IF g \in Signing THEN 1 ELSE 0) + (IF label = "sign" THEN 1 ELSE 0)
<1> DEFINE busy == {"certs", "cas", "number"}
<1>1. genPc' = [genPc EXCEPT ![g] = label] /\ genPc \in [Generators -> busy \cup {"idle", "sign"}]
  BY DEF GenGoto, CrlTypeOK
<1>2. Pending' = IF label \in busy THEN (Pending \ {g}) \cup {g} ELSE Pending \ {g}
  BY <1>1 DEF Pending
<1>3. Signing' = IF label = "sign" THEN (Signing \ {g}) \cup {g} ELSE Signing \ {g}
  BY <1>1 DEF Signing
<1>4. /\ IsFiniteSet(Pending \ {g})
      /\ Cardinality(Pending \ {g}) = Cardinality(Pending) - (IF g \in Pending THEN 1 ELSE 0)
  BY Countable, FS_RemoveElement
<1>5. /\ IsFiniteSet(Signing \ {g})
      /\ Cardinality(Signing \ {g}) = Cardinality(Signing) - (IF g \in Signing THEN 1 ELSE 0)
  BY Countable, FS_RemoveElement
<1>6. Cardinality((Pending \ {g}) \cup {g}) = Cardinality(Pending \ {g}) + 1
  BY <1>4, FS_AddElement
<1>7. Cardinality((Signing \ {g}) \cup {g}) = Cardinality(Signing \ {g}) + 1
  BY <1>5, FS_AddElement
<1> QED
  BY <1>2, <1>3, <1>4, <1>5, <1>6, <1>7, Countable

\* Every step keeps the types, a number for each call in flight, and no more
\* lists than numbers.
LEMMA CrlTypeStep ==
  ASSUME CrlTypeOK, Counting, [CrlNext]_<<vars, crlVars>>
  PROVE  (CrlTypeOK /\ Counting)'
<1> USE CrlAssumption, Countable DEF CrlTypeOK, Counting, genVars
<1>1. CASE UNCHANGED crlVars
  BY <1>1 DEF crlVars, Pending, Signing
<1>2. ASSUME NEW s \in Subordinates, RecordCARevocation(s)
      PROVE  (CrlTypeOK /\ Counting)'
  BY <1>2 DEF RecordCARevocation, Pending, Signing
<1>3. ASSUME NEW g \in Generators, BeginCRL(g)
      PROVE  (CrlTypeOK /\ Counting)'
  <2>1. Cardinality(Pending') = Cardinality(Pending) + 1 /\ Cardinality(Signing') = Cardinality(Signing)
    <3>1. GenGoto(g, "certs")
      BY <1>3 DEF BeginCRL
    <3>2. g \notin Pending /\ g \notin Signing
      BY <1>3 DEF BeginCRL, Pending, Signing
    <3> QED
      BY <3>1, <3>2, CountMove
  <2>2. crlNumber + Cardinality(Pending) < MaxCRL
    BY <1>3 DEF BeginCRL, Pending
  <2>3. Len(published) \in 0 .. MaxCRL
    OBVIOUS
  <2>4. Counting'
    BY <1>3, <2>1, <2>2 DEF BeginCRL, GenGoto, Signing
  <2> QED
    BY <1>3, <2>3, <2>4 DEF BeginCRL, GenGoto
<1>4. ASSUME NEW g \in Generators, ReadCertificates(g)
      PROVE  (CrlTypeOK /\ Counting)'
  <2>1. Cardinality(Pending') = Cardinality(Pending) /\ Cardinality(Signing') = Cardinality(Signing)
    <3>1. GenGoto(g, "cas")
      BY <1>4 DEF ReadCertificates
    <3>2. g \in Pending /\ g \notin Signing
      BY <1>4 DEF ReadCertificates, Pending, Signing
    <3> QED
      BY <3>1, <3>2, CountMove
  <2>2. Counting'
    BY <1>4, <2>1 DEF ReadCertificates, GenGoto, Signing
  <2>3. RevokedCertificates \in SUBSET Entry
    BY DEF RevokedCertificates
  <2> QED
    BY <1>4, <2>2, <2>3 DEF ReadCertificates, GenGoto
<1>5. ASSUME NEW g \in Generators, ReadCARevocations(g)
      PROVE  (CrlTypeOK /\ Counting)'
  <2>1. Cardinality(Pending') = Cardinality(Pending) /\ Cardinality(Signing') = Cardinality(Signing)
    <3>1. GenGoto(g, "number")
      BY <1>5 DEF ReadCARevocations
    <3>2. g \in Pending /\ g \notin Signing
      BY <1>5 DEF ReadCARevocations, Pending, Signing
    <3> QED
      BY <3>1, <3>2, CountMove
  <2>2. Counting'
    BY <1>5, <2>1 DEF ReadCARevocations, GenGoto, Signing
  <2> QED
    BY <1>5, <2>2 DEF ReadCARevocations, GenGoto
<1>6. ASSUME NEW g \in Generators, NextCRLNumber(g)
      PROVE  (CrlTypeOK /\ Counting)'
  <2>1. /\ Cardinality(Pending') = Cardinality(Pending) - 1
        /\ Cardinality(Signing') = Cardinality(Signing) + 1
    <3>1. GenGoto(g, "sign")
      BY <1>6 DEF NextCRLNumber
    <3>2. g \in Pending /\ g \notin Signing
      BY <1>6 DEF NextCRLNumber, Pending, Signing
    <3> QED
      BY <3>1, <3>2, CountMove
  <2>2. Cardinality(Pending') \in Nat
    BY Countable
  <2>3. Counting'
    BY <1>6, <2>1 DEF NextCRLNumber, GenGoto, Signing
  <2> QED
    BY <1>6, <2>1, <2>2, <2>3 DEF NextCRLNumber, GenGoto
<1>7. ASSUME NEW g \in Generators, GenReturn(g),
             UNCHANGED <<retired, crlNumber, published>>
      PROVE  (CrlTypeOK /\ Counting)'
  <2>1. /\ Cardinality(Pending') <= Cardinality(Pending)
        /\ Cardinality(Signing') <= Cardinality(Signing)
    <3>1. GenGoto(g, "idle")
      BY <1>7 DEF GenReturn
    <3>2. /\ Cardinality(Pending') = Cardinality(Pending) - (IF g \in Pending THEN 1 ELSE 0) + 0
          /\ Cardinality(Signing') = Cardinality(Signing) - (IF g \in Signing THEN 1 ELSE 0) + 0
      BY <3>1, CountMove
    <3> QED
      BY <3>2, Countable
  <2>2. \A h \in Signing' : h \in Signing /\ number'[h] = number[h]
    BY <1>7 DEF GenReturn, GenGoto, Signing
  <2>3. Counting'
    <3>1. Len(published) \in Nat /\ published' = published /\ crlNumber' = crlNumber /\ crlNumber \in Nat
      BY <1>7
    <3>2. /\ crlNumber' + Cardinality(Pending') <= MaxCRL
          /\ Len(published') + Cardinality(Signing') <= crlNumber'
      BY <2>1, <3>1, Countable
    <3>3. \A h \in Signing' : number'[h] \in 1 .. crlNumber'
      BY <2>2, <3>1
    <3> QED
      BY <3>2, <3>3
  <2> QED
    BY <1>7, <2>3 DEF GenReturn, GenGoto
<1>8. ASSUME NEW g \in Generators, Publish(g)
      PROVE  (CrlTypeOK /\ Counting)'
  <2> DEFINE l == [number |-> number[g], entries |-> entries[g], caEntries |-> caEntries[g],
                   since |-> since[g]]
  <2>1. /\ Cardinality(Pending') = Cardinality(Pending)
        /\ Cardinality(Signing') = Cardinality(Signing) - 1
    <3>1. GenGoto(g, "idle")
      BY <1>8 DEF Publish, GenReturn
    <3>2. g \in Signing /\ g \notin Pending
      BY <1>8 DEF Publish, Pending, Signing
    <3> QED
      BY <3>1, <3>2, CountMove
  <2>2. l \in List /\ published \in Seq(List)
    BY <1>8 DEF Publish, Signing, List
  <2>3. published' = Append(published, l)
    BY <1>8 DEF Publish
  <2>4. published' \in Seq(List) /\ Len(published') = Len(published) + 1
    BY <2>2, <2>3, AppendProperties
  <2>5. Counting'
    BY <1>8, <2>1, <2>4 DEF Publish, GenReturn, GenGoto, Signing
  <2> QED
    BY <1>8, <2>4, <2>5 DEF Publish, GenReturn, GenGoto, List
<1> QED
  BY <1>1, <1>2, <1>3, <1>4, <1>5, <1>6, <1>7, <1>8
  DEF CrlNext, GenerateCRL, AbandonCRL, crlVars

\* CrlTypeOK is an invariant: however many calls are in flight, are abandoned
\* or fail, the number stays within MaxCRL and every list has one of its own.
THEOREM CrlTypeCorrect == CrlSpec => []CrlTypeOK
<1>1. CrlInit => CrlTypeOK /\ Counting
  <2> SUFFICES ASSUME CrlInit PROVE CrlTypeOK /\ Counting
    OBVIOUS
  <2>1. Pending = {} /\ Signing = {}
    BY DEF CrlInit, Pending, Signing
  <2> QED
    BY <2>1, CrlAssumption, FS_EmptySet DEF CrlInit, CrlTypeOK, Counting
<1>2. (CrlTypeOK /\ Counting) /\ [CrlNext]_<<vars, crlVars>> => (CrlTypeOK /\ Counting)'
  BY CrlTypeStep
<1> QED
  BY <1>1, <1>2, PTL DEF CrlSpec

---------------------------------------------------------------------------
(* Numbers *)

\* What Publish does to the lists: one more, all the others as they were.
LEMMA PublishAppends ==
  ASSUME CrlTypeOK, Counting, NEW g \in Generators, Publish(g)
  PROVE  /\ Len(published) \in Nat
         /\ DOMAIN published = 1 .. Len(published)
         /\ DOMAIN published' = 1 .. Len(published) + 1
         /\ Len(published') = Len(published) + 1
         /\ \A i \in DOMAIN published : published'[i] = published[i]
         /\ published'[Len(published) + 1] =
              [number |-> number[g], entries |-> entries[g], caEntries |-> caEntries[g],
               since |-> since[g]]
<1> DEFINE l == [number |-> number[g], entries |-> entries[g], caEntries |-> caEntries[g],
                 since |-> since[g]]
<1>1. l \in List /\ published \in Seq(List) /\ published' = Append(published, l)
  BY CrlAssumption DEF Publish, CrlTypeOK, Counting, Signing, List
<1>2. published' \in Seq(List)
  BY <1>1, AppendProperties
<1> QED
  BY <1>1, <1>2, AppendProperties, LenProperties

\* The locals of a call that returns are reset, and those of the others stay.
LEMMA Returned ==
  ASSUME CrlTypeOK, NEW g \in Generators, GenReturn(g)
  PROVE  /\ genPc'[g] = "idle" /\ since'[g] = 0 /\ entries'[g] = {} /\ caEntries'[g] = {}
         /\ \A h \in Generators \ {g} :
              /\ genPc'[h] = genPc[h] /\ entries'[h] = entries[h] /\ caEntries'[h] = caEntries[h]
              /\ number'[h] = number[h] /\ since'[h] = since[h] /\ due'[h] = due[h]
         /\ Signing' = Signing \ {g}
BY DEF GenReturn, GenGoto, CrlTypeOK, Signing

\* Every step keeps the numbers apart and in the order of the lists.
LEMMA NumberStep ==
  ASSUME CrlTypeOK, Counting, NumberInv, [CrlNext]_<<vars, crlVars>>
  PROVE  NumberInv'
<1>0. Len(published) \in Nat /\ DOMAIN published = 1 .. Len(published)
  BY DEF CrlTypeOK
<1>0a. /\ \A i \in DOMAIN published : published[i].number \in Nat /\ published[i].since \in Nat
       /\ \A g \in Generators : number[g] \in Nat /\ since[g] \in Nat
       /\ crlNumber \in Nat
  <2>1. published \in Seq(List)
    BY DEF CrlTypeOK, List
  <2>2. \A i \in DOMAIN published : published[i] \in List
    BY <1>0, <2>1, ElementOfSeq
  <2>3. \A l \in List : l.number \in Nat /\ l.since \in Nat
    BY CrlAssumption DEF List
  <2>4. /\ \A g \in Generators : number[g] \in Nat /\ since[g] \in Nat
        /\ crlNumber \in Nat
    BY CrlAssumption DEF CrlTypeOK
  <2> QED
    BY <2>2, <2>3, <2>4
<1>1. CASE UNCHANGED crlVars
  BY <1>1 DEF crlVars, genVars, NumberInv, NumbersAreUnique, Signing
<1>2. ASSUME NEW s \in Subordinates, RecordCARevocation(s)
      PROVE  NumberInv'
  BY <1>2 DEF RecordCARevocation, genVars, NumberInv, NumbersAreUnique, Signing
<1>3. ASSUME NEW g \in Generators, BeginCRL(g)
      PROVE  NumberInv'
  <2>1. Signing' = Signing /\ g \notin Signing
    BY <1>3 DEF BeginCRL, GenGoto, CrlTypeOK, Signing
  <2>2. /\ since'[g] = Len(published)
        /\ \A h \in Generators \ {g} : since'[h] = since[h]
        /\ UNCHANGED <<number, crlNumber, published>>
    BY <1>3 DEF BeginCRL, CrlTypeOK
  <2>3. \A h \in Signing : h \in Generators \ {g}
    BY <2>1 DEF Signing
  <2> QED
    BY <1>0, <2>1, <2>2, <2>3 DEF NumberInv, NumbersAreUnique
<1>4. ASSUME NEW g \in Generators, ReadCertificates(g)
      PROVE  NumberInv'
  <2>1. Signing' = Signing
    BY <1>4 DEF ReadCertificates, GenGoto, CrlTypeOK, Signing
  <2> QED
    BY <1>4, <2>1 DEF ReadCertificates, NumberInv, NumbersAreUnique
<1>5. ASSUME NEW g \in Generators, ReadCARevocations(g)
      PROVE  NumberInv'
  <2>1. Signing' = Signing
    BY <1>5 DEF ReadCARevocations, GenGoto, CrlTypeOK, Signing
  <2> QED
    BY <1>5, <2>1 DEF ReadCARevocations, NumberInv, NumbersAreUnique
<1>6. ASSUME NEW g \in Generators, NextCRLNumber(g)
      PROVE  NumberInv'
  <2>1. Signing' = Signing \cup {g} /\ g \notin Signing
    BY <1>6 DEF NextCRLNumber, GenGoto, CrlTypeOK, Signing
  <2>2. /\ number'[g] = crlNumber + 1
        /\ \A h \in Signing : number'[h] = number[h] /\ number[h] <= crlNumber /\ h \in Generators
        /\ crlNumber' = crlNumber + 1
        /\ UNCHANGED <<since, published>>
    BY <1>6, <2>1 DEF NextCRLNumber, CrlTypeOK, Counting, Signing
  <2>3. \A h, k \in Signing' : number'[h] = number'[k] => h = k
    BY <1>0a, <2>1, <2>2 DEF NumberInv
  <2>4. \A i \in DOMAIN published : published[i].number < crlNumber + 1
    BY <1>0a DEF NumberInv
  <2>5. \A h \in Signing', i \in DOMAIN published' :
          /\ published'[i].number # number'[h]
          /\ i <= since'[h] => published'[i].number < number'[h]
    BY <1>0a, <2>1, <2>2, <2>4 DEF NumberInv
  <2>6. \A i \in DOMAIN published' : published'[i].number <= crlNumber' /\ published'[i].since < i
    BY <1>0, <1>0a, <2>2, <2>4 DEF NumberInv
  <2> QED
    BY <2>2, <2>3, <2>5, <2>6 DEF NumberInv, NumbersAreUnique
<1>7. ASSUME NEW g \in Generators, GenReturn(g), UNCHANGED <<crlNumber, published>>
      PROVE  NumberInv'
  <2>1. \A h \in Signing' : h \in Signing /\ number'[h] = number[h] /\ since'[h] = since[h]
    BY <1>7, Returned DEF Signing
  <2>2. \A h \in Generators : since'[h] <= Len(published)
    BY <1>0, <1>7, Returned DEF NumberInv
  <2> QED
    BY <1>7, <2>1, <2>2 DEF NumberInv, NumbersAreUnique
<1>8. ASSUME NEW g \in Generators, Publish(g)
      PROVE  NumberInv'
  <2> DEFINE n == Len(published)
  <2>1. /\ DOMAIN published' = 1 .. n + 1 /\ Len(published') = n + 1
        /\ \A i \in DOMAIN published : published'[i] = published[i]
        /\ published'[n + 1].number = number[g] /\ published'[n + 1].since = since[g]
    <3> DEFINE l == [number |-> number[g], entries |-> entries[g], caEntries |-> caEntries[g],
                     since |-> since[g]]
    <3>1. published'[n + 1] = l
      BY <1>8, PublishAppends
    <3>2. l.number = number[g] /\ l.since = since[g]
      OBVIOUS
    <3>3. /\ DOMAIN published' = 1 .. n + 1 /\ Len(published') = n + 1
          /\ \A i \in DOMAIN published : published'[i] = published[i]
      BY <1>8, PublishAppends
    <3> QED
      BY <3>1, <3>2, <3>3
  <2>2. GenReturn(g) /\ crlNumber' = crlNumber /\ g \in Signing
    BY <1>8 DEF Publish, Signing
  <2>3. /\ \A h \in Signing' : h \in Signing /\ h # g /\ number'[h] = number[h] /\ since'[h] = since[h]
        /\ since'[g] = 0 /\ \A h \in Generators \ {g} : since'[h] = since[h]
    BY <2>2, Returned DEF Signing
  <2>4. number[g] <= crlNumber /\ since[g] <= n
    BY <2>2 DEF Counting, NumberInv
  <2>5. \A i \in DOMAIN published' : i = n + 1 \/ i \in DOMAIN published
    BY <1>0, <2>1
  <2>6. \A i \in DOMAIN published' : published'[i].number <= crlNumber' /\ published'[i].since < i
    BY <1>0, <1>0a, <2>1, <2>2, <2>4, <2>5 DEF NumberInv
  <2>7. \A h \in Generators : since'[h] <= Len(published')
    BY <1>0, <1>0a, <2>1, <2>3 DEF NumberInv
  <2>8. \A h, k \in Signing' : number'[h] = number'[k] => h = k
    BY <2>3 DEF NumberInv
  <2>9. \A h \in Signing', i \in DOMAIN published' :
          /\ published'[i].number # number'[h]
          /\ i <= since'[h] => published'[i].number < number'[h]
    <3> SUFFICES ASSUME NEW h \in Signing', NEW i \in DOMAIN published'
                 PROVE  /\ published'[i].number # number'[h]
                        /\ i <= since'[h] => published'[i].number < number'[h]
      OBVIOUS
    <3>1. CASE i \in DOMAIN published
      BY <2>1, <2>3, <3>1 DEF NumberInv
    <3>2. CASE i = n + 1
      <4>1. since[h] <= n /\ since[h] \in Nat
        BY <1>0a, <2>3 DEF NumberInv, Signing
      <4>2. number[g] # number[h]
        BY <2>2, <2>3 DEF NumberInv
      <4> QED
        BY <1>0, <2>1, <2>3, <3>2, <4>1, <4>2
    <3> QED
      BY <2>5, <3>1, <3>2
  <2>10. \A i \in DOMAIN published : published[i].number # number[g]
    BY <2>2 DEF NumberInv
  <2>11. NumbersAreUnique'
    BY <1>0, <2>1, <2>5, <2>10 DEF NumberInv, NumbersAreUnique
  <2>12. \A i, j \in DOMAIN published' :
           i <= published'[j].since => published'[i].number < published'[j].number
    <3> SUFFICES ASSUME NEW i \in DOMAIN published', NEW j \in DOMAIN published',
                        i <= published'[j].since
                 PROVE  published'[i].number < published'[j].number
      OBVIOUS
    <3>1. CASE j = n + 1
      <4>1. i <= since[g] /\ i \in DOMAIN published
        BY <1>0, <1>0a, <2>1, <2>4, <3>1
      <4> QED
        BY <2>1, <2>2, <3>1, <4>1 DEF NumberInv
    <3>2. CASE j \in DOMAIN published
      <4>1. i \in DOMAIN published
        BY <1>0, <1>0a, <2>1, <3>2 DEF NumberInv
      <4> QED
        BY <2>1, <3>2, <4>1 DEF NumberInv
    <3> QED
      BY <2>5, <3>1, <3>2
  <2> QED
    BY <2>6, <2>7, <2>8, <2>9, <2>11, <2>12 DEF NumberInv
<1> QED
  BY <1>1, <1>2, <1>3, <1>4, <1>5, <1>6, <1>7, <1>8
  DEF CrlNext, GenerateCRL, AbandonCRL, crlVars

---------------------------------------------------------------------------
(* Contents *)

\* What a revocation for good or a deletion has done is not undone, and every
\* revocation for good is recorded.
Lasts == Recorded' /\ permanent \subseteq permanent' /\ Deleted \subseteq Deleted'

\* Only RevokeCertificate gives a reason, and no statement brings a row back.
LEMMA RecordStep ==
  ASSUME TypeOK, \A r \in Requests : Working(r), Recorded, [Next]_vars
  PROVE  Lasts
<1> USE StatusAssumption DEF TypeOK, Working, Recorded, Lasts, Deleted, certVars, reqVars
<1>1. ASSUME NEW c \in Certs, DeleteCertificate(c)
      PROVE  Lasts
  BY <1>1 DEF DeleteCertificate, Exists, Reasons
<1>2. ASSUME NEW r \in Requests, Begin(r)
      PROVE  Lasts
  <2>1. UNCHANGED certVars
    BY <1>2 DEF Begin, BeginIssue, BeginHold, BeginRelease, BeginRenew, BeginRevoke, BeginBulk
  <2> QED
    BY <2>1
<1>3. ASSUME NEW c \in Certs, NEW why \in Reasons, RevokeCertificate(c, why)
      PROVE  Lasts
  BY <1>3 DEF RevokeCertificate, Reasons
<1>4. CASE RevokeFails
  BY <1>4 DEF RevokeFails
<1>5. ASSUME NEW r \in Requests, WriteRevoke(r)
      PROVE  Lasts
  BY <1>3, <1>4, <1>5 DEF WriteRevoke
<1>6. ASSUME NEW r \in Requests, ReleaseWrite(r)
      PROVE  Lasts
  BY <1>6 DEF ReleaseWrite, Exists, Reasons
<1>7. ASSUME NEW r \in Requests, Issue(r)
      PROVE  Lasts
  BY <1>7 DEF Issue
<1>8. ASSUME NEW r \in Requests, RenewRevokeOld(r)
      PROVE  Lasts
  <2>1. cert[r] \in Certs /\ "superseded" \in Reasons
    BY <1>8 DEF RenewRevokeOld, Reasons
  <2> QED
    BY <1>3, <1>4, <1>8, <2>1 DEF RenewRevokeOld
<1>9. ASSUME NEW r \in Requests, BulkRevoke(r)
      PROVE  Lasts
  BY <1>3, <1>4, <1>9 DEF BulkRevoke
<1>10. ASSUME NEW r \in Requests,
              \/ ReleaseRead(r) \/ RenewLink(r) \/ Abandon(r)
              \/ \E S \in SUBSET Certs : BulkSelect(r, S)
       PROVE  Lasts
  <2>1. UNCHANGED <<status, code, permanent>>
    BY <1>10 DEF ReleaseRead, RenewLink, Abandon, BulkSelect
  <2> QED
    BY <2>1
<1>11. CASE UNCHANGED vars
  BY <1>11 DEF vars
<1> QED
  BY <1>1, <1>2, <1>5, <1>6, <1>7, <1>8, <1>9, <1>10, <1>11 DEF Next, Step

\* The invariants of CertStatus hold here too, and what they protect lasts.
LEMMA CertStep ==
  ASSUME OneReleaser, CertInv, [Next]_vars
  PROVE  CertInv' /\ permanent \subseteq permanent' /\ Deleted \subseteq Deleted'
<1>1. TypeOK' /\ \A r \in Requests : Working(r)'
  BY TypeStep, WorkingStep DEF CertInv
<1>2. \A r \in Requests : HoldStays(r)'
  BY HoldStep DEF CertInv
<1>3. (PermanentKnown /\ PermanentStays)'
  BY PermanentStep DEF CertInv
<1>4. Lasts
  BY RecordStep DEF CertInv
<1> QED
  BY <1>1, <1>2, <1>3, <1>4 DEF CertInv, Lasts

\* All that was ever revoked for good is deleted or among what a call reads.
LEMMA ReadHasPermanent ==
  ASSUME CertInv
  PROVE  permanent \subseteq Named(RevokedCertificates) \cup Deleted
<1> SUFFICES ASSUME NEW c \in permanent, c \notin Deleted
             PROVE  c \in Named(RevokedCertificates)
  OBVIOUS
<1>1. c \in Certs /\ status[c] = "revoked"
  BY DEF CertInv, PermanentStays, TypeOK, Deleted
<1>2. code[c] \in Reasons
  BY <1>1 DEF CertInv, TypeOK
<1>3. <<c, code[c]>> \in RevokedCertificates
  BY <1>1, <1>2 DEF RevokedCertificates, Entry
<1> QED
  BY <1>3 DEF Named

\* What a call reads as revoked for good is recorded as such.
LEMMA ReadIsPermanent ==
  ASSUME CertInv
  PROVE  Named(Lasting(RevokedCertificates)) \subseteq permanent
<1> SUFFICES ASSUME NEW e \in RevokedCertificates, e[2] # "hold"
             PROVE  e[1] \in permanent
  BY DEF Named, Lasting
<1>1. e[1] \in Certs /\ e[2] \in Reasons /\ e[2] = code[e[1]]
  BY DEF RevokedCertificates, Entry
<1> QED
  BY <1>1 DEF CertInv, Recorded

\* Every step keeps what lists and calls have: what is handed out later has
\* nothing less.
LEMMA ContentStep ==
  ASSUME OneReleaser, CrlTypeOK, Counting, NumberInv, CertInv, ContentInv,
         [CrlNext]_<<vars, crlVars>>
  PROVE  CertInv' /\ ContentInv'
<1>0. Len(published) \in Nat /\ DOMAIN published = 1 .. Len(published)
  BY DEF CrlTypeOK
<1>1. ASSUME [Next]_vars, UNCHANGED crlVars
      PROVE  CertInv' /\ ContentInv'
  <2>1. CertInv' /\ permanent \subseteq permanent' /\ Deleted \subseteq Deleted'
    BY <1>1, CertStep
  <2>2. Truthful'
    BY <1>1, <2>1 DEF crlVars, genVars, ContentInv, Truthful
  <2>3. \A g \in Generators : Covers(g)'
    BY <1>1, <2>1 DEF crlVars, genVars, ContentInv, Covers
  <2>4. ListsCover'
    BY <1>1, <2>1 DEF crlVars, ContentInv, ListsCover
  <2> QED
    BY <2>1, <2>2, <2>3, <2>4 DEF ContentInv
<1>2. ASSUME UNCHANGED vars
      PROVE  CertInv' /\ permanent' = permanent /\ Deleted' = Deleted
             /\ RevokedCertificates' = RevokedCertificates
  BY <1>2 DEF vars, certVars, reqVars, CertInv, TypeOK, Working, HoldStays, PermanentKnown,
       PermanentStays, Recorded, Deleted, RevokedCertificates
<1>3. ASSUME NEW s \in Subordinates, RecordCARevocation(s)
      PROVE  CertInv' /\ ContentInv'
  <2>1. CertInv' /\ permanent' = permanent /\ Deleted' = Deleted
    BY <1>2, <1>3 DEF RecordCARevocation
  <2>2. retired \subseteq retired' /\ UNCHANGED <<genPc, genVars, published>>
    BY <1>3 DEF RecordCARevocation
  <2>3. Truthful'
    BY <2>1, <2>2 DEF genVars, ContentInv, Truthful
  <2>4. \A g \in Generators : Covers(g)'
    BY <2>1, <2>2 DEF genVars, ContentInv, Covers
  <2>5. ListsCover'
    BY <2>1, <2>2 DEF ContentInv, ListsCover
  <2> QED
    BY <2>1, <2>3, <2>4, <2>5 DEF ContentInv
<1>4. ASSUME NEW g \in Generators, BeginCRL(g)
      PROVE  CertInv' /\ ContentInv'
  <2>1. CertInv' /\ permanent' = permanent /\ Deleted' = Deleted
    BY <1>2, <1>4 DEF BeginCRL
  <2>2. UNCHANGED <<retired, entries, caEntries, published>>
    BY <1>4 DEF BeginCRL
  <2>3. Truthful' /\ ListsCover'
    BY <2>1, <2>2 DEF ContentInv, Truthful, ListsCover
  <2>4. /\ genPc'[g] = "certs"
        /\ due'[g] = {c \in Certs : status[c] = "revoked" /\ code[c] # "hold"} \cup retired
        /\ \A h \in Generators \ {g} :
             genPc'[h] = genPc[h] /\ since'[h] = since[h] /\ due'[h] = due[h]
    BY <1>4 DEF BeginCRL, GenGoto, CrlTypeOK
  <2>5. {c \in Certs : status[c] = "revoked" /\ code[c] # "hold"} \subseteq permanent
    BY DEF CertInv, TypeOK, Recorded
  <2>6. Covers(g)'
    BY <2>1, <2>2, <2>4, <2>5 DEF Covers
  <2>7. \A h \in Generators \ {g} : Covers(h)'
    BY <2>1, <2>2, <2>4 DEF ContentInv, Covers
  <2> QED
    BY <2>1, <2>3, <2>6, <2>7 DEF ContentInv
<1>5. ASSUME NEW g \in Generators, ReadCertificates(g)
      PROVE  CertInv' /\ ContentInv'
  <2>1. CertInv' /\ permanent' = permanent /\ Deleted' = Deleted
    BY <1>2, <1>5 DEF ReadCertificates
  <2>2. UNCHANGED <<retired, caEntries, since, due, published>>
    BY <1>5 DEF ReadCertificates
  <2>3. /\ genPc[g] = "certs" /\ genPc'[g] = "cas" /\ entries'[g] = RevokedCertificates
        /\ \A h \in Generators \ {g} : genPc'[h] = genPc[h] /\ entries'[h] = entries[h]
    BY <1>5 DEF ReadCertificates, GenGoto, CrlTypeOK
  <2>4. Truthful' /\ ListsCover'
    BY <2>1, <2>2, <2>3, ReadIsPermanent DEF ContentInv, Truthful, ListsCover
  <2>5. Covers(g)'
    BY <2>1, <2>2, <2>3, ReadHasPermanent DEF ContentInv, Truthful, Covers
  <2>6. \A h \in Generators \ {g} : Covers(h)'
    BY <2>1, <2>2, <2>3 DEF ContentInv, Covers
  <2> QED
    BY <2>1, <2>4, <2>5, <2>6 DEF ContentInv
<1>6. ASSUME NEW g \in Generators, ReadCARevocations(g)
      PROVE  CertInv' /\ ContentInv'
  <2>1. CertInv' /\ permanent' = permanent /\ Deleted' = Deleted
    BY <1>2, <1>6 DEF ReadCARevocations
  <2>2. UNCHANGED <<retired, entries, since, due, published>>
    BY <1>6 DEF ReadCARevocations
  <2>3. /\ genPc[g] = "cas" /\ genPc'[g] = "number" /\ caEntries'[g] = retired
        /\ \A h \in Generators \ {g} : genPc'[h] = genPc[h] /\ caEntries'[h] = caEntries[h]
    BY <1>6 DEF ReadCARevocations, GenGoto, CrlTypeOK
  <2>4. Truthful' /\ ListsCover'
    BY <2>1, <2>2, <2>3 DEF ContentInv, Truthful, ListsCover
  <2>5. Covers(g)'
    BY <2>1, <2>2, <2>3 DEF ContentInv, Truthful, Covers
  <2>6. \A h \in Generators \ {g} : Covers(h)'
    BY <2>1, <2>2, <2>3 DEF ContentInv, Covers
  <2> QED
    BY <2>1, <2>4, <2>5, <2>6 DEF ContentInv
<1>7. ASSUME NEW g \in Generators, NextCRLNumber(g)
      PROVE  CertInv' /\ ContentInv'
  <2>1. CertInv' /\ permanent' = permanent /\ Deleted' = Deleted
    BY <1>2, <1>7 DEF NextCRLNumber
  <2>2. UNCHANGED <<retired, entries, caEntries, since, due, published>>
    BY <1>7 DEF NextCRLNumber
  <2>3. /\ genPc[g] = "number" /\ genPc'[g] = "sign"
        /\ \A h \in Generators \ {g} : genPc'[h] = genPc[h]
    BY <1>7 DEF NextCRLNumber, GenGoto, CrlTypeOK
  <2>4. Truthful' /\ ListsCover'
    BY <2>1, <2>2 DEF ContentInv, Truthful, ListsCover
  <2>5. \A h \in Generators : Covers(h)'
    BY <2>1, <2>2, <2>3 DEF ContentInv, Covers
  <2> QED
    BY <2>1, <2>4, <2>5 DEF ContentInv
<1>8. ASSUME NEW g \in Generators, AbandonCRL(g)
      PROVE  CertInv' /\ ContentInv'
  <2>1. CertInv' /\ permanent' = permanent /\ Deleted' = Deleted
    BY <1>2, <1>8 DEF AbandonCRL
  <2>2. GenReturn(g) /\ UNCHANGED <<retired, published>>
    BY <1>8 DEF AbandonCRL
  <2>3. Truthful'
    BY <2>1, <2>2, Returned DEF ContentInv, Truthful, Named, Lasting
  <2>4. Covers(g)' /\ ListsCover'
    BY <2>1, <2>2, Returned DEF ContentInv, Covers, ListsCover
  <2>5. \A h \in Generators \ {g} : Covers(h)'
    BY <2>1, <2>2, Returned DEF ContentInv, Covers
  <2> QED
    BY <2>1, <2>3, <2>4, <2>5 DEF ContentInv
<1>9. ASSUME NEW g \in Generators, Publish(g)
      PROVE  CertInv' /\ ContentInv'
  <2> DEFINE n == Len(published)
             l == [number |-> number[g], entries |-> entries[g], caEntries |-> caEntries[g],
                   since |-> since[g]]
  <2>1. CertInv' /\ permanent' = permanent /\ Deleted' = Deleted
    BY <1>2, <1>9 DEF Publish
  <2>2. GenReturn(g) /\ retired' = retired /\ genPc[g] = "sign"
    BY <1>9 DEF Publish
  <2>3. /\ DOMAIN published' = 1 .. n + 1 /\ published'[n + 1] = l
        /\ \A i \in DOMAIN published : published'[i] = published[i]
    BY <1>9, PublishAppends
  <2>4. l.entries = entries[g] /\ l.caEntries = caEntries[g] /\ l.since = since[g]
    OBVIOUS
  <2> HIDE DEF l
  <2>5. \A i \in DOMAIN published' : i = n + 1 \/ i \in DOMAIN published
    BY <1>0, <2>3
  <2>6. \A h \in Generators : since[h] \in Nat /\ since[h] <= n
    BY CrlAssumption DEF CrlTypeOK, NumberInv
  <2>7. Truthful'
    <3>1. \A h \in Generators :
            Named(Lasting(entries'[h])) \subseteq permanent /\ caEntries'[h] \subseteq retired
      BY <2>2, Returned DEF ContentInv, Truthful, Named, Lasting
    <3>2. \A i \in DOMAIN published' :
            /\ Named(Lasting(published'[i].entries)) \subseteq permanent
            /\ published'[i].caEntries \subseteq retired
      BY <2>3, <2>4, <2>5 DEF ContentInv, Truthful
    <3> QED
      BY <2>1, <2>2, <3>1, <3>2 DEF Truthful
  <2>8. Covers(g)'
    BY <2>2, Returned DEF Covers
  <2>9. ASSUME NEW h \in Generators \ {g}
        PROVE  Covers(h)'
    <3>1. \A i \in DOMAIN published' : i <= since[h] => i \in DOMAIN published
      BY <1>0, <2>3, <2>6
    <3>2. /\ genPc'[h] = genPc[h] /\ entries'[h] = entries[h] /\ caEntries'[h] = caEntries[h]
          /\ since'[h] = since[h] /\ due'[h] = due[h]
      BY <2>2, Returned
    <3>3. Covers(h)
      BY DEF ContentInv
    <3> QED
      BY <2>1, <2>2, <2>3, <3>1, <3>2, <3>3 DEF Covers
  <2>10. ListsCover'
    <3> SUFFICES ASSUME NEW i \in DOMAIN published', NEW j \in DOMAIN published',
                        i <= published'[j].since
                 PROVE  /\ Named(Lasting(published'[i].entries))
                             \subseteq Named(published'[j].entries) \cup Deleted
                        /\ published'[i].caEntries \subseteq published'[j].caEntries
      BY <2>1 DEF ListsCover
    <3>1. CASE j = n + 1
      <4>1. i <= since[g] /\ i \in DOMAIN published
        BY <1>0, <2>3, <2>4, <2>6, <3>1
      <4>2. Covers(g)
        BY DEF ContentInv
      <4> QED
        BY <2>2, <2>3, <2>4, <3>1, <4>1, <4>2 DEF Covers
    <3>2. CASE j \in DOMAIN published
      <4>1. published[j].since < j /\ published'[j] = published[j]
        BY <2>3, <3>2 DEF NumberInv
      <4>2. published[j].since \in Nat
        <5>1. published[j] \in List
          BY <1>0, <3>2, ElementOfSeq DEF CrlTypeOK, List
        <5> QED
          BY <5>1, CrlAssumption DEF List
      <4>3. i \in DOMAIN published
        BY <1>0, <2>3, <3>2, <4>1, <4>2
      <4> QED
        BY <2>3, <3>2, <4>1, <4>3 DEF ContentInv, ListsCover
    <3> QED
      BY <2>5, <3>1, <3>2
  <2> QED
    BY <2>1, <2>7, <2>8, <2>9, <2>10 DEF ContentInv
<1>10. CASE UNCHANGED <<vars, crlVars>>
  BY <1>1, <1>10
<1>11. CASE CrlNext
  BY <1>1, <1>3, <1>4, <1>5, <1>6, <1>7, <1>8, <1>9, <1>11 DEF CrlNext, GenerateCRL
<1> QED
  BY <1>10, <1>11

---------------------------------------------------------------------------
(* Theorems *)

CrlInv == CrlTypeOK /\ Counting /\ NumberInv /\ CertInv /\ ContentInv

\* With one Release at a time the whole invariant is kept.
LEMMA CrlInvariant ==
  ASSUME OneReleaser
  PROVE  CrlSpec => []CrlInv
<1>1. CrlInit => CrlInv
  <2> SUFFICES ASSUME CrlInit PROVE CrlInv
    OBVIOUS
  <2>1. Pending = {} /\ Signing = {}
    BY DEF CrlInit, Pending, Signing
  <2>2. CrlTypeOK /\ Counting
    BY <2>1, CrlAssumption, FS_EmptySet DEF CrlInit, CrlTypeOK, Counting
  <2>3. NumberInv
    BY <2>1 DEF CrlInit, NumberInv, NumbersAreUnique
  <2>4. CertInv
    BY StatusAssumption DEF CrlInit, Init, CertInv, TypeOK, Working, HoldStays, PermanentKnown,
         PermanentStays, Recorded, PCs, Reasons
  <2>5. ContentInv
    BY DEF CrlInit, ContentInv, Truthful, Covers, ListsCover, Named, Lasting
  <2> QED
    BY <2>2, <2>3, <2>4, <2>5 DEF CrlInv
<1>2. CrlInv /\ [CrlNext]_<<vars, crlVars>> => CrlInv'
  BY OneReleaser, CrlTypeStep, NumberStep, ContentStep DEF CrlInv
<1> QED
  BY <1>1, <1>2, PTL DEF CrlSpec

\* NextCRLNumber: "both publish CRL number n+1" cannot happen, whatever is
\* revoked or released meanwhile and by however many handlers at once.
THEOREM NumbersUnique == CrlSpec => []NumbersAreUnique
<1> DEFINE J == CrlTypeOK /\ Counting /\ NumberInv
<1>1. CrlInit => J
  <2> SUFFICES ASSUME CrlInit PROVE J
    OBVIOUS
  <2>1. Pending = {} /\ Signing = {}
    BY DEF CrlInit, Pending, Signing
  <2> QED
    BY <2>1, CrlAssumption, FS_EmptySet
    DEF CrlInit, CrlTypeOK, Counting, NumberInv, NumbersAreUnique
<1>2. J /\ [CrlNext]_<<vars, crlVars>> => J'
  BY CrlTypeStep, NumberStep
<1>3. J => NumbersAreUnique
  BY DEF NumberInv
<1> QED
  BY <1>1, <1>2, <1>3, PTL DEF CrlSpec

\* NumbersTellLists for any number of calls, replicas and revocations: a number
\* is on one list only, and a list whose generation began after another was
\* handed out has the higher number and all that the other had for good.
THEOREM NumbersOrderLists ==
  ASSUME OneReleaser
  PROVE  CrlSpec => []NumbersTellLists
<1>1. CrlInv => NumbersTellLists
  <2> SUFFICES ASSUME CrlInv, NEW i \in DOMAIN published, NEW j \in DOMAIN published,
                      i <= published[j].since
               PROVE  /\ published[i].number < published[j].number
                      /\ ForGood(published[i]) \subseteq Listed(published[j]) \cup Deleted
    BY DEF CrlInv, NumberInv, NumbersTellLists, LaterIsNewer
  <2>1. published[i].number < published[j].number
    BY DEF CrlInv, NumberInv
  <2>2. /\ Named(Lasting(published[i].entries)) \subseteq Named(published[j].entries) \cup Deleted
        /\ published[i].caEntries \subseteq published[j].caEntries
    BY DEF CrlInv, ContentInv, ListsCover
  <2>3. /\ ForGood(published[i]) = Named(Lasting(published[i].entries)) \cup published[i].caEntries
        /\ Listed(published[j]) = Named(published[j].entries) \cup published[j].caEntries
    BY DEF ForGood, Listed, Named, Lasting
  <2> QED
    BY <2>1, <2>2, <2>3
<1> QED
  BY <1>1, CrlInvariant, PTL

\* RevokedIsListed for any number of calls, replicas and revocations: what was
\* revoked for good before GenerateCRL was called is on the list it signs,
\* unless its record was deleted meanwhile.
THEOREM RevocationsAreListed ==
  ASSUME OneReleaser
  PROVE  CrlSpec => []RevokedIsListed
<1>1. CrlInv => RevokedIsListed
  BY DEF CrlInv, ContentInv, Covers, Named, RevokedIsListed
<1> QED
  BY <1>1, CrlInvariant, PTL
=============================================================================
