-------------------------- MODULE AcmeOrdersProofs --------------------------
(***************************************************************************)
(* Proofs about AcmeOrders for any number of orders, accounts, credentials *)
(* and concurrent requests.  The inductive invariant says what a request   *)
(* that won a claim may rely on: it is alone, its order was not completed  *)
(* by anyone else, and the certificates issued for it are the ones it has  *)
(* issued itself.                                                          *)
(***************************************************************************)
EXTENDS AcmeOrders, TLAPS

\* r won the claim of an order and has not finished with it.
Holds(r) == pc[r] \in {"finIssue", "finFail", "finLink"}

\* Two requests never hold the claim of the same order.
HoldsAlone ==
  \A r, s \in Requests : Holds(r) /\ Holds(s) /\ order[r] = order[s] => r = s

\* Nobody holds an order that can still be claimed, or one that is complete.
Unheld ==
  \A r \in Requests : Holds(r) => status[order[r]] \in {"processing", "invalid"}

\* No certificate was issued for an order that can still be claimed, none yet
\* for the one about to be issued for, exactly one for the one to complete.
Certificates ==
  /\ \A o \in Orders : /\ issued[o] \in {0, 1}
                       /\ status[o] \in {"none", "ready"} => issued[o] = 0
                       /\ link[o] = IF status[o] = "valid" THEN issued[o] ELSE 0
                       /\ status[o] = "valid" => issued[o] = 1
  /\ \A r \in Requests : /\ pc[r] = "finIssue" => issued[order[r]] = 0
                         /\ pc[r] = "finLink" => issued[order[r]] = 1

Claimed ==
  \A o \in Orders : status[o] = "processing" =>
    o \in stuck \/ \E r \in Requests : Holds(r) /\ order[r] = o

IInv == TypeOK /\ HoldsAlone /\ Unheld /\ Certificates /\ Claimed

\* The requests past the checks of the account and of the order's owner.
Owned ==
  \A r \in Requests :
    pc[r] \in {"finReject", "finCred", "finClaim", "finIssue", "finFail", "finLink"} =>
      status[order[r]] # "none" /\ acct[r] = owner[order[r]]

\* A reason to refuse a request still holds while it is recorded, and the
\* requests past a check were not refused by it.
Barred ==
  \A r \in Requests :
    /\ "account" \in barred[r] =>
         acct[r] \in deactivated /\ pc[r] \in {"idle", "newAuth", "finAuth"}
    /\ "credential" \in barred[r] =>
         /\ CredOf[acct[r]] \in disabled
         /\ pc[r] \in {"idle", "newAuth", "finAuth", "newCred", "finRead",
                       "finReject", "finCred"}

---------------------------------------------------------------------------

(* Every step keeps the types of the variables.                            *)
LEMMA TypeNext == TypeOK /\ [Next]_vars => TypeOK'
<1> USE CredOfAssumption
<1> USE DEF TypeOK, Statuses, CSRs, PCs, Reasons, orderVars, reqVars, Goto
<1> SUFFICES ASSUME TypeOK, [Next]_vars PROVE TypeOK'
  OBVIOUS
<1>1. ASSUME NEW c \in Creds, SetEABDisabled(c)
      PROVE  TypeOK'
  BY <1>1 DEF SetEABDisabled
<1>2. ASSUME NEW c \in Creds, SetEABEnabled(c)
      PROVE  TypeOK'
  BY <1>2 DEF SetEABEnabled
<1>3. ASSUME NEW a \in Accounts, DeactivateAccount(a)
      PROVE  TypeOK'
  BY <1>3 DEF DeactivateAccount
<1>4. ASSUME NEW o \in Orders, Expire(o)
      PROVE  TypeOK'
  BY <1>4 DEF Expire
<1>5. ASSUME NEW r \in Requests, NEW a \in Accounts, BeginNewOrder(r, a)
      PROVE  TypeOK'
  BY <1>5 DEF BeginNewOrder, MustRefuse
<1>6. ASSUME NEW r \in Requests, NEW a \in Accounts, NEW o \in Orders,
             NEW x \in CSRs, BeginFinalize(r, a, o, x)
      PROVE  TypeOK'
  BY <1>6 DEF BeginFinalize, MustRefuse
<1>7. ASSUME NEW r \in Requests, Authenticate(r, "newAuth", "newCred")
      PROVE  TypeOK'
  BY <1>7 DEF Authenticate
<1>8. ASSUME NEW r \in Requests, ActiveCred(r, "newCred", "newInsert")
      PROVE  TypeOK'
  BY <1>8 DEF ActiveCred
<1>9. ASSUME NEW r \in Requests, NEW o \in Orders, InsertOrder(r, o)
      PROVE  TypeOK'
  BY <1>9 DEF InsertOrder
<1>10. ASSUME NEW r \in Requests, InsertAuthz(r)
      PROVE  TypeOK'
  BY <1>10 DEF InsertAuthz
<1>11. ASSUME NEW r \in Requests, Authenticate(r, "finAuth", "finRead")
      PROVE  TypeOK'
  BY <1>11 DEF Authenticate
<1>12. ASSUME NEW r \in Requests, FinalizeRead(r)
      PROVE  TypeOK'
  BY <1>12 DEF FinalizeRead
<1>13. ASSUME NEW r \in Requests, FinalizeReject(r)
      PROVE  TypeOK'
  BY <1>13 DEF FinalizeReject, OrderError
<1>14. ASSUME NEW r \in Requests, ActiveCred(r, "finCred", "finClaim")
      PROVE  TypeOK'
  BY <1>14 DEF ActiveCred
<1>15. ASSUME NEW r \in Requests, Claim(r)
      PROVE  TypeOK'
  BY <1>15 DEF Claim
<1>16. ASSUME NEW r \in Requests, Issue(r)
      PROVE  TypeOK'
  BY <1>16 DEF Issue
<1>17. ASSUME NEW r \in Requests, IssueFailed(r)
      PROVE  TypeOK'
  BY <1>17 DEF IssueFailed, OrderError
<1>18. ASSUME NEW r \in Requests, LinkCertificate(r)
      PROVE  TypeOK'
  BY <1>18 DEF LinkCertificate
<1>19. ASSUME NEW r \in Requests, Abandon(r)
      PROVE  TypeOK'
  BY <1>19 DEF Abandon, Claimants
<1>20. CASE UNCHANGED vars
  BY <1>20 DEF vars
<1> QED
  BY <1>1, <1>2, <1>3, <1>4, <1>5, <1>6, <1>7, <1>8, <1>9, <1>10, <1>11,
     <1>12, <1>13, <1>14, <1>15, <1>16, <1>17, <1>18, <1>19, <1>20
  DEF Next, NewOrderStep, FinalizeStep

(* The order table and the requests keep their types.                      *)
THEOREM OrderTypeCorrect == Spec => []TypeOK
<1>1. Init => TypeOK
  BY DEF Init, TypeOK, Statuses, CSRs, PCs, Reasons
<1> QED
  BY <1>1, TypeNext, PTL DEF Spec
---------------------------------------------------------------------------

(* Every step keeps the claim exclusive and the certificates accounted for. *)
LEMMA ClaimNext == IInv /\ [Next]_vars => IInv'
<1> USE DEF IInv, TypeOK, Statuses, PCs, Holds, HoldsAlone, Unheld, Certificates,
            Claimed, orderVars, reqVars, Goto
<1> SUFFICES ASSUME IInv, [Next]_vars, TypeOK' PROVE IInv'
  BY TypeNext
<1>1. ASSUME NEW c \in Creds, SetEABDisabled(c)
      PROVE  IInv'
  BY <1>1 DEF SetEABDisabled
<1>2. ASSUME NEW c \in Creds, SetEABEnabled(c)
      PROVE  IInv'
  BY <1>2 DEF SetEABEnabled
<1>3. ASSUME NEW a \in Accounts, DeactivateAccount(a)
      PROVE  IInv'
  BY <1>3 DEF DeactivateAccount
<1>4. ASSUME NEW o \in Orders, Expire(o)
      PROVE  IInv'
  BY <1>4 DEF Expire
<1>5. ASSUME NEW r \in Requests, NEW a \in Accounts, BeginNewOrder(r, a)
      PROVE  IInv'
  BY <1>5 DEF BeginNewOrder, MustRefuse
<1>6. ASSUME NEW r \in Requests, NEW a \in Accounts, NEW o \in Orders,
             NEW x \in CSRs, BeginFinalize(r, a, o, x)
      PROVE  IInv'
  BY <1>6 DEF BeginFinalize, MustRefuse
<1>7. ASSUME NEW r \in Requests, Authenticate(r, "newAuth", "newCred")
      PROVE  IInv'
  BY <1>7 DEF Authenticate
<1>8. ASSUME NEW r \in Requests, ActiveCred(r, "newCred", "newInsert")
      PROVE  IInv'
  BY <1>8 DEF ActiveCred
<1>9. ASSUME NEW r \in Requests, NEW o \in Orders, InsertOrder(r, o)
      PROVE  IInv'
  BY <1>9 DEF InsertOrder
<1>10. ASSUME NEW r \in Requests, InsertAuthz(r)
      PROVE  IInv'
  BY <1>10 DEF InsertAuthz
<1>11. ASSUME NEW r \in Requests, Authenticate(r, "finAuth", "finRead")
      PROVE  IInv'
  BY <1>11 DEF Authenticate
<1>12. ASSUME NEW r \in Requests, FinalizeRead(r)
      PROVE  IInv'
  BY <1>12 DEF FinalizeRead
<1>13. ASSUME NEW r \in Requests, FinalizeReject(r)
      PROVE  IInv'
  BY <1>13 DEF FinalizeReject, OrderError
<1>14. ASSUME NEW r \in Requests, ActiveCred(r, "finCred", "finClaim")
      PROVE  IInv'
  BY <1>14 DEF ActiveCred
<1>15. ASSUME NEW r \in Requests, Claim(r)
      PROVE  IInv'
  BY <1>15 DEF Claim
<1>16. ASSUME NEW r \in Requests, Issue(r)
      PROVE  IInv'
  BY <1>16 DEF Issue
<1>17. ASSUME NEW r \in Requests, IssueFailed(r)
      PROVE  IInv'
  BY <1>17 DEF IssueFailed, OrderError
<1>18. ASSUME NEW r \in Requests, LinkCertificate(r)
      PROVE  IInv'
  BY <1>18 DEF LinkCertificate
<1>19. ASSUME NEW r \in Requests, Abandon(r)
      PROVE  IInv'
  BY <1>19 DEF Abandon, Claimants
<1>20. CASE UNCHANGED vars
  BY <1>20 DEF vars
<1> QED
  BY <1>1, <1>2, <1>3, <1>4, <1>5, <1>6, <1>7, <1>8, <1>9, <1>10, <1>11,
     <1>12, <1>13, <1>14, <1>15, <1>16, <1>17, <1>18, <1>19, <1>20
  DEF Next, NewOrderStep, FinalizeStep

(* One certificate per order at most, however many finalizes race for it;  *)
(* the claim is exclusive; a valid order, and no other, names the          *)
(* certificate issued for it; and no order is left in "processing" except  *)
(* by a request that was abandoned.                                        *)
THEOREM FinalizeSafe ==
  Spec => []FinalizeIsSound
<1>1. Init => IInv
  BY DEF Init, IInv, TypeOK, Statuses, CSRs, PCs, Reasons, Holds, HoldsAlone,
         Unheld, Certificates, Claimed
<1>2. IInv => OneCertificatePerOrder
  BY DEF IInv, Certificates, OneCertificatePerOrder
<1>3. IInv => ExclusiveClaim
  BY DEF IInv, HoldsAlone, Holds, ExclusiveClaim, Claimants
<1>4. IInv => ValidHasCertificate
  BY DEF IInv, Certificates, ValidHasCertificate
<1>5. IInv => ProcessingHasClaimant
  BY DEF IInv, Claimed, Holds, ProcessingHasClaimant, Claimants
<1>6. IInv => FinalizeIsSound
  BY <1>2, <1>3, <1>4, <1>5 DEF FinalizeIsSound
<1> QED
  BY <1>1, <1>6, ClaimNext, PTL DEF Spec

(* An order that produced its certificate stays valid and keeps it, across *)
(* every concurrent request for the same order.                            *)
THEOREM CompletionFinal == Spec => ValidIsFinal
<1> DEFINE Final == \A o \in Orders : status[o] = "valid" =>
                      status'[o] = "valid" /\ link'[o] = link[o]
<1>1. Init => IInv
  BY DEF Init, IInv, TypeOK, Statuses, CSRs, PCs, Reasons, Holds, HoldsAlone,
         Unheld, Certificates, Claimed
<1>2. IInv /\ [Next]_vars => [Final]_vars
  <2> USE DEF IInv, TypeOK, Statuses, PCs, Holds, Unheld, orderVars, reqVars, Goto
  <2> SUFFICES ASSUME IInv, [Next]_vars PROVE Final
    OBVIOUS
  <2>1. CASE UNCHANGED <<status, link>>
    BY <2>1
  <2>2. ASSUME NEW r \in Requests, NEW o \in Orders, InsertOrder(r, o) PROVE Final
    BY <2>2 DEF InsertOrder
  <2>3. ASSUME NEW r \in Requests, FinalizeReject(r) PROVE Final
    BY <2>3 DEF FinalizeReject, OrderError
  <2>4. ASSUME NEW r \in Requests, Claim(r) PROVE Final
    BY <2>4 DEF Claim
  <2>5. ASSUME NEW r \in Requests, IssueFailed(r) PROVE Final
    BY <2>5 DEF IssueFailed, OrderError
  <2>6. ASSUME NEW r \in Requests, LinkCertificate(r) PROVE Final
    BY <2>6 DEF LinkCertificate
  <2>7. \/ UNCHANGED <<status, link>>
        \/ \E r \in Requests : \/ FinalizeReject(r) \/ Claim(r) \/ IssueFailed(r)
                               \/ LinkCertificate(r)
                               \/ \E o \in Orders : InsertOrder(r, o)
    BY DEF Next, NewOrderStep, FinalizeStep, SetEABDisabled, SetEABEnabled,
           DeactivateAccount, Expire, BeginNewOrder, BeginFinalize, Authenticate,
           ActiveCred, InsertAuthz, FinalizeRead, Issue, Abandon, vars
  <2> QED
    BY <2>1, <2>2, <2>3, <2>4, <2>5, <2>6, <2>7
<1> QED
  BY <1>1, <1>2, ClaimNext, PTL DEF Spec, ValidIsFinal
---------------------------------------------------------------------------

(* Every step keeps a request that is past a check entitled to be there.   *)
LEMMA EntitledNext == TypeOK /\ Owned /\ Barred /\ [Next]_vars => Owned' /\ Barred'
<1> USE CredOfAssumption
<1> USE DEF TypeOK, Statuses, PCs, Reasons, Owned, Barred, orderVars, reqVars, Goto
<1> SUFFICES ASSUME TypeOK, Owned, Barred, [Next]_vars, TypeOK' PROVE Owned' /\ Barred'
  BY TypeNext
<1>1. ASSUME NEW c \in Creds, SetEABDisabled(c)
      PROVE  Owned' /\ Barred'
  BY <1>1 DEF SetEABDisabled
<1>2. ASSUME NEW c \in Creds, SetEABEnabled(c)
      PROVE  Owned' /\ Barred'
  BY <1>2 DEF SetEABEnabled
<1>3. ASSUME NEW a \in Accounts, DeactivateAccount(a)
      PROVE  Owned' /\ Barred'
  BY <1>3 DEF DeactivateAccount
<1>4. ASSUME NEW o \in Orders, Expire(o)
      PROVE  Owned' /\ Barred'
  BY <1>4 DEF Expire
<1>5. ASSUME NEW r \in Requests, NEW a \in Accounts, BeginNewOrder(r, a)
      PROVE  Owned' /\ Barred'
  BY <1>5 DEF BeginNewOrder, MustRefuse
<1>6. ASSUME NEW r \in Requests, NEW a \in Accounts, NEW o \in Orders,
             NEW x \in CSRs, BeginFinalize(r, a, o, x)
      PROVE  Owned' /\ Barred'
  BY <1>6 DEF BeginFinalize, MustRefuse
<1>7. ASSUME NEW r \in Requests, Authenticate(r, "newAuth", "newCred")
      PROVE  Owned' /\ Barred'
  BY <1>7 DEF Authenticate
<1>8. ASSUME NEW r \in Requests, ActiveCred(r, "newCred", "newInsert")
      PROVE  Owned' /\ Barred'
  BY <1>8 DEF ActiveCred
<1>9. ASSUME NEW r \in Requests, NEW o \in Orders, InsertOrder(r, o)
      PROVE  Owned' /\ Barred'
  BY <1>9 DEF InsertOrder
<1>10. ASSUME NEW r \in Requests, InsertAuthz(r)
      PROVE  Owned' /\ Barred'
  BY <1>10 DEF InsertAuthz
<1>11. ASSUME NEW r \in Requests, Authenticate(r, "finAuth", "finRead")
      PROVE  Owned' /\ Barred'
  BY <1>11 DEF Authenticate
<1>12. ASSUME NEW r \in Requests, FinalizeRead(r)
      PROVE  Owned' /\ Barred'
  BY <1>12 DEF FinalizeRead
<1>13. ASSUME NEW r \in Requests, FinalizeReject(r)
      PROVE  Owned' /\ Barred'
  BY <1>13 DEF FinalizeReject, OrderError
<1>14. ASSUME NEW r \in Requests, ActiveCred(r, "finCred", "finClaim")
      PROVE  Owned' /\ Barred'
  BY <1>14 DEF ActiveCred
<1>15. ASSUME NEW r \in Requests, Claim(r)
      PROVE  Owned' /\ Barred'
  BY <1>15 DEF Claim
<1>16. ASSUME NEW r \in Requests, Issue(r)
      PROVE  Owned' /\ Barred'
  BY <1>16 DEF Issue
<1>17. ASSUME NEW r \in Requests, IssueFailed(r)
      PROVE  Owned' /\ Barred'
  BY <1>17 DEF IssueFailed, OrderError
<1>18. ASSUME NEW r \in Requests, LinkCertificate(r)
      PROVE  Owned' /\ Barred'
  BY <1>18 DEF LinkCertificate
<1>19. ASSUME NEW r \in Requests, Abandon(r)
      PROVE  Owned' /\ Barred'
  BY <1>19 DEF Abandon, Claimants
<1>20. CASE UNCHANGED vars
  BY <1>20 DEF vars
<1> QED
  BY <1>1, <1>2, <1>3, <1>4, <1>5, <1>6, <1>7, <1>8, <1>9, <1>10, <1>11,
     <1>12, <1>13, <1>14, <1>15, <1>16, <1>17, <1>18, <1>19, <1>20
  DEF Next, NewOrderStep, FinalizeStep

(* A certificate is only ever issued to the account that placed the order, *)
(* and never for a request that had to be refused when it began.           *)
THEOREM FinalizeEntitled == Spec => []OnlyEntitledIssue
<1>1. Init => TypeOK /\ Owned /\ Barred
  BY DEF Init, TypeOK, Statuses, CSRs, PCs, Reasons, Owned, Barred
<1>2. TypeOK /\ Owned /\ Barred => OnlyEntitledIssue
  BY DEF TypeOK, PCs, Reasons, Owned, Barred, OnlyEntitledIssue, OnlyOwnerIssues,
         BarredIssuesNothing, Claimants
<1> QED
  BY <1>1, <1>2, TypeNext, EntitledNext, PTL DEF Spec

---------------------------------------------------------------------------
(* Orders keep their promise *)

PromiseNext == [Promise!Next]_(Promise!vars)

\* A step is a step of the promise if what the client sees of the orders does not
\* change,
LEMMA SeenUnchanged ==
  ASSUME Holder' = Holder, issued' = issued, Delivered' = Delivered
  PROVE  PromiseNext
BY DEF PromiseNext, Promise!vars

\* as when the statuses of orders change and none is placed or completed.
LEMMA SeenSame ==
  ASSUME UNCHANGED <<owner, issued>>,
         \A o \in Orders : /\ status'[o] = "none" <=> status[o] = "none"
                           /\ status'[o] = "valid" <=> status[o] = "valid"
  PROVE  PromiseNext
<1>1. Holder' = Holder
  BY DEF Holder
<1>2. Delivered' = Delivered
  BY DEF Delivered
<1> QED BY <1>1, <1>2, SeenUnchanged

LEMMA PlaceRefines ==
  ASSUME TypeOK, NEW r \in Requests, NEW o \in Orders, InsertOrder(r, o)
  PROVE  PromiseNext
<1> USE DEF TypeOK, Statuses
<1>1. Holder[o] = {}
  BY DEF InsertOrder, Holder
<1>2. Holder' = [Holder EXCEPT ![o] = {acct[r]}]
  BY DEF InsertOrder, Holder
<1>3. Delivered' = Delivered
  BY DEF InsertOrder, Delivered
<1>4. acct[r] \in Accounts /\ issued' = issued
  BY DEF InsertOrder
<1>5. Promise!Place(o, acct[r])
  BY <1>1, <1>2, <1>3, <1>4 DEF Promise!Place
<1> QED BY <1>4, <1>5 DEF PromiseNext, Promise!Next

\* The claim is won once, so that nothing was issued before.
LEMMA IssueRefines ==
  ASSUME IInv, NEW r \in Requests, Issue(r)
  PROVE  PromiseNext
<1> USE DEF IInv, TypeOK
<1>1. order[r] \in Orders /\ UNCHANGED <<status, owner>>
  BY DEF Issue
<1>2. Holder' = Holder /\ Delivered' = Delivered
  BY <1>1 DEF Holder, Delivered
<1>3. CASE issued' = [issued EXCEPT ![order[r]] = @ + 1]
  <2>1. issued[order[r]] = 0 /\ status[order[r]] # "none"
    BY DEF Issue, Certificates, Unheld, Holds
  <2>2. issued' = [issued EXCEPT ![order[r]] = 1]
    BY <1>3, <2>1
  <2>3. Holder[order[r]] # {}
    BY <1>1, <2>1 DEF Holder
  <2>4. Promise!IssueOnce(order[r])
    BY <1>2, <2>1, <2>2, <2>3 DEF Promise!IssueOnce
  <2> QED BY <1>1, <2>4 DEF PromiseNext, Promise!Next
<1>4. CASE issued' = issued
  BY <1>2, <1>4, SeenUnchanged
<1> QED BY <1>3, <1>4 DEF Issue

\* A request that is about to complete its order finds it incomplete, with one
\* certificate, even if a slower one has marked it invalid.
LEMMA DeliverRefines ==
  ASSUME IInv, NEW r \in Requests, LinkCertificate(r)
  PROVE  PromiseNext
<1> USE DEF IInv, TypeOK, Statuses
<1>1. order[r] \in Orders /\ UNCHANGED <<owner, issued>>
  BY DEF LinkCertificate
<1>2. issued[order[r]] = 1 /\ status[order[r]] \notin {"none", "valid"}
  BY DEF LinkCertificate, Certificates, Unheld, Holds
<1>3. CASE status' = [status EXCEPT ![order[r]] = "valid"]
  <2>1. Holder' = Holder
    BY <1>1, <1>2, <1>3 DEF Holder
  <2>2. Delivered' = Delivered \cup {order[r]} /\ order[r] \notin Delivered
    BY <1>1, <1>2, <1>3 DEF Delivered
  <2>3. Promise!Deliver(order[r])
    BY <1>1, <1>2, <2>1, <2>2 DEF Promise!Deliver
  <2> QED BY <1>1, <2>3 DEF PromiseNext, Promise!Next
<1>4. CASE UNCHANGED status
  BY <1>1, <1>4, SeenSame
<1> QED BY <1>3, <1>4 DEF LinkCertificate

\* A late error marks an order that was placed and is not complete.
LEMMA ErrorRefines ==
  ASSUME IInv, Owned, NEW r \in Requests, FinalizeReject(r) \/ IssueFailed(r)
  PROVE  PromiseNext
<1> USE DEF IInv, TypeOK, Statuses
<1>1. order[r] \in Orders /\ UNCHANGED <<owner, issued>>
  BY DEF FinalizeReject, IssueFailed
<1>2. status[order[r]] # "none"
  BY DEF FinalizeReject, IssueFailed, Owned
<1>3. OrderError(order[r]) \/ UNCHANGED status
  BY DEF FinalizeReject, IssueFailed
<1>4. \A o \in Orders : /\ status'[o] = "none" <=> status[o] = "none"
                        /\ status'[o] = "valid" <=> status[o] = "valid"
  BY <1>1, <1>2, <1>3 DEF OrderError
<1> QED BY <1>1, <1>4, SeenSame

LEMMA ClaimRefines ==
  ASSUME IInv, NEW r \in Requests, Claim(r)
  PROVE  PromiseNext
<1> USE DEF IInv, TypeOK, Statuses
<1>1. UNCHANGED <<owner, issued>>
  BY DEF Claim
<1>2. \A o \in Orders : /\ status'[o] = "none" <=> status[o] = "none"
                        /\ status'[o] = "valid" <=> status[o] = "valid"
  BY DEF Claim
<1> QED BY <1>1, <1>2, SeenSame

(* The handlers of all replicas, statement by statement, implement orders  *)
(* that are placed, issued for and delivered in one atomic step each.      *)
THEOREM OrdersImplementPromise == Spec => OrdersKeepPromise
<1>1. Init => Promise!Init
  BY DEF Init, Promise!Init, Holder, Delivered
<1>2. Init => IInv /\ Owned /\ Barred
  BY DEF Init, IInv, TypeOK, Statuses, CSRs, PCs, Reasons, Holds, HoldsAlone,
         Unheld, Certificates, Claimed, Owned, Barred
<1>3. IInv /\ Owned /\ Barred /\ [Next]_vars => (IInv /\ Owned /\ Barred)'
  BY ClaimNext, EntitledNext DEF IInv
<1>4. IInv /\ Owned /\ [Next]_vars => PromiseNext
  <2> SUFFICES ASSUME IInv, Owned, [Next]_vars PROVE PromiseNext
    OBVIOUS
  <2>1. ASSUME NEW r \in Requests, NEW o \in Orders, InsertOrder(r, o) PROVE PromiseNext
    BY <2>1, PlaceRefines DEF IInv
  <2>2. CASE UNCHANGED <<status, owner, issued>>
    BY <2>2, SeenSame
  <2>3. \/ UNCHANGED <<status, owner, issued>>
        \/ \E r \in Requests : \/ FinalizeReject(r) \/ Claim(r) \/ Issue(r) \/ IssueFailed(r)
                               \/ LinkCertificate(r)
                               \/ \E o \in Orders : InsertOrder(r, o)
    BY DEF Next, NewOrderStep, FinalizeStep, SetEABDisabled, SetEABEnabled,
           DeactivateAccount, Expire, BeginNewOrder, BeginFinalize, Authenticate,
           ActiveCred, InsertAuthz, FinalizeRead, Abandon, vars, orderVars
  <2> QED
    BY <2>1, <2>2, <2>3, ErrorRefines, ClaimRefines, IssueRefines, DeliverRefines
<1> QED
  BY <1>1, <1>2, <1>3, <1>4, PTL DEF Spec, OrdersKeepPromise, Promise!Spec, PromiseNext
=============================================================================
