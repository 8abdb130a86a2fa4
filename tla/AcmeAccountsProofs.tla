------------------------- MODULE AcmeAccountsProofs -------------------------
(***************************************************************************)
(* Proofs about AcmeAccounts, for any number of keys, credentials and      *)
(* concurrent requests.  The inductive invariant ties account_count to the *)
(* accounts, the slots in flight and the lost slots (SlotConservation);    *)
(* the cap on accounts is a consequence.  An account whose creation was    *)
(* answered with an error is set aside in the ghost variable lost: its     *)
(* slot is given back although its row exists.                             *)
(***************************************************************************)
EXTENDS AcmeAccounts, FiniteSetTheorems, TLAPS

\* account_count of a capped credential stays within the cap.
CountCap ==
  \A c \in Creds : MaxAccounts[c] > 0 => count[c] <= MaxAccounts[c]

\* A credential that was never created has no accounts and no slots in use.
Untouched ==
  \A c \in Creds : credState[c] = "none" =>
    count[c] = 0 /\ leaked[c] = 0 /\ Holders(c) = {}

\* A request is barred only while its credential is disabled.
BarredMeansDisabled == \A r \in Requests : barred[r] => eab[r] \in disabled

\* An account that was answered with an error exists all the same.
LostExist == \A k \in lost : account[k] # NoAccount

\* The part of the inductive invariant that does not count anything.
Shape ==
  /\ TypeOK
  /\ CountCap
  /\ Untouched
  /\ CredentialOfAccountLives
  /\ BarredMeansDisabled
  /\ LostExist
  /\ DisabledBarsRegistration

---------------------------------------------------------------------------

(* The variables keep their types: in particular account_count, which      *)
(* ReleaseEABAccountSlot decrements, never becomes negative.               *)
LEMMA TypeNext == TypeOK /\ [Next]_vars => TypeOK'
<1> USE DEF TypeOK, PCs, credVars, reqVars, Goto
<1> SUFFICES ASSUME TypeOK, [Next]_vars PROVE TypeOK'
  OBVIOUS
<1>1. ASSUME NEW c \in Creds, CreateEAB(c) PROVE TypeOK'
  BY <1>1 DEF CreateEAB
<1>2. ASSUME NEW c \in Creds, DisableEAB(c) PROVE TypeOK'
  BY <1>2 DEF DisableEAB
<1>3. ASSUME NEW c \in Creds, EnableEAB(c) PROVE TypeOK'
  BY <1>3 DEF EnableEAB
<1>4. ASSUME NEW c \in Creds, ExpireEAB(c) PROVE TypeOK'
  BY <1>4 DEF ExpireEAB
<1>5. ASSUME NEW c \in Creds, DeleteEABCheck(c) PROVE TypeOK'
  BY <1>5 DEF DeleteEABCheck
<1>6. ASSUME NEW c \in Creds, DeleteEABCred(c) PROVE TypeOK'
  BY <1>6 DEF DeleteEABCred
<1>7. ASSUME NEW r \in Requests, NEW k \in Keys, NEW c \in Creds, Begin(r, k, c)
      PROVE TypeOK'
  BY <1>7 DEF Begin
<1>8. ASSUME NEW r \in Requests, Lookup(r) PROVE TypeOK'
  BY <1>8 DEF Lookup
<1>9. ASSUME NEW r \in Requests, Verify(r) PROVE TypeOK'
  BY <1>9 DEF Verify
<1>10. ASSUME NEW r \in Requests, Reserve(r) PROVE TypeOK'
  BY <1>10 DEF Reserve
<1>11. ASSUME NEW r \in Requests, Insert(r) PROVE TypeOK'
  BY <1>11 DEF Insert
<1>12. ASSUME NEW r \in Requests, Release(r) PROVE TypeOK'
  BY <1>12 DEF Release
<1>13. ASSUME NEW r \in Requests, Abandon(r) PROVE TypeOK'
  BY <1>13 DEF Abandon
<1>14. CASE UNCHANGED vars
  BY <1>14 DEF vars
<1> QED
  BY <1>1, <1>2, <1>3, <1>4, <1>5, <1>6, <1>7, <1>8, <1>9, <1>10, <1>11,
     <1>12, <1>13, <1>14 DEF Next, Step

(* Type correctness of registration, for every number of requests.         *)
THEOREM TypeCorrect == Spec => []TypeOK
<1>1. Init => TypeOK
  BY DEF Init, TypeOK, PCs
<1> QED
  BY <1>1, TypeNext, PTL DEF Spec
---------------------------------------------------------------------------

(* Every action keeps the counter within the cap, never deletes a          *)
(* credential that has accounts and never lets a barred request through.   *)
LEMMA ShapeNext == Shape /\ [Next]_vars => Shape'
<1> USE CredsAssumption, MaxAssumption
<1> USE DEF Shape, TypeOK, PCs, CountCap, Untouched, CredentialOfAccountLives,
            BarredMeansDisabled, DisabledBarsRegistration, Holders, credVars,
            LostExist, reqVars, Goto
<1> SUFFICES ASSUME Shape, [Next]_vars, TypeOK' PROVE Shape'
  BY TypeNext
<1>1. ASSUME NEW c \in Creds, CreateEAB(c) PROVE Shape'
  BY <1>1 DEF CreateEAB
<1>2. ASSUME NEW c \in Creds, DisableEAB(c) PROVE Shape'
  BY <1>2 DEF DisableEAB
<1>3. ASSUME NEW c \in Creds, EnableEAB(c) PROVE Shape'
  BY <1>3 DEF EnableEAB
<1>4. ASSUME NEW c \in Creds, ExpireEAB(c) PROVE Shape'
  BY <1>4 DEF ExpireEAB
<1>5. ASSUME NEW c \in Creds, DeleteEABCheck(c) PROVE Shape'
  BY <1>5 DEF DeleteEABCheck, AccountsOf
<1>6. ASSUME NEW c \in Creds, DeleteEABCred(c) PROVE Shape'
  BY <1>6 DEF DeleteEABCred, AccountsOf
<1>7. ASSUME NEW r \in Requests, NEW k \in Keys, NEW c \in Creds, Begin(r, k, c) PROVE Shape'
  BY <1>7 DEF Begin
<1>8. ASSUME NEW r \in Requests, Lookup(r) PROVE Shape'
  BY <1>8 DEF Lookup
<1>9. ASSUME NEW r \in Requests, Verify(r) PROVE Shape'
  BY <1>9 DEF Verify, Usable
<1>10. ASSUME NEW r \in Requests, Reserve(r) PROVE Shape'
  BY <1>10 DEF Reserve, HasSlot
<1>11. ASSUME NEW r \in Requests, Insert(r) PROVE Shape'
  BY <1>11 DEF Insert
<1>12. ASSUME NEW r \in Requests, Release(r) PROVE Shape'
  BY <1>12 DEF Release
<1>13. ASSUME NEW r \in Requests, Abandon(r) PROVE Shape'
  BY <1>13 DEF Abandon
<1>14. CASE UNCHANGED vars
  BY <1>14 DEF vars
<1> QED
  BY <1>1, <1>2, <1>3, <1>4, <1>5, <1>6, <1>7, <1>8, <1>9, <1>10, <1>11,
     <1>12, <1>13, <1>14 DEF Next, Step
---------------------------------------------------------------------------

(* The sets that SlotConservation counts are finite.                       *)
LEMMA FiniteSlots ==
  ASSUME NEW c \in Creds
  PROVE  /\ IsFiniteSet(Paid(c)) /\ Cardinality(Paid(c)) \in Nat
         /\ IsFiniteSet(Holders(c)) /\ Cardinality(Holders(c)) \in Nat
<1>1. Paid(c) \subseteq Keys /\ Holders(c) \subseteq Requests
  BY DEF Paid, AccountsOf, Holders
<1> QED
  BY <1>1, FiniteAssumption, FS_Subset, FS_CardinalityType

(* A step that leaves the counters, the accounts and the slots in flight   *)
(* alone keeps SlotConservation.                                           *)
LEMMA SlotsUnmoved ==
  ASSUME SlotConservation,
         \A c \in Creds : credState'[c] = "live" => credState[c] = "live",
         \A c \in Creds : Paid(c)' = Paid(c) /\ Holders(c)' = Holders(c),
         UNCHANGED <<count, leaked>>
  PROVE  SlotConservation'
BY DEF SlotConservation

(* A step that moves slots of credential c alone keeps SlotConservation if *)
(* the books of c balance after it.                                        *)
LEMMA SlotsOfOneMoved ==
  ASSUME NEW c \in Creds,
         SlotConservation,
         UNCHANGED credState,
         \A d \in Creds \ {c} : /\ Paid(d)' = Paid(d)
                                /\ Holders(d)' = Holders(d)
                                /\ count'[d] = count[d]
                                /\ leaked'[d] = leaked[d],
         credState[c] = "live" =>
           count'[c] = Cardinality(Paid(c)') + Cardinality(Holders(c)') + leaked'[c]
  PROVE  SlotConservation'
BY DEF SlotConservation

(* Reserving, inserting, releasing and abandoning move exactly one slot    *)
(* between the counter, the accounts, the holders and the lost slots.      *)
LEMMA SlotNext ==
  Shape /\ SlotConservation /\ [Next]_vars => SlotConservation'
<1> USE DEF credVars, reqVars, Goto
<1> SUFFICES ASSUME Shape, SlotConservation, [Next]_vars
             PROVE  SlotConservation'
  OBVIOUS
<1>t. /\ credState \in [Creds -> {"none", "live", "deleted"}]
      /\ count \in [Creds -> Nat] /\ leaked \in [Creds -> Nat]
      /\ account \in [Keys -> Creds \cup {NoAccount}]
      /\ key \in [Requests -> Keys] /\ eab \in [Requests -> Creds]
      /\ pc \in [Requests -> PCs] /\ lost \in SUBSET Keys
  BY DEF Shape, TypeOK
<1>f. \A c \in Creds : Cardinality(Paid(c)) \in Nat /\ Cardinality(Holders(c)) \in Nat
  BY FiniteSlots
<1>1. ASSUME NEW d \in Creds, CreateEAB(d) PROVE SlotConservation'
  <2>1. Paid(d)' = {} /\ Holders(d)' = {}
    BY <1>1, <1>t, CredsAssumption
       DEF CreateEAB, Paid, AccountsOf, Holders, Shape, CredentialOfAccountLives, Untouched
  <2>2. count'[d] = 0 /\ leaked'[d] = 0
    BY <1>1 DEF CreateEAB, Shape, Untouched
  <2>3. \A c \in Creds \ {d} : /\ Paid(c)' = Paid(c)
                               /\ Holders(c)' = Holders(c)
                               /\ credState'[c] = credState[c]
    BY <1>1, <1>t DEF CreateEAB, Paid, AccountsOf, Holders
  <2> QED
    BY <1>1, <2>1, <2>2, <2>3, FS_EmptySet DEF CreateEAB, SlotConservation
<1>2. ASSUME NEW c \in Creds,
             DisableEAB(c) \/ EnableEAB(c) \/ ExpireEAB(c) \/ DeleteEABCheck(c)
      PROVE  SlotConservation'
  BY <1>2, SlotsUnmoved
     DEF DisableEAB, EnableEAB, ExpireEAB, DeleteEABCheck, Paid, AccountsOf, Holders
<1>3. ASSUME NEW c \in Creds, DeleteEABCred(c) PROVE SlotConservation'
  <2>1. \A d \in Creds : Paid(d)' = Paid(d) /\ Holders(d)' = Holders(d)
    BY <1>3 DEF DeleteEABCred, Paid, AccountsOf, Holders
  <2>2. \A d \in Creds : credState'[d] = "live" => credState[d] = "live"
    BY <1>3, <1>t DEF DeleteEABCred
  <2> QED
    BY <1>3, <2>1, <2>2, SlotsUnmoved DEF DeleteEABCred
<1>4. ASSUME NEW r \in Requests, NEW k \in Keys, NEW c \in Creds, Begin(r, k, c)
      PROVE  SlotConservation'
  <2>1. \A d \in Creds : Paid(d)' = Paid(d) /\ Holders(d)' = Holders(d)
    BY <1>4, <1>t DEF Begin, Paid, AccountsOf, Holders
  <2> QED
    BY <1>4, <2>1, SlotsUnmoved DEF Begin
<1>5. ASSUME NEW r \in Requests, Lookup(r) \/ Verify(r) PROVE SlotConservation'
  <2>1. \A d \in Creds : Paid(d)' = Paid(d) /\ Holders(d)' = Holders(d)
    BY <1>5, <1>t DEF Lookup, Verify, Paid, AccountsOf, Holders
  <2> QED
    BY <1>5, <2>1, SlotsUnmoved DEF Lookup, Verify
<1>6. ASSUME NEW r \in Requests, Reserve(r) PROVE SlotConservation'
  <2>0. PICK c \in Creds : c = eab[r]
    BY <1>t
  <2>1. \A d \in Creds : Paid(d)' = Paid(d)
    BY <1>6, <2>0 DEF Reserve, Paid, AccountsOf
  <2>2. \A d \in Creds \ {c} : Holders(d)' = Holders(d) /\ count'[d] = count[d]
                               /\ leaked'[d] = leaked[d]
    BY <1>6, <1>t, <2>0 DEF Reserve, Holders
  <2>3. CASE pc'[r] = "insert"
    <3>1. Holders(c)' = Holders(c) \cup {r} /\ r \notin Holders(c)
      BY <1>6, <1>t, <2>0, <2>3 DEF Reserve, Holders
    <3>2. Cardinality(Holders(c)') = Cardinality(Holders(c)) + 1
      BY <2>0, <3>1, FiniteSlots, FS_AddElement
    <3>3. count'[c] = count[c] + 1 /\ leaked'[c] = leaked[c]
      BY <1>6, <1>t, <2>0, <2>3 DEF Reserve
    <3>4. credState[c] = "live" =>
            count'[c] = Cardinality(Paid(c)') + Cardinality(Holders(c)') + leaked'[c]
      BY <1>t, <1>f, <2>0, <2>1, <3>2, <3>3 DEF SlotConservation
    <3> QED
      BY <1>6, <2>0, <2>1, <2>2, <3>4, SlotsOfOneMoved DEF Reserve
  <2>4. CASE pc'[r] = "idle"
    <3>1. Holders(c)' = Holders(c)
      BY <1>6, <1>t, <2>0, <2>4 DEF Reserve, Holders
    <3>2. \/ count'[c] = count[c] + 1 /\ leaked'[c] = leaked[c] + 1
          \/ count'[c] = count[c] /\ leaked'[c] = leaked[c]
      BY <1>6, <1>t, <2>0, <2>4 DEF Reserve
    <3>3. credState[c] = "live" =>
            count'[c] = Cardinality(Paid(c)') + Cardinality(Holders(c)') + leaked'[c]
      BY <1>t, <1>f, <2>0, <2>1, <3>1, <3>2 DEF SlotConservation
    <3> QED
      BY <1>6, <2>0, <2>1, <2>2, <3>3, SlotsOfOneMoved DEF Reserve
  <2> QED
    BY <1>6, <1>t, <2>0, <2>3, <2>4 DEF Reserve
<1>7. ASSUME NEW r \in Requests, Insert(r) PROVE SlotConservation'
  <2>0. PICK c \in Creds, k \in Keys : c = eab[r] /\ k = key[r]
    BY <1>t
  <2>1. \A d \in Creds \ {c} : Holders(d)' = Holders(d)
    BY <1>7, <1>t, <2>0 DEF Insert, Holders
  <2>2. CASE pc'[r] = "release"
    <3>1. \/ account' = account /\ lost' = lost
          \/ /\ account[k] = NoAccount /\ account' = [account EXCEPT ![k] = c]
             /\ lost' = lost \cup {k}
      BY <1>7, <1>t, <2>0, <2>2 DEF Insert
    <3>2. Holders(c)' = Holders(c)
      BY <1>7, <1>t, <2>0, <2>2 DEF Insert, Holders
    <3>3. ASSUME NEW d \in Creds PROVE Paid(d)' = Paid(d)
      BY <1>t, <2>0, <3>1, CredsAssumption DEF Paid, AccountsOf
    <3>4. \A d \in Creds : Paid(d)' = Paid(d) /\ Holders(d)' = Holders(d)
      BY <2>0, <2>1, <3>2, <3>3
    <3> QED
      BY <1>7, <2>0, <3>4, SlotsUnmoved DEF Insert
  <2>3. CASE pc'[r] = "idle"
    <3>1. /\ account[k] = NoAccount /\ account' = [account EXCEPT ![k] = c]
          /\ lost' = lost
      BY <1>7, <1>t, <2>0, <2>3 DEF Insert
    <3>2. \A d \in Creds \ {c} : Paid(d)' = Paid(d)
      BY <1>t, <2>0, <3>1, CredsAssumption DEF Paid, AccountsOf
    <3>l. k \notin lost
      BY <2>0, <3>1 DEF Shape, LostExist
    <3>3. Paid(c)' = Paid(c) \cup {k} /\ k \notin Paid(c)
      BY <1>t, <2>0, <3>1, <3>l, CredsAssumption DEF Paid, AccountsOf
    <3>4. Cardinality(Paid(c)') = Cardinality(Paid(c)) + 1
      BY <2>0, <3>3, FiniteSlots, FS_AddElement
    <3>5. Holders(c)' = Holders(c) \ {r} /\ r \in Holders(c)
      BY <1>7, <1>t, <2>0, <2>3 DEF Insert, Holders
    <3>6. Cardinality(Holders(c)') = Cardinality(Holders(c)) - 1
      BY <2>0, <3>5, FiniteSlots, FS_RemoveElement
    <3>7. UNCHANGED <<credState, count, leaked>>
      BY <1>7, <2>0 DEF Insert
    <3>8. credState[c] = "live" =>
            count'[c] = Cardinality(Paid(c)') + Cardinality(Holders(c)') + leaked'[c]
      BY <1>t, <1>f, <2>0, <3>4, <3>6, <3>7 DEF SlotConservation
    <3> QED
      BY <2>0, <2>1, <3>2, <3>7, <3>8, SlotsOfOneMoved
  <2> QED
    BY <1>7, <1>t, <2>0, <2>2, <2>3 DEF Insert
<1>8. ASSUME NEW r \in Requests, Release(r) PROVE SlotConservation'
  <2>0. PICK c \in Creds : c = eab[r]
    BY <1>t
  <2>1. \A d \in Creds : Paid(d)' = Paid(d)
    BY <1>8, <2>0 DEF Release, Paid, AccountsOf
  <2>2. \A d \in Creds \ {c} : Holders(d)' = Holders(d)
    BY <1>8, <1>t, <2>0 DEF Release, Holders
  <2>3. \A d \in Creds \ {c} : count'[d] = count[d] /\ leaked'[d] = leaked[d]
    BY <1>8, <1>t, <2>0 DEF Release
  <2>4. Holders(c)' = Holders(c) \ {r} /\ r \in Holders(c)
    BY <1>8, <1>t, <2>0 DEF Release, Holders
  <2>5. Cardinality(Holders(c)') = Cardinality(Holders(c)) - 1
    BY <2>0, <2>4, FiniteSlots, FS_RemoveElement
  <2>6. Cardinality(Holders(c)) # 0
    BY <2>0, <2>4, FiniteSlots, FS_EmptySet
  <2>n. /\ Cardinality(Paid(c)) \in Nat /\ Cardinality(Holders(c)) \in Nat
        /\ leaked[c] \in Nat
    BY <1>t, <1>f, <2>0
  <2>7. credState[c] = "live" => count[c] > 0
    BY <2>n, <2>0, <2>6 DEF SlotConservation
  <2>8. credState[c] = "live" => \/ count'[c] = count[c] - 1 /\ leaked'[c] = leaked[c]
                                 \/ count'[c] = count[c] /\ leaked'[c] = leaked[c] + 1
    BY <1>8, <1>t, <2>0, <2>7 DEF Release
  <2>9. credState[c] = "live" =>
          count'[c] = Cardinality(Paid(c)') + Cardinality(Holders(c)') + leaked'[c]
    BY <1>t, <1>f, <2>0, <2>1, <2>5, <2>8 DEF SlotConservation
  <2> QED
    BY <1>8, <2>0, <2>1, <2>2, <2>3, <2>9, SlotsOfOneMoved DEF Release
<1>9. ASSUME NEW r \in Requests, Abandon(r) PROVE SlotConservation'
  <2>0. PICK c \in Creds : c = eab[r]
    BY <1>t
  <2>1. \A d \in Creds : Paid(d)' = Paid(d)
    BY <1>9, <2>0 DEF Abandon, Paid, AccountsOf
  <2>2. \A d \in Creds \ {c} : Holders(d)' = Holders(d)
    BY <1>9, <1>t, <2>0 DEF Abandon, Holders
  <2>3. \A d \in Creds \ {c} : leaked'[d] = leaked[d]
    BY <1>9, <1>t, <2>0 DEF Abandon
  <2>4. CASE r \in Holders(c)
    <3>1. Holders(c)' = Holders(c) \ {r}
      BY <1>9, <1>t, <2>0, <2>4 DEF Abandon, Holders
    <3>2. Cardinality(Holders(c)') = Cardinality(Holders(c)) - 1
      BY <2>0, <2>4, <3>1, FiniteSlots, FS_RemoveElement
    <3>3. leaked'[c] = leaked[c] + 1 /\ count' = count
      BY <1>9, <1>t, <2>0, <2>4 DEF Abandon
    <3>4. credState[c] = "live" =>
            count'[c] = Cardinality(Paid(c)') + Cardinality(Holders(c)') + leaked'[c]
      BY <1>t, <1>f, <2>0, <2>1, <3>2, <3>3 DEF SlotConservation
    <3> QED
      BY <1>9, <2>0, <2>1, <2>2, <2>3, <3>4, SlotsOfOneMoved DEF Abandon
  <2>5. CASE r \notin Holders(c)
    <3>1. Holders(c)' = Holders(c)
      BY <1>9, <1>t, <2>0, <2>5 DEF Abandon, Holders
    <3> QED
      BY <1>9, <2>0, <2>1, <2>2, <2>5, <3>1, SlotsUnmoved DEF Abandon
  <2> QED
    BY <2>0, <2>4, <2>5
<1>10. CASE UNCHANGED vars
  BY <1>10, SlotsUnmoved DEF vars, Paid, AccountsOf, Holders
<1> QED
  BY <1>1, <1>2, <1>3, <1>4, <1>5, <1>6, <1>7, <1>8, <1>9, <1>10 DEF Next, Step

---------------------------------------------------------------------------

(* The inductive invariant of registration.                                *)
IInv == Shape /\ SlotConservation

(* Every credential starts with no account, no holder and a zero counter.  *)
LEMMA InitIInv == Init => IInv
<1> SUFFICES ASSUME Init PROVE IInv
  OBVIOUS
<1>1. \A c \in Creds : Holders(c) = {} /\ Paid(c) = {}
  BY CredsAssumption DEF Init, Holders, Paid, AccountsOf
<1>2. Shape
  BY <1>1, CredsAssumption, MaxAssumption
     DEF Init, Shape, TypeOK, PCs, CountCap, Untouched, CredentialOfAccountLives,
         BarredMeansDisabled, LostExist, DisabledBarsRegistration
<1>3. SlotConservation
  BY <1>1, FS_EmptySet DEF Init, SlotConservation
<1> QED
  BY <1>2, <1>3 DEF IInv

(* The invariant bounds the paid accounts of a capped credential: a live   *)
(* one has at most account_count of them, any other has none.              *)
LEMMA CapFromIInv == IInv => PaidCap
<1> SUFFICES ASSUME IInv, NEW c \in Creds, MaxAccounts[c] > 0
             PROVE  Cardinality(Paid(c)) <= MaxAccounts[c]
  BY DEF PaidCap
<1>1. CASE credState[c] = "live"
  BY <1>1, FiniteSlots, MaxAssumption
     DEF IInv, Shape, TypeOK, CountCap, SlotConservation
<1>2. CASE credState[c] # "live"
  <2>1. Paid(c) = {}
    BY <1>2, CredsAssumption DEF IInv, Shape, CredentialOfAccountLives, Paid, AccountsOf
  <2> QED
    BY <2>1, FS_EmptySet, MaxAssumption
<1> QED
  BY <1>1, <1>2

(* However many requests race, crash or fail, account_count accounts for   *)
(* every slot, and a capped credential exceeds its cap by no more than the *)
(* accounts whose creation was answered with an error.                     *)
THEOREM RegistrationSafe == Spec => []SlotsAreSound
<1>1. IInv /\ [Next]_vars => IInv'
  BY ShapeNext, SlotNext DEF IInv
<1>2. IInv => SlotsAreSound
  BY CapFromIInv DEF IInv, SlotsAreSound
<1> QED
  BY <1>1, <1>2, InitIInv, PTL DEF Spec

(* A credential is never deleted under an account and a registration begun *)
(* under a disabled credential never creates one, lost replies or not.     *)
THEOREM RegistrationBarred ==
  Spec => []CredentialsGovern
<1>1. Init => Shape
  BY InitIInv DEF IInv
<1>2. Shape => CredentialsGovern
  BY DEF Shape, CredentialsGovern
<1> QED
  BY <1>1, <1>2, ShapeNext, PTL DEF Spec
---------------------------------------------------------------------------

(* A step that inserts an account is a step of the atomic quota: the slot  *)
(* the request holds is not yet an account, so there is room for it.       *)
LEMMA InsertRefines ==
  ASSUME IInv, NEW r \in Requests, Insert(r)
  PROVE  [Quota!Next]_<<account, lost>>
<1>t. /\ credState \in [Creds -> {"none", "live", "deleted"}]
      /\ count \in [Creds -> Nat] /\ leaked \in [Creds -> Nat]
      /\ pc \in [Requests -> PCs]
  BY DEF IInv, Shape, TypeOK
<1>0. PICK c \in Creds, k \in Keys : c = eab[r] /\ k = key[r]
  BY DEF IInv, Shape, TypeOK
<1>1. CASE UNCHANGED <<account, lost>>
  BY <1>1
<1>2. CASE ~UNCHANGED <<account, lost>>
  <2>1. /\ account[k] = NoAccount /\ credState[c] = "live"
        /\ account' = [account EXCEPT ![k] = c]
        /\ lost' \in {lost, lost \cup {k}}
    BY <1>0, <1>2 DEF Insert
  <2>2. r \in Holders(c)
    BY <1>0 DEF Insert, Holders
  <2>3. Cardinality(Holders(c)) # 0
    BY <2>2, FiniteSlots, FS_EmptySet
  <2>4. count[c] = Cardinality(Paid(c)) + Cardinality(Holders(c)) + leaked[c]
    BY <2>1 DEF IInv, SlotConservation
  <2>5. MaxAccounts[c] > 0 => count[c] <= MaxAccounts[c]
    BY DEF IInv, Shape, CountCap
  <2>6. /\ Cardinality(Paid(c)) \in Nat /\ Cardinality(Holders(c)) \in Nat
        /\ MaxAccounts[c] \in Int
    BY FiniteSlots, MaxAssumption
  <2>7. MaxAccounts[c] > 0 => Cardinality(Paid(c)) < MaxAccounts[c]
    BY <1>t, <2>3, <2>4, <2>5, <2>6
  <2>8. Quota!Paid(c) = Paid(c)
    BY DEF Quota!Paid, Paid, AccountsOf
  <2>9. Quota!Cardinality(Paid(c)) = Cardinality(Paid(c))
    BY Zenon DEF Quota!Cardinality, Cardinality, Quota!IsFiniteSet, IsFiniteSet
  <2>10. Quota!Register(k, c)
    BY <2>1, <2>7, <2>8, <2>9 DEF Quota!Register
  <2> QED
    BY <2>10 DEF Quota!Next
<1> QED
  BY <1>1, <1>2

(* Registration in several statements implements the atomic quota: seen    *)
(* through acme_accounts alone, each step registers one new key under a    *)
(* credential with room for it, or changes nothing; the keys answered with *)
(* an error take up no room.                                               *)
THEOREM RegistrationRefinesQuota == Spec => QuotaSpec
<1>1. Init => Quota!Init
  BY DEF Init, Quota!Init
<1>2. IInv /\ [Next]_vars => [Quota!Next]_<<account, lost>>
  <2> SUFFICES ASSUME IInv, [Next]_vars PROVE [Quota!Next]_<<account, lost>>
    OBVIOUS
  <2>1. ASSUME NEW r \in Requests, Insert(r) PROVE [Quota!Next]_<<account, lost>>
    BY <2>1, InsertRefines
  <2>2. CASE UNCHANGED <<account, lost>>
    BY <2>2
  <2>3. ASSUME NEW c \in Creds,
               \/ CreateEAB(c) \/ DisableEAB(c) \/ EnableEAB(c)
               \/ ExpireEAB(c) \/ DeleteEABCheck(c) \/ DeleteEABCred(c)
        PROVE  UNCHANGED <<account, lost>>
    BY <2>3 DEF CreateEAB, DisableEAB, EnableEAB, ExpireEAB, DeleteEABCheck, DeleteEABCred
  <2>4. ASSUME NEW r \in Requests, NEW k \in Keys, NEW c \in Creds, Begin(r, k, c)
        PROVE  UNCHANGED <<account, lost>>
    BY <2>4 DEF Begin
  <2>5. ASSUME NEW r \in Requests,
               Lookup(r) \/ Verify(r) \/ Reserve(r) \/ Release(r) \/ Abandon(r)
        PROVE  UNCHANGED <<account, lost>>
    BY <2>5 DEF Lookup, Verify, Reserve, Release, Abandon
  <2>6. UNCHANGED vars => UNCHANGED <<account, lost>>
    BY DEF vars
  <2> QED
    BY <2>1, <2>2, <2>3, <2>4, <2>5, <2>6 DEF Next, Step
<1>3. IInv /\ [Next]_vars => IInv'
  BY ShapeNext, SlotNext DEF IInv
<1> QED
  BY <1>1, <1>2, <1>3, InitIInv, PTL DEF Spec, QuotaSpec, Quota!Spec, Quota!vars
=============================================================================
