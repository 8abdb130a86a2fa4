---------------------------- MODULE CaRetirement ----------------------------
(***************************************************************************)
(* Retiring an authority: RevokeCA (internal/ca/lifecycle.go), which with  *)
(* cascade revokes what the authority issued and retires its subordinate   *)
(* authorities first, next to Issue (internal/ca/service.go) and to the    *)
(* operators' changes of single certificates and authorities.              *)
(*                                                                         *)
(* RevokeCA and Issue are sequences of SQL statements, each atomic, that   *)
(* interleave; CertStatus has the detail of revoking single certificates.  *)
(* RevokeCA calls itself for each child, so a request carries a stack of   *)
(* authorities.  A parent is set when an authority is created, imported or *)
(* completed; one that awaits its signature has no certificate and counts  *)
(* as not created.  The reason of a RevokeCA is not certificateHold.       *)
(***************************************************************************)
EXTENDS Naturals, FiniteSets, Sequences, Functions

CONSTANTS
  CAs,            \* authorities
  Parent,         \* the parent of each authority, or NoCA
  NoCA,
  Keyed,          \* the authorities whose private key goca holds
  Certs,          \* certificates that may be issued
  Requests,       \* handlers in flight
  SearchLimit,    \* how many certificates RevokeCA's search returns at most
  Faults          \* whether the statements of RevokeCA can fail

\* No authority is above itself: a parent is there before its child.
ASSUME RetirementAssumption ==
  /\ NoCA \notin CAs
  /\ Parent \in [CAs -> CAs \cup {NoCA}]
  /\ \A S \in SUBSET CAs : S # {} => \E x \in S : Parent[x] \notin S
  /\ Keyed \subseteq CAs
  /\ IsFiniteSet(Certs)
  /\ SearchLimit \in Nat
  /\ Faults \in BOOLEAN

VARIABLES
  caStatus,    \* cas.status, or "none" while there is no such authority
  listed,      \* the authorities on the ca_revocations of their parent
  status,      \* certificates.status, with a hold told from a revocation
  issuer,      \* certificates.ca_id
  created,     \* the certificates in the order they were created
  pc,          \* the next statement of each request
  stack,       \* the authorities being retired, the innermost first; for an
               \* Issue, the authority that signs
  cascade,     \* RevokeCA: with cascade
  todo,        \* RevokeCA: the certificates still to be revoked
  kids,        \* RevokeCA: the children still to be retired, of each authority
  warned,      \* RevokeCA: the authorities whose result has a warning of something
               \* that failed (the fixed advice, on a root or on an issuer whose
               \* key goca does not hold, is left out)
  disturbed,   \* ghost: the requests during which an authority was enabled
  silent,      \* ghost: the requests in which a failure left no trace in the result
  early,       \* ghost: the certificates that were active when a RevokeCA disabled
               \* their issuer and were not put on hold since, for each request
  retired,     \* ghost: the authorities whose RevokeCA with cascade returned
               \* with nothing failed on the way, and no authority was enabled
               \* since it began
  slipped      \* ghost: the authorities created when a RevokeCA had read the children
               \* of their parent

caVars == <<caStatus, listed>>
certVars == <<status, issuer, created>>
ghosts == <<disturbed, silent, early, retired, slipped>>
locals == <<stack, cascade, todo, kids, warned>>
vars == <<caVars, certVars, pc, locals, ghosts>>

PCs == {"idle", "issue", "disable", "search", "sweep", "kids", "parent"}

TypeOK ==
  /\ caStatus \in [CAs -> {"none", "active", "disabled"}]
  /\ listed \in SUBSET {x \in CAs : Parent[x] # NoCA}
  /\ status \in [Certs -> {"none", "active", "held", "revoked"}]
  /\ issuer \in [Certs -> CAs \cup {NoCA}]
  /\ created \in Seq(Certs) /\ Range(created) = {c \in Certs : status[c] # "none"}
  /\ pc \in [Requests -> PCs]
  /\ stack \in [Requests -> Seq(CAs)]
  /\ \A r \in Requests : pc[r] # "idle" => stack[r] # <<>>
  /\ cascade \in [Requests -> BOOLEAN]
  /\ todo \in [Requests -> SUBSET Certs]
  /\ kids \in [Requests -> [CAs -> SUBSET CAs]]
  /\ warned \in [Requests -> SUBSET CAs]
  /\ disturbed \in SUBSET Requests
  /\ silent \in SUBSET Requests
  /\ early \in [Requests -> SUBSET Certs]
  /\ retired \in SUBSET CAs
  /\ slipped \in SUBSET CAs

NoKids == [x \in CAs |-> {}]

Init ==
  /\ caStatus = [x \in CAs |-> "none"]
  /\ listed = {}
  /\ status = [c \in Certs |-> "none"]
  /\ issuer = [c \in Certs |-> NoCA]
  /\ created = <<>>
  /\ pc = [r \in Requests |-> "idle"]
  /\ stack = [r \in Requests |-> <<>>]
  /\ cascade = [r \in Requests |-> FALSE]
  /\ todo = [r \in Requests |-> {}]
  /\ kids = [r \in Requests |-> NoKids]
  /\ warned = [r \in Requests |-> {}]
  /\ disturbed = {}
  /\ silent = {}
  /\ early = [r \in Requests |-> {}]
  /\ retired = {}
  /\ slipped = {}

---------------------------------------------------------------------------
(* Helpers *)

Goto(r, label) == pc' = [pc EXCEPT ![r] = label]

\* The handler returns; its locals are gone.
Return(r) ==
  /\ Goto(r, "idle")
  /\ stack' = [stack EXCEPT ![r] = <<>>]
  /\ cascade' = [cascade EXCEPT ![r] = FALSE]
  /\ todo' = [todo EXCEPT ![r] = {}]
  /\ kids' = [kids EXCEPT ![r] = NoKids]
  /\ warned' = [warned EXCEPT ![r] = {}]
  /\ disturbed' = disturbed \ {r}
  /\ silent' = silent \ {r}
  /\ early' = [early EXCEPT ![r] = {}]

ChildCAs(x) == {y \in CAs : Parent[y] = x /\ caStatus[y] # "none"}

\* The authorities being retired whose children RevokeCA has read: the callers, and
\* the innermost one once it has.
Walked(r) ==
  {i \in 1 .. Len(stack[r]) : i > 1 \/ pc[r] = "kids" \/ (pc[r] = "parent" /\ cascade[r])}

\* checkCanIssue.
CanIssue(x) == caStatus[x] = "active" /\ x \in Keyed

\* Mutant: the authority's own key decides, and a root is revoked too.
OnOwnKey(x) == x \in Keyed

\* RevokeCA can put x on its parent's CRL.
OnParent(x) == Parent[x] # NoCA /\ Parent[x] \in Keyed

\* SearchCertificates by authority: its oldest certificates, revoked or not,
\* up to the limit.
SearchCertificates(x) ==
  LET Upto(i) == {j \in 1 .. i : issuer[created[j]] = x}
  IN  {created[i] : i \in {i \in DOMAIN created : /\ issuer[created[i]] = x
                                                 /\ Cardinality(Upto(i)) <= SearchLimit}}

---------------------------------------------------------------------------
(* Operators and Issue *)

\* CreateCA, ImportCA or CompleteSubordinate: a new authority is active, whatever
\* the status of its parent.
CreateCA(x) ==
  /\ caStatus[x] = "none"
  /\ Parent[x] # NoCA => caStatus[Parent[x]] # "none"
  /\ caStatus' = [caStatus EXCEPT ![x] = "active"]
  /\ slipped' = IF Parent[x] \in retired \cup UNION {{stack[r][i] : i \in Walked(r)} : r \in Requests}
                THEN slipped \cup {x} ELSE slipped
  /\ UNCHANGED <<listed, certVars, pc, locals, disturbed, silent, early, retired>>

SetCAStatus(x, s) ==
  /\ caStatus[x] \notin {"none", s}
  /\ caStatus' = [caStatus EXCEPT ![x] = s]
  /\ IF s = "active"
     THEN /\ retired' = {} /\ slipped' = {}
          /\ disturbed' = {r \in Requests : pc[r] # "idle"}
     ELSE UNCHANGED <<retired, slipped, disturbed>>
  /\ UNCHANGED <<listed, certVars, pc, locals, silent, early>>

\* Hold, Release and Revoke of one certificate.
Hold(c) ==
  /\ status[c] = "active"
  /\ status' = [status EXCEPT ![c] = "held"]
  /\ early' = [r \in Requests |-> early[r] \ {c}]
  /\ UNCHANGED <<caVars, issuer, created, pc, locals, disturbed, silent, retired, slipped>>

Release(c) ==
  /\ status[c] = "held"
  /\ status' = [status EXCEPT ![c] = "active"]
  /\ UNCHANGED <<caVars, issuer, created, pc, locals, ghosts>>

Revoke(c) ==
  /\ status[c] = "active"
  /\ status' = [status EXCEPT ![c] = "revoked"]
  /\ UNCHANGED <<caVars, issuer, created, pc, locals, ghosts>>

\* Issue: GetCAByRef and checkCanIssue, when the authority may issue.
BeginIssue(r, x) ==
  /\ pc[r] = "idle"
  /\ CanIssue(x)
  /\ Goto(r, "issue")
  /\ stack' = [stack EXCEPT ![r] = <<x>>]
  /\ UNCHANGED <<caVars, certVars, cascade, todo, kids, warned, ghosts>>

\* Issue: the certificate is signed and CreateCertificate stores it.
IssueInsert(r, c) ==
  /\ pc[r] = "issue"
  /\ status[c] = "none"
  /\ status' = [status EXCEPT ![c] = "active"]
  /\ issuer' = [issuer EXCEPT ![c] = Head(stack[r])]
  /\ created' = Append(created, c)
  /\ Return(r)
  /\ UNCHANGED <<caVars, retired, slipped>>

---------------------------------------------------------------------------
(* RevokeCA *)

BeginRevokeCA(r, x, withCascade) ==
  /\ pc[r] = "idle"
  /\ caStatus[x] # "none"
  /\ Goto(r, "disable")
  /\ stack' = [stack EXCEPT ![r] = <<x>>]
  /\ cascade' = [cascade EXCEPT ![r] = withCascade]
  /\ UNCHANGED <<caVars, certVars, todo, kids, warned, ghosts>>

\* RevokeCA returns, to the RevokeCA that called it for a child or to its
\* caller.  The warnings in the result of a child are dropped.
Pop(r, whole) ==
  IF Len(stack[r]) = 1 THEN Return(r)
  ELSE /\ stack' = [stack EXCEPT ![r] = Tail(@)]
       /\ Goto(r, "kids")
       /\ silent' = IF whole THEN silent ELSE silent \cup {r}
       /\ UNCHANGED <<cascade, todo, kids, warned, disturbed, early>>

\* GetCA, SetCAStatus or SearchCertificates fails: RevokeCA returns the error,
\* which is a warning to the RevokeCA that called it for a child.
RetireFails(r) ==
  /\ Faults
  /\ pc[r] \in {"disable", "search"}
  /\ IF Len(stack[r]) = 1 THEN Return(r)
     ELSE /\ stack' = [stack EXCEPT ![r] = Tail(@)]
          /\ warned' = [warned EXCEPT ![r] = @ \cup {stack[r][2]}]
          /\ Goto(r, "kids")
          /\ UNCHANGED <<cascade, todo, kids, disturbed, silent, early>>
  /\ UNCHANGED <<caVars, certVars, retired, slipped>>

\* "Stop new issuance first, so nothing slips through mid-operation."
RetireDisable(r) ==
  LET x == Head(stack[r]) IN
  /\ pc[r] = "disable"
  /\ caStatus' = [caStatus EXCEPT ![x] = "disabled"]
  /\ early' = [early EXCEPT ![r] =
                 @ \cup {c \in Certs : issuer[c] = x /\ status[c] = "active"}]
  /\ Goto(r, IF cascade[r] THEN "search" ELSE "parent")
  /\ UNCHANGED <<listed, certVars, locals, disturbed, silent, retired, slipped>>

\* The certificates to revoke; the revoked ones, and those on hold, are passed over.
RetireSearch(r) ==
  /\ pc[r] = "search"
  /\ todo' = [todo EXCEPT ![r] = {c \in SearchCertificates(Head(stack[r])) : status[c] = "active"}]
  /\ Goto(r, "sweep")
  /\ UNCHANGED <<caVars, certVars, stack, cascade, kids, warned, ghosts>>

\* Mutant: a certificate that cannot be revoked is passed over in silence.
RetireSweepSilent(r) ==
  /\ pc[r] = "sweep"
  /\ \E c \in todo[r] :
       /\ todo' = [todo EXCEPT ![r] = @ \ {c}]
       /\ \/ status[c] = "active" /\ status' = [status EXCEPT ![c] = "revoked"]
          \/ Faults /\ UNCHANGED status
  /\ UNCHANGED <<caVars, issuer, created, pc, stack, cascade, kids, warned, ghosts>>

\* RevokeCertificate for one of them; if it fails, or finds it revoked or on
\* hold meanwhile, a warning is left.
RetireSweep(r) ==
  /\ pc[r] = "sweep"
  /\ \E c \in todo[r] :
       /\ todo' = [todo EXCEPT ![r] = @ \ {c}]
       /\ \/ /\ status[c] = "active"
             /\ status' = [status EXCEPT ![c] = "revoked"]
             /\ UNCHANGED warned
          \/ /\ Faults \/ status[c] # "active"
             /\ warned' = [warned EXCEPT ![r] = @ \cup {Head(stack[r])}]
             /\ UNCHANGED status
  /\ UNCHANGED <<caVars, issuer, created, pc, stack, cascade, kids, ghosts>>

\* ChildCAs, when the certificates are done.  If the query fails RevokeCA goes
\* on as if there were no children.
RetireChildren(r) ==
  LET x == Head(stack[r]) IN
  /\ pc[r] = "sweep"
  /\ todo[r] = {}
  /\ \/ kids' = [kids EXCEPT ![r][x] = ChildCAs(x)] /\ UNCHANGED silent
     \/ Faults /\ silent' = silent \cup {r} /\ UNCHANGED kids
  /\ Goto(r, "kids")
  /\ UNCHANGED <<caVars, certVars, stack, cascade, todo, warned, disturbed, early,
                 retired, slipped>>

\* Mutant: a child that is disabled already is taken for retired.
RetireChildSkips(r) ==
  LET x == Head(stack[r]) IN
  /\ pc[r] = "kids"
  /\ \E y \in kids[r][x] :
       /\ kids' = [kids EXCEPT ![r][x] = @ \ {y}]
       /\ IF caStatus[y] = "disabled" THEN UNCHANGED <<stack, pc>>
          ELSE /\ stack' = [stack EXCEPT ![r] = <<y>> \o @]
               /\ Goto(r, "disable")
  /\ UNCHANGED <<caVars, certVars, cascade, todo, warned, ghosts>>

\* RevokeCA for the next child.
RetireChild(r) ==
  LET x == Head(stack[r]) IN
  /\ pc[r] = "kids"
  /\ \E y \in kids[r][x] :
       /\ kids' = [kids EXCEPT ![r][x] = @ \ {y}]
       /\ stack' = [stack EXCEPT ![r] = <<y>> \o @]
       /\ Goto(r, "disable")
  /\ UNCHANGED <<caVars, certVars, cascade, todo, warned, ghosts>>

RetireChildrenDone(r) ==
  /\ pc[r] = "kids"
  /\ kids[r][Head(stack[r])] = {}
  /\ Goto(r, "parent")
  /\ UNCHANGED <<caVars, certVars, locals, ghosts>>

\* RecordCARevocation on the parent, if goca holds its key; if it fails a
\* warning is left, but not if the parent could not be read.  Then RevokeCA
\* returns.
RetireParent(r) ==
  LET x == Head(stack[r]) IN
  /\ pc[r] = "parent"
  /\ \E outcome \in {"recorded", "unread", "failed"} :
       LET whole == x \notin warned[r] /\ outcome = "recorded" IN
       /\ outcome # "recorded" => Faults /\ Parent[x] # NoCA
       /\ outcome = "failed" => OnParent(x)
       /\ listed' = IF OnParent(x) /\ outcome = "recorded" THEN listed \cup {x} ELSE listed
       /\ retired' = IF cascade[r] /\ whole /\ r \notin disturbed \cup silent
                     THEN retired \cup {x} ELSE retired
       /\ slipped' = slipped \ retired'
       /\ Pop(r, whole)
  /\ UNCHANGED <<caStatus, certVars>>

\* The process dies, or the caller's context is cancelled.
Abandon(r) ==
  /\ pc[r] # "idle"
  /\ Return(r)
  /\ UNCHANGED <<caVars, certVars, retired, slipped>>

RetireStep(r) ==
  \/ RetireDisable(r) \/ RetireSearch(r) \/ RetireSweep(r) \/ RetireChildren(r)
  \/ RetireChild(r) \/ RetireChildrenDone(r) \/ RetireParent(r) \/ RetireFails(r)

Next ==
  \/ \E x \in CAs : CreateCA(x)
  \/ \E x \in CAs, s \in {"active", "disabled"} : SetCAStatus(x, s)
  \/ \E c \in Certs : Hold(c) \/ Release(c) \/ Revoke(c)
  \/ \E r \in Requests, x \in CAs : BeginIssue(r, x)
  \/ \E r \in Requests, c \in Certs : IssueInsert(r, c)
  \/ \E r \in Requests, x \in CAs, b \in BOOLEAN : BeginRevokeCA(r, x, b)
  \/ \E r \in Requests : RetireStep(r) \/ Abandon(r)

Spec == Init /\ [][Next]_vars

\* A RevokeCA that is not abandoned goes on.
FairSpec == Spec /\ \A r \in Requests : WF_vars(RetireStep(r))

---------------------------------------------------------------------------
(* Properties *)

\* x and the authorities beneath it, however deep, without those created too late: what
\* is in every set that has x and, with an authority, its other children.
Beneath(x) ==
  {y \in CAs : \A S \in SUBSET CAs :
                 x \in S /\ (\A z \in S : ChildCAs(z) \ slipped \subseteq S) => y \in S}

\* docs/usage.md: "also revoke every certificate issued by it, and any
\* subordinate authorities beneath it".  When RevokeCA with cascade returns, and
\* no statement failed on the way, the authority and everything beneath it,
\* however deep, are disabled, and listed by their parents where goca holds the
\* key, whatever other cascades and operators do at the same time.  Two things
\* undo it: an operator enables an authority again, and CreateCA puts a new one
\* beneath an authority whose children RevokeCA has read.
CascadeComplete ==
  \A x \in retired : \A y \in Beneath(x) :
    caStatus[y] = "disabled" /\ (OnParent(y) => y \in listed)

\* The certificates that were active when r disabled their issuer, the authority it is
\* about to be done with, and were not put on hold since; unless r warned of something.
Promised(r) ==
  {c \in early[r] : /\ pc[r] = "parent" /\ cascade[r]
                    /\ issuer[c] = Head(stack[r]) /\ Head(stack[r]) \notin warned[r]}

\* RevokeCA: "with cascade, every certificate it issued is revoked too", for what the
\* search can return: what was active when RevokeCA disabled its issuer, was not put on
\* hold since and is among the issuer's first SearchLimit certificates, is revoked when
\* RevokeCA comes to return without a warning, and Revoke is for good.  Nothing is said
\* of the certificates past the limit, nor of one that an Issue past its check stores
\* later (NothingSlipsThrough).
EarlyAreRevoked ==
  \A r \in Requests : \A c \in Promised(r) :
    c \in SearchCertificates(issuer[c]) => status[c] = "revoked"

\* The same of every certificate, as RevokeCA's comment has it.
AllEarlyAreRevoked == \A r \in Requests : \A c \in Promised(r) : status[c] = "revoked"

\* RevokeCA: "It is disabled so nothing more can be issued from it", and "Stop new
\* issuance first, so nothing slips through mid-operation."  No certificate is stored
\* for a disabled authority.
NothingSlipsThrough ==
  [][\A c \in Certs : status[c] = "none" /\ status'[c] # "none" => caStatus[issuer'[c]] = "active"]_vars

\* Nor is an authority created beneath it.
NoChildOfDisabled ==
  [][\A x \in CAs : /\ caStatus[x] = "none" /\ caStatus'[x] # "none"
                     /\ Parent[x] # NoCA
                     => caStatus[Parent[x]] = "active"]_vars

\* The walk over the authorities ends: a RevokeCA returns, or is abandoned.
RetirementEnds == \A r \in Requests : pc[r] \in {"disable", "search", "sweep", "kids", "parent"} ~> pc[r] = "idle"
=============================================================================
