------------------------- MODULE CaRetirementProofs -------------------------
(***************************************************************************)
(* What the runs of CaRetirement check on chains of two and three          *)
(* authorities, for every forest of authorities and for any certificates   *)
(* and requests, whatever fails.                                           *)
(***************************************************************************)
EXTENDS CaRetirement, FiniteSetTheorems, TLAPS

\* The authorities being retired are each the child of the next.
Chain(s) == \A i \in 1 .. Len(s) : i < Len(s) => Parent[s[i]] = s[i + 1]

\* A frame that nothing failed in has its children retired, on the stack or still to do,
\* those created too late aside.
Follows(r, x) ==
  \/ x \in warned[r]
  \/ ChildCAs(x) \ slipped \subseteq kids[r][x] \cup Range(stack[r]) \cup retired

\* A RevokeCA on its way, past its first statement with what it has disabled and
\* read.
Frames(r) ==
  /\ \A x \in CAs : kids[r][x] \subseteq ChildCAs(x)
  /\ pc[r] # "idle" =>
       /\ Chain(stack[r])
       /\ \A i \in 1 .. Len(stack[r]) : caStatus[stack[r][i]] # "none"
       /\ pc[r] \in {"search", "sweep", "kids"} \/ Len(stack[r]) > 1 => cascade[r]
       /\ pc[r] = "parent" /\ cascade[r] => kids[r][stack[r][1]] = {}
       /\ r \notin disturbed =>
            \A i \in 1 .. Len(stack[r]) : i > 1 \/ pc[r] \notin {"issue", "disable"} =>
              caStatus[stack[r][i]] = "disabled"
       /\ r \notin disturbed \cup silent => \A i \in Walked(r) : Follows(r, stack[r][i])

\* The authorities that count as retired are, and with one its children.
Retired ==
  \A x \in retired : /\ caStatus[x] = "disabled" /\ (OnParent(x) => x \in listed)
                     /\ ChildCAs(x) \ slipped \subseteq retired

CascadeInv == TypeOK /\ Retired /\ \A r \in Requests : Frames(r)

\* The search for the certificates of its issuer returns c.
Found(c) == c \in SearchCertificates(issuer[c])

\* All of S that x issued, and the search returns, are revoked.
Swept(x, S) == \A c \in S : issuer[c] = x /\ Found(c) => status[c] = "revoked"

\* What r found active is active or revoked; it is revoked where r is done with the
\* certificates, or there is a warning.
Sweeps(r) ==
  /\ \A c \in early[r] : status[c] \in {"active", "revoked"}
  /\ pc[r] # "idle" =>
       /\ \A i \in Walked(r) : stack[r][i] \in warned[r] \/ Swept(stack[r][i], early[r])
       /\ pc[r] = "sweep" => stack[r][1] \in warned[r] \/ Swept(stack[r][1], early[r] \ todo[r])

SweepInv == CascadeInv /\ \A r \in Requests : Sweeps(r)

---------------------------------------------------------------------------
(* Stacks *)

\* The innermost authority.
LEMMA Innermost ==
  ASSUME NEW T, NEW s \in Seq(T), s # <<>>
  PROVE  /\ Head(s) = s[1] /\ s[1] \in T /\ Len(s) \in Nat \ {0} /\ 1 \in 1 .. Len(s)
         /\ s[1] \in Range(s) /\ \A i \in 1 .. Len(s) : s[i] \in T
<1>1. Head(s) = s[1] /\ s[1] \in T /\ Len(s) \in Nat \ {0} /\ 1 \in 1 .. Len(s)
  OBVIOUS
<1> QED
  BY <1>1 DEF Range

\* A call for a child: what is pushed is the first, the others move up.
LEMMA Pushed ==
  ASSUME NEW T, NEW y \in T, NEW s \in Seq(T)
  PROVE  LET t == <<y>> \o s IN
         /\ t \in Seq(T) /\ t # <<>> /\ Len(t) = Len(s) + 1 /\ t[1] = y
         /\ \A i \in 1 .. Len(t) : i > 1 => i - 1 \in 1 .. Len(s) /\ t[i] = s[i - 1]
         /\ Range(t) = {y} \cup Range(s)
<1> DEFINE t == <<y>> \o s
<1>1. /\ t \in Seq(T) /\ t # <<>> /\ Len(t) = Len(s) + 1 /\ t[1] = y
      /\ \A i \in 1 .. Len(t) : i > 1 => i - 1 \in 1 .. Len(s) /\ t[i] = s[i - 1]
  OBVIOUS
<1>2. \A i \in 1 .. Len(s) : i + 1 \in 1 .. Len(t) /\ t[i + 1] = s[i]
  OBVIOUS
<1>3. DOMAIN t = 1 .. Len(t) /\ DOMAIN s = 1 .. Len(s) /\ 1 \in 1 .. Len(t) /\ Len(s) \in Nat
  BY <1>1
<1> HIDE DEF t
<1>4. Range(t) = {y} \cup Range(s)
  <2>1. ASSUME NEW z \in Range(t) PROVE z \in {y} \cup Range(s)
    BY <1>1, <1>3 DEF Range
  <2>2. ASSUME NEW z \in Range(s) PROVE z \in Range(t)
    BY <1>2, <1>3 DEF Range
  <2>3. y \in Range(t)
    BY <1>1, <1>3 DEF Range
  <2> QED
    BY <2>1, <2>2, <2>3
<1> QED
  BY <1>1, <1>4 DEF t

\* A return to the caller.
LEMMA Popped ==
  ASSUME NEW T, NEW s \in Seq(T), s # <<>>, Len(s) # 1
  PROVE  LET t == Tail(s) IN
         /\ t \in Seq(T) /\ t # <<>> /\ Len(t) = Len(s) - 1 /\ t[1] = s[2]
         /\ \A i \in 1 .. Len(t) : i + 1 \in 1 .. Len(s) /\ t[i] = s[i + 1]
         /\ Range(s) = {s[1]} \cup Range(t)
         /\ 2 \in 1 .. Len(s) /\ s[2] \in T
<1> DEFINE t == Tail(s)
<1>1. Len(s) \in Nat /\ Len(s) > 1
  <2> DEFINE n == Len(s)
  <2>1. n \in Nat \ {0} /\ n # 1
    BY Innermost
  <2> HIDE DEF n
  <2>2. n \in Nat /\ n > 1
    BY <2>1
  <2> QED
    BY <2>2 DEF n
<1>2. /\ t \in Seq(T) /\ Len(t) = Len(s) - 1
      /\ \A i \in 1 .. Len(t) : i + 1 \in 1 .. Len(s) /\ t[i] = s[i + 1]
  BY <1>1
<1>3. t # <<>> /\ t[1] = s[2] /\ 2 \in 1 .. Len(s) /\ s[2] \in T
  <2>1. 2 \in 1 .. Len(s) /\ 1 \in 1 .. Len(t) /\ Len(t) # 0
    BY <1>1, <1>2
  <2>2. t[1] = s[1 + 1] /\ s[2] \in T
    BY <1>2, <2>1, Innermost
  <2>3. t # <<>>
    <3>1. Len(<<>>) = 0
      OBVIOUS
    <3> HIDE DEF t
    <3> QED
      BY <2>1, <3>1
  <2> QED
    BY <2>1, <2>2, <2>3
<1>4. DOMAIN t = 1 .. Len(t) /\ DOMAIN s = 1 .. Len(s) /\ 1 \in DOMAIN s
  BY <1>1, <1>2
<1>5. \A i \in 1 .. Len(s) : i > 1 => i - 1 \in 1 .. Len(t) /\ t[i - 1] = s[i]
  BY <1>1, <1>2
<1> HIDE DEF t
<1>6. Range(s) = {s[1]} \cup Range(t)
  <2>1. ASSUME NEW z \in Range(s) PROVE z \in {s[1]} \cup Range(t)
    BY <1>1, <1>4, <1>5 DEF Range
  <2>2. ASSUME NEW z \in Range(t) PROVE z \in Range(s)
    BY <1>2, <1>4 DEF Range
  <2>3. s[1] \in Range(s)
    BY <1>4 DEF Range
  <2> QED
    BY <2>1, <2>2, <2>3
<1> QED
  BY <1>2, <1>3, <1>6 DEF t

\* No authority is above itself, so that none is on a stack twice.
LEMMA NoneTwice ==
  ASSUME NEW s \in Seq(CAs), Chain(s), NEW k \in 1 .. Len(s), k > 1
  PROVE  s[k] # s[1]
<1> SUFFICES ASSUME s[k] = s[1] PROVE FALSE
  OBVIOUS
<1> DEFINE S == {s[i] : i \in 1 .. (k - 1)}
<1>0. Len(s) \in Nat /\ k \in Nat
  OBVIOUS
<1>1. S \in SUBSET CAs /\ s[1] \in S
  BY <1>0
<1>2. ASSUME NEW i \in 1 .. (k - 1) PROVE Parent[s[i]] \in S
  <2>1. i \in 1 .. Len(s) /\ i < Len(s)
    BY <1>0
  <2>2. Parent[s[i]] = s[i + 1]
    BY <2>1 DEF Chain
  <2>3. CASE i = k - 1
    BY <1>0, <1>1, <2>2, <2>3
  <2>4. CASE i # k - 1
    <3>1. i + 1 \in 1 .. (k - 1)
      BY <1>0, <2>4
    <3> QED
      BY <2>2, <3>1
  <2> QED
    BY <2>3, <2>4
<1>3. \A x \in S : Parent[x] \in S
  BY <1>2
<1> HIDE DEF S
<1> QED
  BY <1>1, <1>3, RetirementAssumption

\* A chain grows by a child of its first, which is not yet in it.
LEMMA ChainGrows ==
  ASSUME NEW s \in Seq(CAs), s # <<>>, Chain(s), NEW y \in CAs, Parent[y] = s[1]
  PROVE  Chain(<<y>> \o s) /\ y \notin Range(s)
<1> DEFINE t == <<y>> \o s
<1>1. /\ t \in Seq(CAs) /\ Len(t) = Len(s) + 1 /\ t[1] = y
      /\ \A i \in 1 .. Len(t) : i > 1 => i - 1 \in 1 .. Len(s) /\ t[i] = s[i - 1]
  BY Pushed
<1>2. Len(s) \in Nat \ {0} /\ Len(t) \in Nat
  BY <1>1
<1>x. \A i \in 1 .. Len(s) : i + 1 \in 1 .. Len(t) /\ i + 1 > 1 /\ t[i + 1] = s[i]
  BY <1>1, <1>2
<1> HIDE DEF t
<1>3. Chain(t)
  <2> SUFFICES ASSUME NEW i \in 1 .. Len(t), i < Len(t) PROVE Parent[t[i]] = t[i + 1]
    BY DEF Chain
  <2>0. i \in 1 .. Len(s)
    BY <1>1, <1>2
  <2>1. t[i + 1] = s[i]
    BY <1>x, <2>0
  <2>2. CASE i = 1
    BY <1>1, <2>1, <2>2
  <2>3. CASE i # 1
    <3>1. i - 1 \in 1 .. Len(s) /\ t[i] = s[i - 1] /\ i - 1 < Len(s) /\ (i - 1) + 1 = i
      BY <1>1, <1>2, <2>3
    <3>2. Parent[s[i - 1]] = s[(i - 1) + 1]
      BY <3>1 DEF Chain
    <3> QED
      BY <2>1, <3>1, <3>2
  <2> QED
    BY <2>2, <2>3
<1>4. y \notin Range(s)
  <2> SUFFICES ASSUME NEW k \in 1 .. Len(s), s[k] = y PROVE FALSE
    BY DEF Range
  <2> QED
    BY <1>1, <1>2, <1>3, <1>x, NoneTwice
<1> QED
  BY <1>3, <1>4 DEF t

\* What is left of a chain is one.
LEMMA ChainShrinks ==
  ASSUME NEW s \in Seq(CAs), s # <<>>, Len(s) # 1, Chain(s)
  PROVE  Chain(Tail(s)) /\ Parent[s[1]] = s[2] /\ Tail(s)[1] = s[2]
<1> DEFINE t == Tail(s)
<1>1. /\ t \in Seq(CAs) /\ Len(t) = Len(s) - 1 /\ t[1] = s[2]
      /\ \A i \in 1 .. Len(t) : i + 1 \in 1 .. Len(s) /\ t[i] = s[i + 1]
  BY Popped
<1>2. Len(s) \in Nat /\ Len(s) > 1
  <2> DEFINE n == Len(s)
  <2>1. n \in Nat \ {0} /\ n # 1
    BY Innermost
  <2> HIDE DEF n
  <2>2. n \in Nat /\ n > 1
    BY <2>1
  <2> QED
    BY <2>2 DEF n
<1>3. Parent[s[1]] = s[2]
  BY <1>2 DEF Chain
<1> HIDE DEF t
<1>4. Chain(t)
  <2> SUFFICES ASSUME NEW i \in 1 .. Len(t), i < Len(t) PROVE Parent[t[i]] = t[i + 1]
    BY DEF Chain
  <2>1. /\ i + 1 \in 1 .. Len(t) /\ i + 1 \in 1 .. Len(s) /\ i + 1 < Len(s)
        /\ t[i] = s[i + 1] /\ t[i + 1] = s[(i + 1) + 1]
    BY <1>1, <1>2
  <2> QED
    BY <2>1 DEF Chain
<1> QED
  BY <1>1, <1>3, <1>4 DEF t

---------------------------------------------------------------------------
(* Types *)

\* TypeOK in three parts.
RowsOK ==
  /\ caStatus \in [CAs -> {"none", "active", "disabled"}]
  /\ listed \in SUBSET {x \in CAs : Parent[x] # NoCA}
  /\ status \in [Certs -> {"none", "active", "held", "revoked"}]
  /\ issuer \in [Certs -> CAs \cup {NoCA}]
  /\ created \in Seq(Certs) /\ Range(created) = {c \in Certs : status[c] # "none"}

LocalsOK ==
  /\ pc \in [Requests -> PCs]
  /\ stack \in [Requests -> Seq(CAs)]
  /\ \A r \in Requests : pc[r] # "idle" => stack[r] # <<>>
  /\ cascade \in [Requests -> BOOLEAN]
  /\ todo \in [Requests -> SUBSET Certs]
  /\ kids \in [Requests -> [CAs -> SUBSET CAs]]
  /\ warned \in [Requests -> SUBSET CAs]

GhostsOK ==
  /\ disturbed \in SUBSET Requests
  /\ silent \in SUBSET Requests
  /\ early \in [Requests -> SUBSET Certs]
  /\ retired \in SUBSET CAs
  /\ slipped \in SUBSET CAs

LEMMA TypeParts == (TypeOK <=> RowsOK /\ LocalsOK /\ GhostsOK)
BY DEF TypeOK, RowsOK, LocalsOK, GhostsOK

LEMMA TypePartsNext == (TypeOK' <=> RowsOK' /\ LocalsOK' /\ GhostsOK')
BY DEF TypeOK, RowsOK, LocalsOK, GhostsOK

\* The statements of a request on the way, and the innermost authority.
LEMMA OnTheWay ==
  ASSUME LocalsOK, NEW r \in Requests, pc[r] # "idle"
  PROVE  /\ stack[r] \in Seq(CAs) /\ stack[r] # <<>>
         /\ Head(stack[r]) = stack[r][1] /\ stack[r][1] \in CAs
BY Innermost DEF LocalsOK

\* A handler returns.
LEMMA ReturnTypes ==
  ASSUME LocalsOK, GhostsOK, NEW r \in Requests, Return(r),
         UNCHANGED <<retired, slipped>>
  PROVE  LocalsOK' /\ GhostsOK' /\ pc'[r] = "idle"
<1>1. <<>> \in Seq(CAs) /\ NoKids \in [CAs -> SUBSET CAs] /\ "idle" \in PCs
  BY DEF NoKids, PCs
<1> QED
  BY <1>1 DEF LocalsOK, GhostsOK, Return, Goto

\* It goes on with another statement, and has another stack.
LEMMA GotoTypes ==
  ASSUME LocalsOK, NEW r \in Requests, NEW l \in PCs, Goto(r, l),
         NEW s \in Seq(CAs), s # <<>>, stack' = [stack EXCEPT ![r] = s],
         cascade' \in [Requests -> BOOLEAN], todo' \in [Requests -> SUBSET Certs],
         kids' \in [Requests -> [CAs -> SUBSET CAs]], warned' \in [Requests -> SUBSET CAs]
  PROVE  LocalsOK'
BY DEF LocalsOK, Goto

\* The same with the stack as it is.
LEMMA StayTypes ==
  ASSUME LocalsOK, NEW r \in Requests, NEW l \in PCs, Goto(r, l), pc[r] # "idle",
         stack' = stack,
         cascade' \in [Requests -> BOOLEAN], todo' \in [Requests -> SUBSET Certs],
         kids' \in [Requests -> [CAs -> SUBSET CAs]], warned' \in [Requests -> SUBSET CAs]
  PROVE  LocalsOK'
BY DEF LocalsOK, Goto

\* The children of one authority are set.
LEMMA KidsTypes ==
  ASSUME LocalsOK, NEW r \in Requests, NEW x \in CAs, NEW S \in SUBSET CAs
  PROVE  [kids EXCEPT ![r][x] = S] \in [Requests -> [CAs -> SUBSET CAs]]
BY DEF LocalsOK

\* Every step keeps the types.
LEMMA TypeStep == TypeOK /\ [Next]_vars => TypeOK'
<1> SUFFICES ASSUME TypeOK, [Next]_vars PROVE TypeOK'
  OBVIOUS
<1>0. RowsOK /\ LocalsOK /\ GhostsOK
  BY TypeParts
<1> SUFFICES RowsOK' /\ LocalsOK' /\ GhostsOK'
  BY TypePartsNext
<1>p. {"idle", "issue", "disable", "search", "sweep", "kids", "parent"} \subseteq PCs
  BY DEF PCs
<1>1. ASSUME NEW x \in CAs, NEW s \in {"active", "disabled"}, SetCAStatus(x, s)
      PROVE  RowsOK' /\ LocalsOK' /\ GhostsOK'
  BY <1>0, <1>1 DEF RowsOK, LocalsOK, GhostsOK, SetCAStatus, certVars, locals
<1>2. ASSUME NEW c \in Certs, Hold(c) \/ Release(c) \/ Revoke(c)
      PROVE  RowsOK' /\ LocalsOK' /\ GhostsOK'
  <2>1. RowsOK'
    BY <1>0, <1>2 DEF RowsOK, Hold, Release, Revoke, caVars
  <2>2. LocalsOK'
    BY <1>0, <1>2 DEF LocalsOK, Hold, Release, Revoke, locals
  <2>3. GhostsOK'
    BY <1>0, <1>2 DEF GhostsOK, Hold, Release, Revoke, ghosts
  <2> QED
    BY <2>1, <2>2, <2>3
<1>3. ASSUME NEW r \in Requests, NEW x \in CAs, BeginIssue(r, x)
      PROVE  RowsOK' /\ LocalsOK' /\ GhostsOK'
  <2>1. RowsOK' /\ GhostsOK'
    BY <1>0, <1>3 DEF RowsOK, GhostsOK, BeginIssue, caVars, certVars, ghosts
  <2>2. <<x>> \in Seq(CAs) /\ <<x>> # <<>>
    OBVIOUS
  <2>3. LocalsOK'
    BY <1>0, <1>3, <1>p, <2>2, GotoTypes DEF LocalsOK, BeginIssue
  <2> QED
    BY <2>1, <2>3
<1>4. ASSUME NEW r \in Requests, NEW c \in Certs, IssueInsert(r, c)
      PROVE  RowsOK' /\ LocalsOK' /\ GhostsOK'
  <2>1. LocalsOK' /\ GhostsOK'
    BY <1>0, <1>4, ReturnTypes DEF IssueInsert
  <2>2. created' \in Seq(Certs) /\ Range(created') = Range(created) \cup {c}
    <3>1. /\ created' \in Seq(Certs) /\ Len(created') = Len(created) + 1 /\ Len(created) \in Nat
          /\ \A i \in 1 .. Len(created) : created'[i] = created[i]
          /\ created'[Len(created) + 1] = c
      BY <1>0, <1>4 DEF RowsOK, IssueInsert
    <3>2. DOMAIN created' = 1 .. Len(created) + 1 /\ DOMAIN created = 1 .. Len(created)
      BY <1>0, <3>1 DEF RowsOK
    <3> QED
      BY <3>1, <3>2 DEF Range
  <2>3. Head(stack[r]) \in CAs
    BY <1>0, <1>4, OnTheWay DEF IssueInsert
  <2>4. RowsOK'
    BY <1>0, <1>4, <2>2, <2>3 DEF RowsOK, IssueInsert, caVars
  <2> QED
    BY <2>1, <2>4
<1>5. ASSUME NEW r \in Requests, NEW x \in CAs, NEW b \in BOOLEAN, BeginRevokeCA(r, x, b)
      PROVE  RowsOK' /\ LocalsOK' /\ GhostsOK'
  <2>1. RowsOK' /\ GhostsOK'
    BY <1>0, <1>5 DEF RowsOK, GhostsOK, BeginRevokeCA, caVars, certVars, ghosts
  <2>2. <<x>> \in Seq(CAs) /\ <<x>> # <<>>
    OBVIOUS
  <2>3. LocalsOK'
    BY <1>0, <1>5, <1>p, <2>2, GotoTypes DEF LocalsOK, BeginRevokeCA
  <2> QED
    BY <2>1, <2>3
<1>6. ASSUME NEW r \in Requests, RetireDisable(r) PROVE RowsOK' /\ LocalsOK' /\ GhostsOK'
  <2>1. pc[r] # "idle" /\ Head(stack[r]) \in CAs
    BY <1>0, <1>6, OnTheWay DEF RetireDisable
  <2>2. RowsOK' /\ GhostsOK'
    BY <1>0, <1>6, <2>1 DEF RowsOK, GhostsOK, RetireDisable, certVars
  <2>3. LocalsOK'
    BY <1>0, <1>6, <1>p, <2>1, StayTypes DEF LocalsOK, RetireDisable, locals
  <2> QED
    BY <2>2, <2>3
<1>7. ASSUME NEW r \in Requests, RetireSearch(r) PROVE RowsOK' /\ LocalsOK' /\ GhostsOK'
  <2>1. RowsOK' /\ GhostsOK'
    BY <1>0, <1>7 DEF RowsOK, GhostsOK, RetireSearch, caVars, certVars, ghosts
  <2>2. ASSUME NEW x PROVE SearchCertificates(x) \subseteq Certs
    <3>1. \A i \in DOMAIN created : created[i] \in Certs
      BY <1>0 DEF RowsOK
    <3> QED
      BY <3>1 DEF SearchCertificates
  <2>3. todo' \in [Requests -> SUBSET Certs]
    BY <1>0, <1>7, <2>2 DEF LocalsOK, RetireSearch
  <2>4. LocalsOK'
    BY <1>0, <1>7, <1>p, <2>3, StayTypes DEF LocalsOK, RetireSearch
  <2> QED
    BY <2>1, <2>4
<1>8. ASSUME NEW r \in Requests, RetireSweep(r) PROVE RowsOK' /\ LocalsOK' /\ GhostsOK'
  <2>1. Head(stack[r]) \in CAs
    BY <1>0, <1>8, OnTheWay DEF RetireSweep
  <2>2. RowsOK'
    BY <1>0, <1>8 DEF RowsOK, LocalsOK, RetireSweep, caVars
  <2>3. LocalsOK'
    <3>1. todo' \in [Requests -> SUBSET Certs]
      BY <1>0, <1>8 DEF LocalsOK, RetireSweep
    <3>2. warned' \in [Requests -> SUBSET CAs]
      <4>1. warned' = warned \/ warned' = [warned EXCEPT ![r] = @ \cup {Head(stack[r])}]
        BY <1>8 DEF RetireSweep
      <4>2. warned \in [Requests -> SUBSET CAs]
        BY <1>0 DEF LocalsOK
      <4> QED
        BY <2>1, <4>1, <4>2
    <3>3. UNCHANGED <<pc, stack, cascade, kids>>
      BY <1>8 DEF RetireSweep
    <3> QED
      BY <1>0, <3>1, <3>2, <3>3 DEF LocalsOK
  <2>4. GhostsOK'
    BY <1>0, <1>8 DEF GhostsOK, RetireSweep, ghosts
  <2> QED
    BY <2>2, <2>3, <2>4
<1>9. ASSUME NEW r \in Requests, RetireChildren(r) PROVE RowsOK' /\ LocalsOK' /\ GhostsOK'
  <2>1. RowsOK' /\ GhostsOK'
    BY <1>0, <1>9 DEF RowsOK, GhostsOK, RetireChildren, caVars, certVars
  <2>2. pc[r] # "idle" /\ Head(stack[r]) \in CAs
    BY <1>0, <1>9, OnTheWay DEF RetireChildren
  <2>3. kids' \in [Requests -> [CAs -> SUBSET CAs]]
    <3>1. ChildCAs(Head(stack[r])) \in SUBSET CAs
      BY DEF ChildCAs
    <3>2. kids' = kids \/ kids' = [kids EXCEPT ![r][Head(stack[r])] = ChildCAs(Head(stack[r]))]
      BY <1>9 DEF RetireChildren
    <3>3. [kids EXCEPT ![r][Head(stack[r])] = ChildCAs(Head(stack[r]))]
            \in [Requests -> [CAs -> SUBSET CAs]]
      BY <1>0, <2>2, <3>1, KidsTypes
    <3>4. kids \in [Requests -> [CAs -> SUBSET CAs]]
      BY <1>0 DEF LocalsOK
    <3> QED
      BY <3>2, <3>3, <3>4
  <2>4. LocalsOK'
    BY <1>0, <1>9, <1>p, <2>2, <2>3, StayTypes DEF LocalsOK, RetireChildren
  <2> QED
    BY <2>1, <2>4
<1>10. ASSUME NEW r \in Requests, RetireChild(r) PROVE RowsOK' /\ LocalsOK' /\ GhostsOK'
  <2>1. RowsOK' /\ GhostsOK'
    BY <1>0, <1>10 DEF RowsOK, GhostsOK, RetireChild, caVars, certVars, ghosts
  <2>2. Head(stack[r]) \in CAs /\ stack[r] \in Seq(CAs)
    BY <1>0, <1>10, OnTheWay DEF RetireChild
  <2>3. PICK y \in kids[r][Head(stack[r])] :
          /\ kids' = [kids EXCEPT ![r][Head(stack[r])] = @ \ {y}]
          /\ stack' = [stack EXCEPT ![r] = <<y>> \o @]
    BY <1>10 DEF RetireChild
  <2>4. y \in CAs /\ kids' \in [Requests -> [CAs -> SUBSET CAs]]
    BY <1>0, <2>2, <2>3 DEF LocalsOK
  <2>5. <<y>> \o stack[r] \in Seq(CAs) /\ <<y>> \o stack[r] # <<>>
    BY <2>2, <2>4, Pushed
  <2>6. stack' = [stack EXCEPT ![r] = <<y>> \o stack[r]]
    BY <2>3
  <2>7. LocalsOK'
    BY <1>0, <1>10, <1>p, <2>4, <2>5, <2>6, GotoTypes DEF LocalsOK, RetireChild
  <2> QED
    BY <2>1, <2>7
<1>11. ASSUME NEW r \in Requests, RetireChildrenDone(r) PROVE RowsOK' /\ LocalsOK' /\ GhostsOK'
  <2>1. RowsOK' /\ GhostsOK'
    BY <1>0, <1>11 DEF RowsOK, GhostsOK, RetireChildrenDone, caVars, certVars, ghosts
  <2>2. LocalsOK'
    BY <1>0, <1>11, <1>p, StayTypes DEF LocalsOK, RetireChildrenDone, locals
  <2> QED
    BY <2>1, <2>2
<1>12. ASSUME NEW r \in Requests, RetireParent(r) PROVE RowsOK' /\ LocalsOK' /\ GhostsOK'
  <2>1. pc[r] # "idle" /\ Head(stack[r]) \in CAs /\ stack[r] \in Seq(CAs) /\ stack[r] # <<>>
    BY <1>0, <1>12, OnTheWay DEF RetireParent
  <2>2. RowsOK'
    BY <1>0, <1>12, <2>1 DEF RowsOK, RetireParent, certVars, OnParent
  <2>3. retired' \in SUBSET CAs /\ slipped' \in SUBSET CAs
    BY <1>0, <1>12, <2>1 DEF GhostsOK, RetireParent
  <2>4. PICK whole \in BOOLEAN : Pop(r, whole)
    BY <1>12 DEF RetireParent
  <2>5. CASE Len(stack[r]) = 1
    <3>1. Return(r)
      BY <2>4, <2>5 DEF Pop
    <3>2. <<>> \in Seq(CAs) /\ NoKids \in [CAs -> SUBSET CAs] /\ "idle" \in PCs
      BY DEF NoKids, PCs
    <3>3. LocalsOK'
      BY <1>0, <3>1, <3>2 DEF LocalsOK, Return, Goto
    <3>4. GhostsOK'
      BY <1>0, <2>3, <3>1 DEF GhostsOK, Return
    <3> QED
      BY <2>2, <3>3, <3>4
  <2>6. CASE Len(stack[r]) # 1
    <3>1. Tail(stack[r]) \in Seq(CAs) /\ Tail(stack[r]) # <<>>
      BY <2>1, <2>6, Popped
    <3>2. /\ stack' = [stack EXCEPT ![r] = Tail(stack[r])] /\ Goto(r, "kids")
          /\ silent' \in {silent, silent \cup {r}}
          /\ UNCHANGED <<cascade, todo, kids, warned, disturbed, early>>
      BY <2>4, <2>6 DEF Pop
    <3>3. LocalsOK'
      BY <1>0, <1>p, <3>1, <3>2, GotoTypes DEF LocalsOK
    <3>4. GhostsOK'
      BY <1>0, <2>3, <3>2 DEF GhostsOK
    <3> QED
      BY <2>2, <3>3, <3>4
  <2> QED
    BY <2>5, <2>6
<1>13. ASSUME NEW r \in Requests, RetireFails(r) PROVE RowsOK' /\ LocalsOK' /\ GhostsOK'
  <2>1. pc[r] # "idle" /\ stack[r] \in Seq(CAs) /\ stack[r] # <<>>
    BY <1>0, <1>13, OnTheWay DEF RetireFails
  <2>2. RowsOK'
    BY <1>0, <1>13 DEF RowsOK, RetireFails, caVars, certVars
  <2>3. CASE Len(stack[r]) = 1
    BY <1>0, <1>13, <2>2, <2>3, ReturnTypes DEF RetireFails
  <2>4. CASE Len(stack[r]) # 1
    <3>1. Tail(stack[r]) \in Seq(CAs) /\ Tail(stack[r]) # <<>> /\ stack[r][2] \in CAs
      BY <2>1, <2>4, Popped
    <3>2. /\ stack' = [stack EXCEPT ![r] = Tail(stack[r])] /\ Goto(r, "kids")
          /\ warned' = [warned EXCEPT ![r] = @ \cup {stack[r][2]}]
          /\ UNCHANGED <<cascade, todo, kids, disturbed, silent, early, retired, slipped>>
      BY <1>13, <2>4 DEF RetireFails
    <3>3. warned' \in [Requests -> SUBSET CAs]
      BY <1>0, <3>1, <3>2 DEF LocalsOK
    <3>4. LocalsOK'
      BY <1>0, <1>p, <3>1, <3>2, <3>3, GotoTypes DEF LocalsOK
    <3>5. GhostsOK'
      BY <1>0, <3>2 DEF GhostsOK
    <3> QED
      BY <2>2, <3>4, <3>5
  <2> QED
    BY <2>3, <2>4
<1>14. ASSUME NEW r \in Requests, Abandon(r) PROVE RowsOK' /\ LocalsOK' /\ GhostsOK'
  BY <1>0, <1>14, ReturnTypes DEF RowsOK, Abandon, caVars, certVars
<1>15. ASSUME NEW x \in CAs, CreateCA(x) PROVE RowsOK' /\ LocalsOK' /\ GhostsOK'
  <2>1. RowsOK'
    BY <1>0, <1>15 DEF RowsOK, CreateCA, certVars
  <2>2. LocalsOK'
    BY <1>0, <1>15 DEF LocalsOK, CreateCA, locals
  <2>3. GhostsOK'
    BY <1>0, <1>15 DEF GhostsOK, CreateCA
  <2> QED
    BY <2>1, <2>2, <2>3
<1>16. ASSUME UNCHANGED vars PROVE RowsOK' /\ LocalsOK' /\ GhostsOK'
  BY <1>0, <1>16 DEF RowsOK, LocalsOK, GhostsOK, vars, caVars, certVars, locals, ghosts
<1> QED
  BY <1>1, <1>2, <1>3, <1>4, <1>5, <1>6, <1>7, <1>8, <1>9, <1>10, <1>11, <1>12, <1>13,
     <1>14, <1>15, <1>16 DEF Next, RetireStep

---------------------------------------------------------------------------
(* The cascade *)

\* The step leaves the walk of q alone.
Alike(q) ==
  /\ pc'[q] = pc[q] /\ stack'[q] = stack[q] /\ cascade'[q] = cascade[q]
  /\ kids'[q] = kids[q] /\ warned[q] \subseteq warned'[q]
  /\ q \in disturbed => q \in disturbed'
  /\ q \in silent => q \in silent'

\* No authority is enabled or created, and what was retired stays so.
Downwards ==
  /\ retired \subseteq retired' /\ slipped \subseteq slipped' \cup retired'
  /\ \A x \in CAs : caStatus[x] = "disabled" => caStatus'[x] = "disabled"
  /\ \A x \in CAs : caStatus'[x] = "none" <=> caStatus[x] = "none"

\* Then the children of an authority stay the same.
LEMMA ChildrenKept ==
  ASSUME Downwards, NEW x
  PROVE  ChildCAs(x)' = ChildCAs(x) /\ ChildCAs(x)' \ slipped' \subseteq (ChildCAs(x) \ slipped) \cup retired'
BY DEF ChildCAs, Downwards

\* A frame that is left alone.
LEMMA FollowsKept ==
  ASSUME NEW r, NEW x, Follows(r, x), Downwards, stack'[r] = stack[r], kids'[r] = kids[r],
         warned[r] \subseteq warned'[r]
  PROVE  Follows(r, x)'
BY ChildrenKept DEF Follows, Downwards

\* A walk that is left alone keeps its part of the invariant.
LEMMA FramesKept ==
  ASSUME LocalsOK, NEW q \in Requests, Frames(q), Alike(q), Downwards
  PROVE  Frames(q)'
<1>1. ASSUME pc[q] # "idle"
      PROVE  \A i \in 1 .. Len(stack[q]) : stack[q][i] \in CAs
  BY <1>1, OnTheWay
<1>2. Walked(q)' = Walked(q)
  BY DEF Walked, Alike
<1>3. ASSUME NEW x, Follows(q, x) PROVE Follows(q, x)'
  BY <1>3, FollowsKept DEF Alike
<1>4. \A x \in CAs : ChildCAs(x)' = ChildCAs(x)
  BY ChildrenKept
<1> QED
  BY <1>1, <1>2, <1>3, <1>4 DEF Frames, Alike, Downwards

\* One that returned has nothing to keep.
LEMMA FramesReturn ==
  ASSUME LocalsOK, NEW r \in Requests, Return(r)
  PROVE  Frames(r)' /\ \A q \in Requests \ {r} : Alike(q)
<1>1. pc'[r] = "idle" /\ kids'[r] = NoKids
  BY DEF LocalsOK, Return, Goto
<1>2. Frames(r)'
  BY <1>1 DEF Frames, NoKids
<1> QED
  BY <1>2 DEF LocalsOK, Return, Goto, Alike

\* A request begins with one authority.
LEMMA FramesBegin ==
  ASSUME LocalsOK, NEW r \in Requests, NEW x \in CAs, NEW l \in {"issue", "disable"}, Goto(r, l),
         stack' = [stack EXCEPT ![r] = <<x>>], kids' = kids, Frames(r),
         caStatus' = caStatus, caStatus[x] # "none"
  PROVE  Frames(r)'
<1>s. PICK s : s = <<x>>
  OBVIOUS
<1>1. pc'[r] = l /\ stack'[r] = s /\ Len(s) = 1
  BY <1>s DEF LocalsOK, Goto
<1>2. Chain(s)
  BY <1>1 DEF Chain
<1>3. \A i \in 1 .. Len(s) : ~(i > 1)
  BY <1>1
<1>4. ~(Len(s) > 1)
  BY <1>1
<1>5. Walked(r)' = {}
  BY <1>1, <1>3 DEF Walked
<1>6. \A z \in CAs : kids'[r][z] \subseteq ChildCAs(z)'
  BY DEF Frames, ChildCAs
<1>7. \A i \in 1 .. Len(s) : s[i] = x
  BY <1>s
<1> QED
  BY <1>1, <1>2, <1>3, <1>4, <1>5, <1>6, <1>7 DEF Frames

\* The innermost authority of a walk is on its stack only once.
LEMMA OnlyOnce ==
  ASSUME LocalsOK, NEW r \in Requests, pc[r] # "idle", Frames(r)
  PROVE  \A i \in 1 .. Len(stack[r]) : stack[r][i] \in CAs /\ (i > 1 => stack[r][i] # stack[r][1])
BY OnTheWay, NoneTwice DEF Frames

\* SetCAStatus with "disabled".
LEMMA DisableFrames ==
  ASSUME LocalsOK, RowsOK, NEW r \in Requests, Frames(r), RetireDisable(r)
  PROVE  Frames(r)'
<1>1. pc[r] = "disable" /\ Head(stack[r]) = stack[r][1] /\ stack[r][1] \in CAs
  BY OnTheWay DEF RetireDisable
<1>n. caStatus[stack[r][1]] # "none"
  BY <1>1, OnTheWay, Innermost DEF Frames
<1>2. /\ pc'[r] = IF cascade[r] THEN "search" ELSE "parent"
      /\ caStatus'[stack[r][1]] = "disabled" /\ Downwards
      /\ UNCHANGED <<stack, cascade, kids, warned, disturbed, silent, retired>>
  BY <1>1, <1>n DEF LocalsOK, RowsOK, RetireDisable, Goto, locals, Downwards
<1>3. \A i \in 1 .. Len(stack[r]) : stack[r][i] \in CAs
  BY <1>1, OnlyOnce
<1>4. Walked(r)' = Walked(r)
  BY <1>1, <1>2 DEF Walked
<1>5. ASSUME NEW x, Follows(r, x) PROVE Follows(r, x)'
  BY <1>2, <1>5, FollowsKept
<1>6. ASSUME r \notin disturbed, NEW i \in 1 .. Len(stack[r])
      PROVE  caStatus'[stack[r][i]] = "disabled"
  BY <1>1, <1>2, <1>3, <1>6 DEF Frames, Downwards
<1>7. /\ \A x \in CAs : ChildCAs(x)' = ChildCAs(x)
      /\ \A i \in 1 .. Len(stack[r]) : caStatus'[stack[r][i]] # "none"
  BY <1>1, <1>2, <1>3, ChildrenKept DEF Frames, Downwards
<1> QED
  BY <1>1, <1>2, <1>4, <1>5, <1>6, <1>7 DEF Frames

\* The search, and each certificate.
LEMMA SweepFrames ==
  ASSUME LocalsOK, NEW r \in Requests, Frames(r), RetireSearch(r) \/ RetireSweep(r)
  PROVE  Frames(r)'
<1>1. /\ pc[r] \in {"search", "sweep"} /\ pc'[r] = "sweep"
      /\ warned[r] \subseteq warned'[r]
      /\ UNCHANGED <<stack, cascade, kids, caStatus, disturbed, silent, retired, slipped>>
  BY DEF LocalsOK, RetireSearch, RetireSweep, Goto, caVars, ghosts
<1>2. Walked(r)' = Walked(r)
  BY <1>1 DEF Walked
<1>3. ASSUME NEW x, Follows(r, x) PROVE Follows(r, x)'
  BY <1>1, <1>3 DEF Follows, ChildCAs
<1>4. \A x \in CAs : ChildCAs(x)' = ChildCAs(x)
  BY <1>1 DEF ChildCAs
<1> QED
  BY <1>1, <1>2, <1>3, <1>4 DEF Frames

\* The children are read.
LEMMA ChildrenFrames ==
  ASSUME LocalsOK, NEW r \in Requests, Frames(r), RetireChildren(r)
  PROVE  Frames(r)'
<1> DEFINE x == stack[r][1]
<1>1. pc[r] = "sweep" /\ Head(stack[r]) = x /\ x \in CAs
  BY OnTheWay DEF RetireChildren
<1>2. /\ pc'[r] = "kids"
      /\ UNCHANGED <<stack, cascade, warned, caStatus, disturbed, retired, slipped>>
  BY <1>1 DEF LocalsOK, RetireChildren, Goto, caVars
<1>3. \/ kids' = [kids EXCEPT ![r][x] = ChildCAs(x)] /\ silent' = silent
      \/ kids' = kids /\ silent' = silent \cup {r}
  BY <1>1 DEF RetireChildren
<1>4. \A i \in 1 .. Len(stack[r]) : stack[r][i] \in CAs /\ (i > 1 => stack[r][i] # x)
  BY <1>1, OnlyOnce
<1> HIDE DEF x
<1>5. /\ \A z \in CAs \ {x} : kids'[r][z] = kids[r][z]
      /\ kids'[r][x] = kids[r][x] \/ kids'[r][x] = ChildCAs(x)
      /\ r \notin silent' => r \notin silent /\ kids'[r][x] = ChildCAs(x)
  BY <1>1, <1>3 DEF LocalsOK
<1>6. \A z \in CAs : kids'[r][z] \subseteq ChildCAs(z) /\ ChildCAs(z)' = ChildCAs(z)
  BY <1>1, <1>2, <1>5 DEF Frames, ChildCAs
<1>7. ASSUME r \notin disturbed \cup silent', NEW i \in Walked(r)'
      PROVE  Follows(r, stack[r][i])'
  <2>1. i \in 1 .. Len(stack[r])
    BY <1>2 DEF Walked
  <2>2. CASE i = 1
    BY <1>1, <1>2, <1>5, <1>7, <2>2 DEF Follows, ChildCAs, x
  <2>3. CASE i # 1
    <3>1. i \in Walked(r) /\ stack[r][i] \in CAs \ {x}
      BY <1>4, <2>1, <2>3 DEF Walked
    <3>2. Follows(r, stack[r][i])
      BY <1>1, <1>5, <1>7, <3>1 DEF Frames
    <3> QED
      BY <1>2, <1>5, <3>1, <3>2 DEF Follows, ChildCAs
  <2> QED
    BY <2>2, <2>3
<1> QED
  BY <1>1, <1>2, <1>5, <1>6, <1>7 DEF Frames

\* RevokeCA is called for a child.
LEMMA ChildFrames ==
  ASSUME LocalsOK, NEW r \in Requests, Frames(r), RetireChild(r)
  PROVE  Frames(r)'
<1> DEFINE x == stack[r][1]
<1>1. /\ pc[r] = "kids" /\ Head(stack[r]) = x /\ x \in CAs
      /\ stack[r] \in Seq(CAs) /\ stack[r] # <<>>
  BY OnTheWay DEF RetireChild
<1>2. PICK y \in kids[r][x] :
        /\ kids' = [kids EXCEPT ![r][x] = @ \ {y}]
        /\ stack' = [stack EXCEPT ![r] = <<y>> \o @]
  BY <1>1 DEF RetireChild
<1>3. /\ pc'[r] = "disable"
      /\ UNCHANGED <<cascade, warned, caStatus, disturbed, silent, retired, slipped>>
  BY <1>1 DEF LocalsOK, RetireChild, Goto, caVars, ghosts
<1>s. PICK s : s = stack[r]
  OBVIOUS
<1>t. PICK t : t = <<y>> \o s
  OBVIOUS
<1>4. y \in CAs /\ Parent[y] = x /\ caStatus[y] # "none"
  BY <1>1, <1>2 DEF LocalsOK, Frames, ChildCAs
<1>5. /\ t \in Seq(CAs) /\ Len(t) = Len(s) + 1 /\ t[1] = y /\ Range(t) = {y} \cup Range(s)
      /\ \A i \in 1 .. Len(t) : i > 1 => i - 1 \in 1 .. Len(s) /\ t[i] = s[i - 1]
  BY <1>1, <1>s, <1>t, <1>4, Pushed
<1>6. Chain(t)
  BY <1>1, <1>s, <1>t, <1>4, ChainGrows DEF Frames
<1>7. stack'[r] = t
  BY <1>2, <1>s, <1>t DEF LocalsOK
<1>8. \A i \in 1 .. Len(s) : s[i] \in CAs
  BY <1>1, <1>s, Innermost
<1> HIDE DEF x
<1>9. /\ \A z \in CAs \ {x} : kids'[r][z] = kids[r][z]
      /\ kids'[r][x] = kids[r][x] \ {y}
  BY <1>1, <1>2 DEF LocalsOK
<1>10. \A z \in CAs : kids'[r][z] \subseteq ChildCAs(z)'
  BY <1>1, <1>3, <1>9 DEF Frames, ChildCAs
<1>11. ASSUME r \notin disturbed \cup silent, NEW i \in Walked(r)'
       PROVE  Follows(r, t[i])'
  <2>1. i \in 1 .. Len(t) /\ i > 1
    BY <1>3, <1>7 DEF Walked
  <2>2. i - 1 \in 1 .. Len(s) /\ t[i] = s[i - 1] /\ t[i] \in CAs
    BY <1>5, <1>8, <2>1
  <2>3. i - 1 \in Walked(r)
    BY <1>s, <1>1, <2>2 DEF Walked
  <2>4. Follows(r, t[i])
    BY <1>s, <1>1, <1>11, <2>2, <2>3 DEF Frames
  <2>5. ASSUME t[i] \notin warned[r], NEW z \in ChildCAs(t[i]) \ slipped
        PROVE  z \in kids'[r][t[i]] \cup Range(t) \cup retired
    <3>1. z \in kids[r][t[i]] \cup Range(s) \cup retired
      BY <1>s, <2>4, <2>5 DEF Follows
    <3> QED
      BY <1>5, <1>9, <2>2, <3>1
  <2> QED
    BY <1>3, <1>7, <2>5 DEF Follows, ChildCAs
<1>12. cascade[r]
  BY <1>1 DEF Frames
<1>13. ASSUME r \notin disturbed, NEW i \in 1 .. Len(t), i > 1
       PROVE  caStatus[t[i]] = "disabled"
  <2>1. i - 1 \in 1 .. Len(s) /\ t[i] = s[i - 1]
    BY <1>5, <1>13
  <2>2. \A j \in 1 .. Len(s) : caStatus[s[j]] = "disabled"
    BY <1>s, <1>1, <1>13 DEF Frames
  <2> QED
    BY <2>1, <2>2
<1>14. ASSUME NEW i \in 1 .. Len(t) PROVE caStatus[t[i]] # "none"
  <2>1. \A j \in 1 .. Len(s) : caStatus[s[j]] # "none"
    BY <1>s, <1>1 DEF Frames
  <2>2. CASE i = 1
    BY <1>4, <1>5, <2>2
  <2>3. CASE i # 1
    <3>1. i - 1 \in 1 .. Len(s) /\ t[i] = s[i - 1]
      BY <1>5, <2>3
    <3> QED
      BY <2>1, <3>1
  <2> QED
    BY <2>2, <2>3
<1> QED
  BY <1>3, <1>6, <1>7, <1>10, <1>11, <1>12, <1>13, <1>14 DEF Frames

\* There are no more children.
LEMMA DoneFrames ==
  ASSUME LocalsOK, NEW r \in Requests, Frames(r), RetireChildrenDone(r)
  PROVE  Frames(r)'
<1>1. pc[r] = "kids" /\ Head(stack[r]) = stack[r][1] /\ kids[r][Head(stack[r])] = {}
  BY OnTheWay DEF RetireChildrenDone
<1>2. /\ pc'[r] = "parent"
      /\ UNCHANGED <<stack, cascade, kids, warned, caStatus, disturbed, silent, retired, slipped>>
  BY DEF LocalsOK, RetireChildrenDone, Goto, caVars, locals, ghosts
<1>3. cascade[r] /\ Walked(r)' = Walked(r)
  BY <1>1, <1>2 DEF Walked, Frames
<1>4. ASSUME NEW x, Follows(r, x) PROVE Follows(r, x)'
  BY <1>2, <1>4 DEF Follows, ChildCAs
<1>5. \A x \in CAs : ChildCAs(x)' = ChildCAs(x)
  BY <1>2 DEF ChildCAs
<1> QED
  BY <1>1, <1>2, <1>3, <1>4, <1>5 DEF Frames

\* RevokeCA for a child returns: the child is retired, or something failed and the
\* caller or nobody is told.
LEMMA PopFrames ==
  ASSUME LocalsOK, NEW r \in Requests, Frames(r), pc[r] # "idle", Len(stack[r]) # 1,
         Goto(r, "kids"), stack' = [stack EXCEPT ![r] = Tail(@)],
         UNCHANGED <<cascade, kids, caStatus, disturbed>>,
         warned[r] \subseteq warned'[r], silent \subseteq silent', retired \subseteq retired',
         slipped \subseteq slipped' \cup retired',
         \/ r \in disturbed \cup silent'
         \/ stack[r][1] \in retired'
         \/ stack[r][2] \in warned'[r]
  PROVE  Frames(r)'
<1>s. PICK s : s = stack[r]
  OBVIOUS
<1>t. PICK t : t = Tail(s)
  OBVIOUS
<1>1. s \in Seq(CAs) /\ s # <<>> /\ Chain(s)
  BY <1>s, OnTheWay DEF Frames
<1>2. /\ t \in Seq(CAs) /\ Len(t) = Len(s) - 1
      /\ \A i \in 1 .. Len(t) : i + 1 \in 1 .. Len(s) /\ t[i] = s[i + 1]
      /\ Range(s) = {s[1]} \cup Range(t)
  BY <1>s, <1>t, <1>1, Popped
<1>3. Chain(t) /\ Parent[s[1]] = s[2]
  BY <1>s, <1>t, <1>1, ChainShrinks
<1>4. pc'[r] = "kids" /\ stack'[r] = t
  BY <1>s, <1>t DEF LocalsOK, Goto
<1>5. Len(s) \in Nat /\ Len(s) > 1
  <2> DEFINE n == Len(s)
  <2>1. n \in Nat \ {0} /\ n # 1
    BY <1>s, <1>1, Innermost
  <2> HIDE DEF n
  <2>2. n \in Nat /\ n > 1
    BY <2>1
  <2> QED
    BY <2>2 DEF n
<1>6. cascade[r]
  BY <1>s, <1>5 DEF Frames
<1>7. ASSUME NEW i \in 1 .. Len(t) PROVE i + 1 \in 1 .. Len(s) /\ i + 1 > 1 /\ t[i] = s[i + 1]
  BY <1>2, <1>5
<1>8. ASSUME NEW i \in 1 .. Len(t)
      PROVE  caStatus[t[i]] # "none" /\ (r \notin disturbed => caStatus[t[i]] = "disabled")
  BY <1>s, <1>7, <1>8 DEF Frames
<1>9. ASSUME r \notin disturbed \cup silent', NEW i \in 1 .. Len(t)
      PROVE  Follows(r, t[i])'
  <2>1. i + 1 \in Walked(r)
    BY <1>s, <1>7 DEF Walked
  <2>2. Follows(r, t[i])
    BY <1>s, <1>7, <1>9, <2>1 DEF Frames
  <2>3. ASSUME t[i] \notin warned'[r], NEW z \in ChildCAs(t[i]) \ slipped'
        PROVE  z \in kids[r][t[i]] \cup Range(t) \cup retired'
    <3>1. z \in kids[r][t[i]] \cup Range(s) \cup retired'
      BY <1>s, <2>2, <2>3 DEF Follows
    <3>2. CASE z = s[1]
      <4>1. t[i] = s[2]
        BY <1>3, <3>2 DEF ChildCAs
      <4> QED
        BY <1>s, <1>9, <2>3, <3>2, <4>1
    <3> QED
      BY <1>2, <3>1, <3>2
  <2> QED
    BY <1>4, <2>3 DEF Follows, ChildCAs
<1>10. \A i \in Walked(r)' : i \in 1 .. Len(t)
  BY <1>4 DEF Walked
<1>11. \A x \in CAs : ChildCAs(x)' = ChildCAs(x)
  BY DEF ChildCAs
<1> QED
  BY <1>3, <1>4, <1>6, <1>8, <1>9, <1>10, <1>11 DEF Frames

\* Whoever is retired stays so while no authority is enabled.
LEMMA RetiredKept ==
  ASSUME Retired, retired' = retired, retired \subseteq CAs, listed \subseteq listed', Downwards
  PROVE  Retired'
BY ChildrenKept DEF Retired, Downwards, OnParent

\* RevokeCA puts the authority on its parent's list and returns.
LEMMA ParentRetired ==
  ASSUME TypeOK, Retired, NEW r \in Requests, Frames(r), RetireParent(r)
  PROVE  Retired' /\ Downwards
<1> DEFINE x == stack[r][1]
<1>0. RowsOK /\ LocalsOK /\ GhostsOK
  BY TypeParts
<1>1. /\ pc[r] = "parent" /\ Head(stack[r]) = x /\ x \in CAs
      /\ stack[r] \in Seq(CAs) /\ stack[r] # <<>> /\ 1 \in 1 .. Len(stack[r])
  BY <1>0, OnTheWay, Innermost DEF RetireParent
<1>2. /\ listed \subseteq listed' /\ caStatus' = caStatus /\ retired \subseteq retired'
      /\ slipped' = slipped \ retired'
  BY DEF RetireParent
<1>3. Downwards
  BY <1>2 DEF Downwards
<1>4. CASE retired' = retired
  BY <1>0, <1>2, <1>3, <1>4, RetiredKept DEF GhostsOK
<1>5. CASE retired' # retired
  <2>1. /\ retired' = retired \cup {x} /\ cascade[r] /\ x \notin warned[r]
        /\ r \notin disturbed \cup silent /\ (OnParent(x) => x \in listed')
    BY <1>1, <1>5 DEF RetireParent
  <2>2. caStatus[x] = "disabled"
    BY <1>1, <2>1 DEF Frames
  <2>3. Follows(r, x) /\ kids[r][x] = {} /\ Chain(stack[r])
    BY <1>1, <2>1 DEF Frames, Walked
  <2>4. ASSUME NEW y \in ChildCAs(x) \ slipped PROVE y \in retired
    <3>1. y \in CAs /\ Parent[y] = x
      BY <2>4 DEF ChildCAs
    <3>2. y \notin Range(stack[r])
      BY <1>1, <2>3, <3>1, ChainGrows
    <3> QED
      BY <2>1, <2>3, <2>4, <3>2 DEF Follows
  <2> HIDE DEF x
  <2>5. ASSUME NEW z \in retired'
        PROVE  /\ caStatus[z] = "disabled" /\ (OnParent(z) => z \in listed')
               /\ ChildCAs(z) \ slipped' \subseteq retired'
    BY <1>2, <2>1, <2>2, <2>4, <2>5 DEF Retired
  <2> QED
    BY <1>2, <1>3, <2>5 DEF Retired, OnParent, ChildCAs
<1> QED
  BY <1>3, <1>4, <1>5

\* And the walk that called it goes on.
LEMMA ParentFrames ==
  ASSUME TypeOK, NEW r \in Requests, Frames(r), RetireParent(r)
  PROVE  Frames(r)' /\ \A q \in Requests \ {r} : Alike(q)
<1>0. RowsOK /\ LocalsOK /\ GhostsOK
  BY TypeParts
<1>1. /\ pc[r] = "parent" /\ Head(stack[r]) = stack[r][1]
      /\ stack[r] \in Seq(CAs) /\ stack[r] # <<>>
  BY <1>0, OnTheWay DEF RetireParent
<1>2. PICK whole \in BOOLEAN :
        /\ Pop(r, whole)
        /\ retired' = IF cascade[r] /\ whole /\ r \notin disturbed \cup silent
                      THEN retired \cup {stack[r][1]} ELSE retired
  BY <1>1 DEF RetireParent
<1>3. CASE Len(stack[r]) = 1
  BY <1>0, <1>2, <1>3, FramesReturn DEF Pop
<1>4. CASE Len(stack[r]) # 1
  <2>1. /\ stack' = [stack EXCEPT ![r] = Tail(@)] /\ Goto(r, "kids")
        /\ silent' = IF whole THEN silent ELSE silent \cup {r}
        /\ UNCHANGED <<cascade, todo, kids, warned, disturbed, early>>
    BY <1>2, <1>4 DEF Pop
  <2>2. Len(stack[r]) > 1
    <3> DEFINE n == Len(stack[r])
    <3>1. n \in Nat \ {0} /\ n # 1
      BY <1>1, <1>4, Innermost
    <3> HIDE DEF n
    <3>2. n > 1
      BY <3>1
    <3> QED
      BY <3>2 DEF n
  <2>3. cascade[r]
    BY <1>1, <2>2 DEF Frames
  <2>4. \/ r \in disturbed \cup silent'
        \/ stack[r][1] \in retired'
    BY <1>2, <2>1, <2>3
  <2>5. /\ caStatus' = caStatus /\ retired \subseteq retired' /\ silent \subseteq silent'
        /\ slipped \subseteq slipped' \cup retired'
    BY <1>2, <2>1 DEF RetireParent
  <2>6. Frames(r)'
    BY <1>0, <1>1, <1>4, <2>1, <2>4, <2>5, PopFrames
  <2>7. \A q \in Requests \ {r} : Alike(q)
    BY <1>0, <2>1, <2>5 DEF LocalsOK, Alike, Goto
  <2> QED
    BY <2>6, <2>7
<1> QED
  BY <1>3, <1>4

\* RevokeCA returns an error, which the caller turns into a warning.
LEMMA FailsFrames ==
  ASSUME TypeOK, NEW r \in Requests, Frames(r), RetireFails(r)
  PROVE  Frames(r)' /\ \A q \in Requests \ {r} : Alike(q)
<1>0. LocalsOK
  BY TypeParts
<1>1. pc[r] # "idle" /\ stack[r] \in Seq(CAs) /\ stack[r] # <<>>
  BY <1>0, OnTheWay DEF RetireFails
<1>2. CASE Len(stack[r]) = 1
  BY <1>0, <1>2, FramesReturn DEF RetireFails
<1>3. CASE Len(stack[r]) # 1
  <2>1. /\ stack' = [stack EXCEPT ![r] = Tail(@)] /\ Goto(r, "kids")
        /\ warned' = [warned EXCEPT ![r] = @ \cup {stack[r][2]}]
        /\ UNCHANGED <<cascade, todo, kids, disturbed, silent, early, retired, slipped, caStatus>>
    BY <1>3 DEF RetireFails, caVars
  <2>2. warned[r] \subseteq warned'[r] /\ stack[r][2] \in warned'[r]
    BY <1>0, <2>1 DEF LocalsOK
  <2>3. Frames(r)'
    BY <1>0, <1>1, <1>3, <2>1, <2>2, PopFrames
  <2>4. \A q \in Requests \ {r} : Alike(q)
    BY <1>0, <2>1 DEF LocalsOK, Alike, Goto
  <2> QED
    BY <2>3, <2>4
<1> QED
  BY <1>2, <1>3

\* A new authority is not on any stack nor retired, and has slipped if its parent counts
\* on its children to be known.
LEMMA CreateKeeps ==
  ASSUME TypeOK, Retired, \A q \in Requests : Frames(q), NEW x \in CAs, CreateCA(x)
  PROVE  Retired' /\ \A q \in Requests : Frames(q)'
<1>0. RowsOK /\ LocalsOK /\ GhostsOK
  BY TypeParts
<1>1. /\ caStatus[x] = "none" /\ slipped \subseteq slipped'
      /\ \A z \in CAs \ {x} : caStatus'[z] = caStatus[z]
      /\ UNCHANGED <<listed, pc, stack, cascade, kids, warned, disturbed, silent, retired>>
  BY <1>0 DEF RowsOK, CreateCA, locals
<1>2. \A z \in CAs : ChildCAs(z) \subseteq ChildCAs(z)' /\ ChildCAs(z)' \subseteq ChildCAs(z) \cup {x}
  BY <1>1 DEF ChildCAs
<1>3. \A z \in CAs : x \in ChildCAs(z)' => Parent[x] = z
  BY DEF ChildCAs
<1>4. Retired'
  <2> SUFFICES ASSUME NEW z \in retired
               PROVE  /\ caStatus'[z] = "disabled" /\ (OnParent(z) => z \in listed)
                      /\ ChildCAs(z)' \ slipped' \subseteq retired
    BY <1>1 DEF Retired, OnParent
  <2>1. /\ z \in CAs /\ z # x /\ caStatus[z] = "disabled" /\ (OnParent(z) => z \in listed)
        /\ ChildCAs(z) \ slipped \subseteq retired
    BY <1>0, <1>1 DEF GhostsOK, Retired
  <2>2. Parent[x] = z => x \in slipped'
    BY DEF CreateCA
  <2> QED
    BY <1>1, <1>2, <1>3, <2>1, <2>2
<1>5. ASSUME NEW q \in Requests PROVE Frames(q)'
  <2>1. Frames(q) /\ Walked(q)' = Walked(q)
    BY <1>1 DEF Walked
  <2>2. \A z \in CAs : kids'[q][z] \subseteq ChildCAs(z)'
    BY <1>1, <1>2, <2>1 DEF Frames
  <2>3. ASSUME pc[q] # "idle", NEW i \in 1 .. Len(stack[q])
        PROVE  stack[q][i] \in CAs /\ caStatus[stack[q][i]] # "none" /\ stack[q][i] # x
    BY <1>0, <1>1, <2>1, <2>3, OnlyOnce DEF Frames
  <2>4. ASSUME pc[q] # "idle", NEW i \in Walked(q), Follows(q, stack[q][i])
        PROVE  Follows(q, stack[q][i])'
    <3> DEFINE z == stack[q][i]
    <3>1. z \in CAs
      BY <2>3, <2>4 DEF Walked
    <3>2. Parent[x] = z => x \in slipped'
      BY <2>4 DEF CreateCA
    <3>3. ChildCAs(z)' \ slipped' \subseteq ChildCAs(z) \ slipped
      BY <1>1, <1>2, <1>3, <3>1, <3>2
    <3> QED
      BY <1>1, <2>4, <3>3 DEF Follows
  <2> QED
    BY <1>1, <2>1, <2>2, <2>3, <2>4 DEF Frames
<1> QED
  BY <1>4, <1>5

\* CascadeInv is inductive.
LEMMA CascadeStep == CascadeInv /\ [Next]_vars => CascadeInv'
<1> SUFFICES ASSUME CascadeInv, [Next]_vars PROVE CascadeInv'
  OBVIOUS
<1>0. TypeOK /\ RowsOK /\ LocalsOK /\ GhostsOK /\ TypeOK'
  BY TypeParts, TypeStep DEF CascadeInv
<1>k. Retired /\ \A q \in Requests : Frames(q)
  BY DEF CascadeInv
<1> SUFFICES Retired' /\ \A q \in Requests : Frames(q)'
  BY <1>0 DEF CascadeInv
\* All that a step of one request has to show.
<1>a. ASSUME NEW r \in Requests, Retired', Downwards, Frames(r)',
             \A q \in Requests \ {r} : Alike(q)
      PROVE  Retired' /\ \A q \in Requests : Frames(q)'
  <2>1. ASSUME NEW q \in Requests \ {r} PROVE Frames(q)'
    BY <1>0, <1>k, <1>a, <2>1, FramesKept
  <2> QED
    BY <1>a, <2>1
<1>b. ASSUME retired' = retired, listed' = listed, Downwards PROVE Retired'
  BY <1>0, <1>k, <1>b, RetiredKept DEF GhostsOK
<1>1. ASSUME NEW x \in CAs, NEW s \in {"active", "disabled"}, SetCAStatus(x, s)
      PROVE  Retired' /\ \A q \in Requests : Frames(q)'
  <2>1. CASE s = "active"
    <3>1. retired' = {} /\ disturbed' = {q \in Requests : pc[q] # "idle"}
      BY <1>1, <2>1 DEF SetCAStatus
    <3>2. Retired'
      BY <3>1 DEF Retired
    <3>3. ASSUME NEW q \in Requests PROVE Frames(q)'
      <4>1. UNCHANGED <<pc, stack, cascade, kids>>
        BY <1>1 DEF SetCAStatus, locals
      <4>3. /\ \A z \in CAs : caStatus'[z] = "none" <=> caStatus[z] = "none"
            /\ \A z \in CAs : ChildCAs(z)' = ChildCAs(z)
        BY <1>0, <1>1, <2>1 DEF RowsOK, SetCAStatus, ChildCAs
      <4>4. pc[q] # "idle" => \A i \in 1 .. Len(stack[q]) : stack[q][i] \in CAs
        BY <1>0, <1>k, OnlyOnce
      <4>2. pc[q] # "idle" => q \in disturbed'
        BY <3>1
      <4> QED
        BY <1>k, <4>1, <4>2, <4>3, <4>4 DEF Frames
    <3> QED
      BY <3>2, <3>3
  <2>2. CASE s = "disabled"
    <3>1. Downwards /\ \A q \in Requests : Alike(q)
      BY <1>0, <1>1, <2>2 DEF RowsOK, SetCAStatus, locals, Downwards, Alike
    <3>2. Retired'
      BY <1>1, <1>b, <2>2, <3>1 DEF SetCAStatus
    <3> QED
      BY <1>0, <1>k, <3>1, <3>2, FramesKept
  <2> QED
    BY <2>1, <2>2
<1>2. ASSUME NEW c \in Certs, Hold(c) \/ Release(c) \/ Revoke(c)
      PROVE  Retired' /\ \A q \in Requests : Frames(q)'
  <2>1. Downwards /\ (\A q \in Requests : Alike(q)) /\ retired' = retired /\ listed' = listed
    BY <1>2 DEF Hold, Release, Revoke, caVars, locals, ghosts, Downwards, Alike
  <2> QED
    BY <1>0, <1>b, <1>k, <2>1, FramesKept
<1>3. ASSUME NEW r \in Requests, NEW x \in CAs, BeginIssue(r, x)
      PROVE  Retired' /\ \A q \in Requests : Frames(q)'
  <2>1. Downwards /\ retired' = retired /\ listed' = listed
    BY <1>3 DEF BeginIssue, caVars, ghosts, Downwards
  <2>2. Frames(r)'
    BY <1>0, <1>3, <1>k, FramesBegin DEF BeginIssue, CanIssue, caVars
  <2>3. \A q \in Requests \ {r} : Alike(q)
    BY <1>0, <1>3 DEF LocalsOK, BeginIssue, Goto, ghosts, Alike
  <2> QED
    BY <1>a, <1>b, <2>1, <2>2, <2>3
<1>4. ASSUME NEW r \in Requests, NEW c \in Certs, IssueInsert(r, c)
      PROVE  Retired' /\ \A q \in Requests : Frames(q)'
  <2>1. Downwards /\ retired' = retired /\ listed' = listed
    BY <1>4 DEF IssueInsert, caVars, Downwards
  <2> QED
    BY <1>0, <1>4, <1>a, <1>b, <2>1, FramesReturn DEF IssueInsert
<1>5. ASSUME NEW r \in Requests, NEW x \in CAs, NEW b \in BOOLEAN, BeginRevokeCA(r, x, b)
      PROVE  Retired' /\ \A q \in Requests : Frames(q)'
  <2>1. Downwards /\ retired' = retired /\ listed' = listed
    BY <1>5 DEF BeginRevokeCA, caVars, ghosts, Downwards
  <2>2. Frames(r)'
    BY <1>0, <1>5, <1>k, FramesBegin DEF BeginRevokeCA, caVars
  <2>3. \A q \in Requests \ {r} : Alike(q)
    BY <1>0, <1>5 DEF LocalsOK, BeginRevokeCA, Goto, ghosts, Alike
  <2> QED
    BY <1>a, <1>b, <2>1, <2>2, <2>3
<1>6. ASSUME NEW r \in Requests, RetireDisable(r)
      PROVE  Retired' /\ \A q \in Requests : Frames(q)'
  <2>x. Head(stack[r]) \in CAs /\ caStatus[Head(stack[r])] # "none"
    BY <1>0, <1>6, <1>k, OnTheWay, Innermost DEF RetireDisable, Frames
  <2>1. Downwards /\ retired' = retired /\ listed' = listed
    BY <1>0, <1>6, <2>x DEF RowsOK, RetireDisable, Downwards
  <2>2. \A q \in Requests \ {r} : Alike(q)
    BY <1>0, <1>6 DEF LocalsOK, RetireDisable, Goto, locals, Alike
  <2> QED
    BY <1>0, <1>6, <1>a, <1>b, <1>k, <2>1, <2>2, DisableFrames
<1>7. ASSUME NEW r \in Requests, RetireSearch(r) \/ RetireSweep(r)
      PROVE  Retired' /\ \A q \in Requests : Frames(q)'
  <2>1. Downwards /\ retired' = retired /\ listed' = listed
    BY <1>7 DEF RetireSearch, RetireSweep, caVars, ghosts, Downwards
  <2>2. \A q \in Requests \ {r} : Alike(q)
    BY <1>0, <1>7 DEF LocalsOK, RetireSearch, RetireSweep, Goto, ghosts, Alike
  <2> QED
    BY <1>0, <1>7, <1>a, <1>b, <1>k, <2>1, <2>2, SweepFrames
<1>8. ASSUME NEW r \in Requests, RetireChildren(r)
      PROVE  Retired' /\ \A q \in Requests : Frames(q)'
  <2>1. Downwards /\ retired' = retired /\ listed' = listed
    BY <1>8 DEF RetireChildren, caVars, Downwards
  <2>2. \A q \in Requests \ {r} : Alike(q)
    BY <1>0, <1>8 DEF LocalsOK, RetireChildren, Goto, Alike
  <2> QED
    BY <1>0, <1>8, <1>a, <1>b, <1>k, <2>1, <2>2, ChildrenFrames
<1>9. ASSUME NEW r \in Requests, RetireChild(r)
      PROVE  Retired' /\ \A q \in Requests : Frames(q)'
  <2>1. Downwards /\ retired' = retired /\ listed' = listed
    BY <1>9 DEF RetireChild, caVars, ghosts, Downwards
  <2>2. \A q \in Requests \ {r} : Alike(q)
    BY <1>0, <1>9 DEF LocalsOK, RetireChild, Goto, ghosts, Alike
  <2> QED
    BY <1>0, <1>9, <1>a, <1>b, <1>k, <2>1, <2>2, ChildFrames
<1>10. ASSUME NEW r \in Requests, RetireChildrenDone(r)
       PROVE  Retired' /\ \A q \in Requests : Frames(q)'
  <2>1. Downwards /\ retired' = retired /\ listed' = listed
    BY <1>10 DEF RetireChildrenDone, caVars, ghosts, Downwards
  <2>2. \A q \in Requests \ {r} : Alike(q)
    BY <1>0, <1>10 DEF LocalsOK, RetireChildrenDone, Goto, locals, ghosts, Alike
  <2> QED
    BY <1>0, <1>10, <1>a, <1>b, <1>k, <2>1, <2>2, DoneFrames
<1>11. ASSUME NEW r \in Requests, RetireParent(r)
       PROVE  Retired' /\ \A q \in Requests : Frames(q)'
  BY <1>0, <1>11, <1>a, <1>k, ParentRetired, ParentFrames
<1>12. ASSUME NEW r \in Requests, RetireFails(r)
       PROVE  Retired' /\ \A q \in Requests : Frames(q)'
  <2>1. Downwards /\ retired' = retired /\ listed' = listed
    BY <1>12 DEF RetireFails, caVars, Downwards
  <2> QED
    BY <1>0, <1>12, <1>a, <1>b, <1>k, <2>1, FailsFrames
<1>13. ASSUME NEW r \in Requests, Abandon(r)
       PROVE  Retired' /\ \A q \in Requests : Frames(q)'
  <2>1. Downwards /\ retired' = retired /\ listed' = listed
    BY <1>13 DEF Abandon, caVars, Downwards
  <2> QED
    BY <1>0, <1>13, <1>a, <1>b, <2>1, FramesReturn DEF Abandon
<1>14. ASSUME NEW x \in CAs, CreateCA(x) PROVE Retired' /\ \A q \in Requests : Frames(q)'
  BY <1>0, <1>14, <1>k, CreateKeeps
<1>15. ASSUME UNCHANGED vars PROVE Retired' /\ \A q \in Requests : Frames(q)'
  <2>1. Downwards /\ (\A q \in Requests : Alike(q)) /\ retired' = retired /\ listed' = listed
    BY <1>15 DEF vars, caVars, locals, ghosts, Downwards, Alike
  <2> QED
    BY <1>0, <1>b, <1>k, <2>1, FramesKept
<1> QED
  BY <1>1, <1>2, <1>3, <1>4, <1>5, <1>6, <1>7, <1>8, <1>9, <1>10, <1>11, <1>12, <1>13, <1>14,
     <1>15 DEF Next, RetireStep

\* CascadeInv holds in the beginning.
LEMMA CascadeInit == Init => CascadeInv
<1> SUFFICES ASSUME Init PROVE CascadeInv
  OBVIOUS
<1>1. NoKids \in [CAs -> SUBSET CAs] /\ <<>> \in Seq(CAs) /\ <<>> \in Seq(Certs) /\ Range(<<>>) = {}
  BY DEF NoKids, Range
<1>2. TypeOK
  BY <1>1 DEF Init, TypeOK, PCs
<1>3. Retired /\ \A q \in Requests : Frames(q)
  BY DEF Init, Retired, Frames, NoKids
<1> QED
  BY <1>2, <1>3 DEF CascadeInv

\* CascadeInv is an invariant.
LEMMA CascadeInvariant == Spec => []CascadeInv
BY CascadeInit, CascadeStep, PTL DEF Spec

---------------------------------------------------------------------------
(* Types and the cascade, for every forest *)

\* The state of RevokeCA, Issue and the operators is well typed, whatever fails; a
\* certificate is in created exactly if it has a row.
THEOREM RetirementTypeCorrect == Spec => []TypeOK
<1>1. CascadeInv => TypeOK
  BY DEF CascadeInv
<1> QED
  BY <1>1, CascadeInvariant, PTL

\* RevokeCA with cascade, for every forest of authorities: when it returns and nothing
\* failed, everything beneath the authority, however deep, is disabled and on the
\* lists of the parents.
THEOREM CascadeIsComplete == Spec => []CascadeComplete
<1>1. CascadeInv => CascadeComplete
  <2> SUFFICES ASSUME CascadeInv, NEW x \in retired, NEW y \in Beneath(x)
               PROVE  caStatus[y] = "disabled" /\ (OnParent(y) => y \in listed)
    BY DEF CascadeComplete
  <2>1. retired \in SUBSET CAs /\ \A z \in retired : ChildCAs(z) \ slipped \subseteq retired
    BY DEF CascadeInv, TypeOK, Retired
  <2>2. y \in retired
    BY <2>1 DEF Beneath
  <2> QED
    BY <2>2 DEF CascadeInv, Retired
<1> QED
  BY <1>1, CascadeInvariant, PTL

---------------------------------------------------------------------------
(* The certificates *)

\* What the search returns depends on the rows alone.
LEMMA FoundSame ==
  ASSUME UNCHANGED <<issuer, created>>
  PROVE  \A c : Found(c)' <=> Found(c)
BY DEF Found, SearchCertificates

\* A new certificate is the last: the search still returns what it did.
LEMMA FoundBefore ==
  ASSUME RowsOK, NEW r \in Requests, NEW c \in Certs, IssueInsert(r, c),
         NEW d \in Certs, status[d] # "none", Found(d)'
  PROVE  Found(d)
<1> DEFINE x == issuer[d]
           Upto(i) == {j \in 1 .. i : issuer[created[j]] = x}
           UptoNext(i) == {j \in 1 .. i : issuer'[created'[j]] = x}
<1>1. /\ created \in Seq(Certs) /\ Len(created) \in Nat /\ DOMAIN created = 1 .. Len(created)
      /\ created' \in Seq(Certs) /\ DOMAIN created' = 1 .. Len(created) + 1
      /\ \A i \in 1 .. Len(created) : created'[i] = created[i]
      /\ created'[Len(created) + 1] = c
  BY DEF RowsOK, IssueInsert
<1>2. /\ status[c] = "none" /\ c # d
      /\ \A e \in Certs \ {c} : issuer'[e] = issuer[e]
  BY DEF RowsOK, IssueInsert
<1>3. \A i \in 1 .. Len(created) : created[i] \in Certs \ {c}
  BY <1>1, <1>2 DEF RowsOK, Range
<1>4. PICK i \in 1 .. Len(created) + 1 :
        /\ created'[i] = d
        /\ Cardinality(UptoNext(i)) <= SearchLimit
  BY <1>1, <1>2 DEF Found, SearchCertificates
<1>5. i \in 1 .. Len(created) /\ created[i] = d
  BY <1>1, <1>2, <1>4
<1>6. \A j \in 1 .. i : j \in 1 .. Len(created) /\ issuer'[created'[j]] = issuer[created[j]]
  <2>1. \A j \in 1 .. i : j \in 1 .. Len(created)
    BY <1>1, <1>5
  <2> QED
    BY <1>1, <1>2, <1>3, <2>1
<1>7. UptoNext(i) = Upto(i)
  BY <1>6
<1> QED
  BY <1>1, <1>4, <1>5, <1>7 DEF Found, SearchCertificates

\* A step keeps the issuers and what is revoked, and the search returns no more of what
\* was there.
Lasting ==
  \A c \in Certs : status[c] # "none" =>
    /\ issuer'[c] = issuer[c] /\ (status[c] = "revoked" => status'[c] = "revoked")
    /\ Found(c)' => Found(c)

\* What q found active stays so, or is revoked or given up.
Known(q) ==
  \A c \in early'[q] : c \in early[q] /\ status'[c] \in {"active", "revoked"}

\* The step leaves the sweep of q alone.
Apart(q) ==
  /\ pc'[q] = pc[q] /\ stack'[q] = stack[q] /\ cascade'[q] = cascade[q] /\ todo'[q] = todo[q]
  /\ warned[q] \subseteq warned'[q]


\* A sweep that is left alone keeps its part of the invariant.
LEMMA SweepsKept ==
  ASSUME GhostsOK, NEW q \in Requests, Sweeps(q), Lasting, Known(q), Apart(q)
  PROVE  Sweeps(q)'
<1>1. Walked(q)' = Walked(q)
  BY DEF Walked, Apart
<1>2. ASSUME NEW c \in early'[q]
      PROVE  /\ c \in early[q] /\ issuer'[c] = issuer[c]
             /\ status[c] = "revoked" => status'[c] = "revoked"
             /\ Found(c)' => Found(c)
  BY <1>2 DEF GhostsOK, Known, Lasting, Sweeps
<1>3. ASSUME NEW x, Swept(x, early[q]) PROVE Swept(x, early[q])'
  BY <1>2, <1>3 DEF Swept
<1>4. ASSUME NEW x, Swept(x, early[q] \ todo[q]) PROVE Swept(x, early[q] \ todo[q])'
  BY <1>2, <1>4 DEF Swept, Apart
<1> QED
  BY <1>1, <1>3, <1>4 DEF Sweeps, Known, Apart

\* The walk of a request begins, or goes on before the certificates are looked at: only
\* the callers count.
LEMMA SweepsBefore ==
  ASSUME LocalsOK, NEW r \in Requests,
         pc'[r] \in {"issue", "disable", "search"} \/ (pc'[r] = "parent" /\ ~cascade'[r]),
         \A c \in early'[r] : status'[c] \in {"active", "revoked"},
         \A i \in 1 .. Len(stack'[r]) : i > 1 =>
           stack'[r][i] \in warned'[r] \/ Swept(stack[r][i], early[r])'
  PROVE  Sweeps(r)'
<1>1. \A i \in Walked(r)' : i \in 1 .. Len(stack'[r]) /\ i > 1
  BY DEF Walked
<1> QED
  BY <1>1 DEF Sweeps

\* The issuer is disabled: its active certificates are to be revoked.
LEMMA DisableSweeps ==
  ASSUME TypeOK, NEW r \in Requests, Frames(r), Sweeps(r), RetireDisable(r)
  PROVE  Sweeps(r)'
<1> DEFINE x == stack[r][1]
<1>0. RowsOK /\ LocalsOK /\ GhostsOK
  BY TypeParts
<1>1. pc[r] = "disable" /\ Head(stack[r]) = x /\ x \in CAs
  BY <1>0, OnTheWay DEF RetireDisable
<1>2. /\ pc'[r] = IF cascade[r] THEN "search" ELSE "parent"
      /\ early'[r] = early[r] \cup {c \in Certs : issuer[c] = x /\ status[c] = "active"}
      /\ UNCHANGED <<stack, cascade, warned, status, issuer, created>>
  BY <1>0, <1>1 DEF LocalsOK, GhostsOK, RetireDisable, Goto, locals, certVars
<1>3. \A i \in 1 .. Len(stack[r]) : i > 1 => stack[r][i] # x
  BY <1>0, <1>1, OnlyOnce
<1>4. ASSUME NEW i \in 1 .. Len(stack[r]), i > 1
      PROVE  stack[r][i] \in warned[r] \/ Swept(stack[r][i], early[r])
  BY <1>1, <1>4 DEF Sweeps, Walked
<1> HIDE DEF x
<1>5. ASSUME NEW z, z # x, Swept(z, early[r]) PROVE Swept(z, early[r])'
  BY <1>2, <1>5, FoundSame DEF Swept
<1>6. \A c \in early'[r] : status'[c] \in {"active", "revoked"}
  BY <1>2 DEF Sweeps
<1>7. \A i \in 1 .. Len(stack'[r]) : i > 1 =>
        stack'[r][i] \in warned'[r] \/ Swept(stack[r][i], early[r])'
  BY <1>2, <1>3, <1>4, <1>5
<1> QED
  BY <1>0, <1>2, <1>6, <1>7, SweepsBefore

\* The search has all that r found active, that still is and that a search returns.
LEMMA SearchSweeps ==
  ASSUME TypeOK, NEW r \in Requests, Sweeps(r), RetireSearch(r)
  PROVE  Sweeps(r)'
<1> DEFINE x == stack[r][1]
<1>0. RowsOK /\ LocalsOK /\ GhostsOK
  BY TypeParts
<1>1. pc[r] = "search" /\ Head(stack[r]) = x /\ x \in CAs
  BY <1>0, OnTheWay DEF RetireSearch
<1>2. /\ pc'[r] = "sweep"
      /\ todo'[r] = {c \in SearchCertificates(x) : status[c] = "active"}
      /\ UNCHANGED <<stack, cascade, warned, status, issuer, created, early>>
  BY <1>0, <1>1 DEF LocalsOK, RetireSearch, Goto, certVars, ghosts
<1>3. Walked(r)' = Walked(r)
  BY <1>1, <1>2 DEF Walked
<1> HIDE DEF x
<1>4. ASSUME NEW c \in early[r], c \notin todo'[r], issuer[c] = x, Found(c)
      PROVE  status[c] = "revoked"
  <2>1. c \in Certs /\ status[c] \in {"active", "revoked"}
    BY <1>0, <1>4 DEF GhostsOK, Sweeps
  <2>2. c \in SearchCertificates(x)
    BY <1>4 DEF Found
  <2> QED
    BY <1>2, <1>4, <2>1, <2>2
<1>5. Swept(x, early[r] \ todo'[r])
  BY <1>4 DEF Swept
<1>6. Swept(stack[r][1], early[r] \ todo[r])'
  BY <1>2, <1>5, FoundSame DEF Swept, x
<1>7. ASSUME NEW z, Swept(z, early[r]) PROVE Swept(z, early[r])'
  BY <1>2, <1>7, FoundSame DEF Swept
<1> QED
  BY <1>1, <1>2, <1>3, <1>6, <1>7 DEF Sweeps

\* A certificate is revoked, or a warning left.
LEMMA SweepSweeps ==
  ASSUME TypeOK, NEW r \in Requests, Sweeps(r), RetireSweep(r)
  PROVE  Sweeps(r)' /\ Lasting /\ \A q \in Requests : Sweeps(q) => Known(q)
<1> DEFINE x == stack[r][1]
<1>0. RowsOK /\ LocalsOK /\ GhostsOK
  BY TypeParts
<1>1. pc[r] = "sweep" /\ Head(stack[r]) = x
  BY <1>0, OnTheWay DEF RetireSweep
<1>2. PICK c \in todo[r] :
        /\ todo' = [todo EXCEPT ![r] = @ \ {c}]
        /\ \/ /\ status[c] = "active"
              /\ status' = [status EXCEPT ![c] = "revoked"]
              /\ UNCHANGED warned
           \/ /\ warned' = [warned EXCEPT ![r] = @ \cup {x}]
              /\ UNCHANGED status
  BY <1>1 DEF RetireSweep
<1>3. UNCHANGED <<pc, stack, cascade, issuer, created, early>>
  BY DEF RetireSweep, ghosts
<1>4. /\ c \in Certs /\ todo'[r] = todo[r] \ {c} /\ warned[r] \subseteq warned'[r]
      /\ \A d \in Certs : status'[d] = status[d] \/ (status[d] = "active" /\ status'[d] = "revoked")
      /\ status'[c] = "revoked" \/ x \in warned'[r]
  BY <1>0, <1>2 DEF RowsOK, LocalsOK
<1>f. \A d : Found(d)' <=> Found(d)
  BY <1>3, FoundSame
<1>5. Lasting
  BY <1>3, <1>4, <1>f DEF Lasting
<1>6. \A q \in Requests : Sweeps(q) => Known(q)
  BY <1>0, <1>3, <1>4 DEF GhostsOK, Sweeps, Known
<1>7. Walked(r)' = Walked(r)
  BY <1>3 DEF Walked
<1> HIDE DEF x
<1>8. ASSUME NEW z, Swept(z, early[r]) PROVE Swept(z, early[r])'
  BY <1>0, <1>3, <1>4, <1>8, <1>f DEF GhostsOK, Swept
<1>9. x \in warned'[r] \/ Swept(x, early[r] \ todo[r])'
  <2>1. x \in warned[r] \/ Swept(x, early[r] \ todo[r])
    BY <1>1 DEF Sweeps, x
  <2>2. ASSUME status'[c] = "revoked", Swept(x, early[r] \ todo[r]), NEW d \in early[r],
               d \notin todo'[r], issuer[d] = x, Found(d)
        PROVE  status'[d] = "revoked"
    <3>1. d = c \/ (d \in Certs /\ d \in early[r] \ todo[r])
      BY <1>0, <1>4, <2>2 DEF GhostsOK
    <3> QED
      BY <1>4, <2>2, <3>1 DEF Swept
  <2>3. CASE x \in warned'[r]
    BY <2>3
  <2>4. CASE x \notin warned'[r]
    <3>1. status'[c] = "revoked" /\ Swept(x, early[r] \ todo[r])
      BY <1>4, <2>1, <2>4
    <3>2. \A d \in early'[r] \ todo'[r] : issuer'[d] = x /\ Found(d)' => status'[d] = "revoked"
      BY <1>3, <1>f, <2>2, <3>1
    <3>3. ASSUME NEW z, z = x PROVE Swept(z, early[r] \ todo[r])'
      BY <3>2, <3>3 DEF Swept
    <3>4. x' = x
      BY <1>3 DEF x
    <3> QED
      BY <3>3, <3>4
  <2> QED
    BY <2>3, <2>4
<1>10. Swept(x, early[r] \ todo[r])' => Swept(stack[r][1], early[r] \ todo[r])'
  BY DEF x
<1>11. Sweeps(r)'
  BY <1>1, <1>3, <1>4, <1>6, <1>7, <1>8, <1>9, <1>10 DEF Sweeps, Known, x
<1> QED
  BY <1>5, <1>6, <1>11

\* The certificates are done, and the children are next.
LEMMA ChildrenSweeps ==
  ASSUME TypeOK, NEW r \in Requests, Frames(r), Sweeps(r),
         RetireChildren(r) \/ RetireChildrenDone(r)
  PROVE  Sweeps(r)'
<1>0. LocalsOK
  BY TypeParts
<1>1. /\ pc[r] \in {"sweep", "kids"} /\ pc'[r] \in {"kids", "parent"}
      /\ pc[r] = "sweep" => todo[r] = {}
      /\ UNCHANGED <<stack, cascade, warned, status, issuer, created, early>>
  BY <1>0 DEF LocalsOK, RetireChildren, RetireChildrenDone, Goto, certVars, locals, ghosts
<1>2. ASSUME NEW i \in Walked(r)'
      PROVE  stack[r][i] \in warned[r] \/ Swept(stack[r][i], early[r])
  <2>1. i \in 1 .. Len(stack[r])
    BY <1>1 DEF Walked
  <2>2. CASE i \in Walked(r)
    BY <1>1, <2>2 DEF Sweeps
  <2>3. CASE i \notin Walked(r)
    <3>1. pc[r] = "sweep" /\ i = 1
      BY <1>1, <2>1, <2>3 DEF Walked
    <3>2. early[r] \ todo[r] = early[r]
      BY <1>1, <3>1
    <3> QED
      BY <3>1, <3>2 DEF Sweeps
  <2> QED
    BY <2>2, <2>3
<1>3. ASSUME NEW z, Swept(z, early[r]) PROVE Swept(z, early[r])'
  BY <1>1, <1>3, FoundSame DEF Swept
<1> QED
  BY <1>1, <1>2, <1>3 DEF Sweeps

\* RevokeCA is called for a child.
LEMMA ChildSweeps ==
  ASSUME TypeOK, NEW r \in Requests, Frames(r), Sweeps(r), RetireChild(r)
  PROVE  Sweeps(r)'
<1>0. LocalsOK
  BY TypeParts
<1>s. PICK s : s = stack[r]
  OBVIOUS
<1>1. pc[r] = "kids" /\ s \in Seq(CAs) /\ s # <<>> /\ Head(s) \in CAs
  BY <1>0, <1>s, OnTheWay DEF RetireChild
<1>2. PICK y \in kids[r][Head(s)] : stack' = [stack EXCEPT ![r] = <<y>> \o @]
  BY <1>s DEF RetireChild
<1>3. pc'[r] = "disable" /\ UNCHANGED <<cascade, warned, status, issuer, created, early>>
  BY <1>0 DEF LocalsOK, RetireChild, Goto, certVars, ghosts
<1>t. PICK t : t = <<y>> \o s
  OBVIOUS
<1>4. y \in CAs /\ stack'[r] = t
  BY <1>0, <1>s, <1>t, <1>1, <1>2 DEF LocalsOK
<1>5. \A i \in 1 .. Len(t) : i > 1 => i - 1 \in 1 .. Len(s) /\ t[i] = s[i - 1]
  BY <1>t, <1>1, <1>4, Pushed
<1>6. \A j \in 1 .. Len(s) : s[j] \in warned[r] \/ Swept(s[j], early[r])
  BY <1>s, <1>1 DEF Sweeps, Walked
<1>7. ASSUME NEW z, Swept(z, early[r]) PROVE Swept(z, early[r])'
  BY <1>3, <1>7, FoundSame DEF Swept
<1>8. \A i \in 1 .. Len(stack'[r]) : i > 1 =>
        stack'[r][i] \in warned'[r] \/ Swept(stack[r][i], early[r])'
  BY <1>3, <1>4, <1>5, <1>6, <1>7
<1>9. \A c \in early'[r] : status'[c] \in {"active", "revoked"}
  BY <1>3 DEF Sweeps
<1> QED
  BY <1>0, <1>3, <1>8, <1>9, SweepsBefore

\* RevokeCA for a child returns to its caller.
LEMMA PopSweeps ==
  ASSUME LocalsOK, NEW r \in Requests, Sweeps(r), pc[r] # "idle", Len(stack[r]) # 1,
         Goto(r, "kids"), stack' = [stack EXCEPT ![r] = Tail(@)], warned[r] \subseteq warned'[r],
         UNCHANGED <<status, issuer, created, early>>
  PROVE  Sweeps(r)'
<1>s. PICK s : s = stack[r]
  OBVIOUS
<1>t. PICK t : t = Tail(s)
  OBVIOUS
<1>1. s \in Seq(CAs) /\ s # <<>> /\ pc'[r] = "kids" /\ stack'[r] = t
  BY <1>s, <1>t, OnTheWay DEF LocalsOK, Goto
<1>2. t \in Seq(CAs) /\ \A i \in 1 .. Len(t) : i + 1 \in 1 .. Len(s) /\ t[i] = s[i + 1]
  BY <1>s, <1>t, <1>1, Popped
<1>3. \A i \in Walked(r)' : i \in 1 .. Len(t)
  BY <1>1 DEF Walked
<1>4. ASSUME NEW i \in 1 .. Len(t) PROVE t[i] \in warned[r] \/ Swept(t[i], early[r])
  <2>1. i + 1 \in Walked(r)
    BY <1>s, <1>2 DEF Walked
  <2> QED
    BY <1>s, <1>2, <2>1 DEF Sweeps
<1>5. ASSUME NEW z, Swept(z, early[r]) PROVE Swept(z, early[r])'
  BY <1>5, FoundSame DEF Swept
<1> QED
  BY <1>1, <1>3, <1>4, <1>5 DEF Sweeps

\* One that returned has no certificates.
LEMMA SweepsReturn ==
  ASSUME LocalsOK, GhostsOK, NEW r \in Requests, Return(r)
  PROVE  Sweeps(r)' /\ \A q \in Requests \ {r} : Apart(q) /\ early'[q] = early[q]
<1>1. pc'[r] = "idle" /\ early'[r] = {}
  BY DEF LocalsOK, GhostsOK, Return, Goto
<1>2. Sweeps(r)'
  BY <1>1 DEF Sweeps
<1> QED
  BY <1>2 DEF LocalsOK, GhostsOK, Return, Goto, Apart

\* RevokeCA returns.
LEMMA ParentSweeps ==
  ASSUME TypeOK, NEW r \in Requests, Sweeps(r), RetireParent(r)
  PROVE  Sweeps(r)' /\ \A q \in Requests \ {r} : Apart(q) /\ early'[q] = early[q]
<1>0. LocalsOK /\ GhostsOK
  BY TypeParts
<1>1. pc[r] = "parent"
  BY DEF RetireParent
<1>4. UNCHANGED <<status, issuer, created>>
  BY DEF RetireParent, certVars
<1>6. PICK whole \in BOOLEAN : Pop(r, whole)
  BY DEF RetireParent
<1>7. CASE Len(stack[r]) = 1
  BY <1>0, <1>6, <1>7, SweepsReturn DEF Pop
<1>8. CASE Len(stack[r]) # 1
  <2>1. /\ stack' = [stack EXCEPT ![r] = Tail(@)] /\ Goto(r, "kids")
        /\ UNCHANGED <<cascade, todo, kids, warned, disturbed, early>>
    BY <1>6, <1>8 DEF Pop
  <2>2. Sweeps(r)'
    BY <1>0, <1>1, <1>4, <1>8, <2>1, PopSweeps
  <2>3. \A q \in Requests \ {r} : Apart(q) /\ early'[q] = early[q]
    BY <1>0, <2>1 DEF LocalsOK, Apart, Goto
  <2> QED
    BY <2>2, <2>3
<1> QED
  BY <1>7, <1>8

\* It returns an error.
LEMMA FailsSweeps ==
  ASSUME TypeOK, NEW r \in Requests, Sweeps(r), RetireFails(r)
  PROVE  Sweeps(r)' /\ \A q \in Requests \ {r} : Apart(q) /\ early'[q] = early[q]
<1>0. LocalsOK /\ GhostsOK
  BY TypeParts
<1>1. pc[r] # "idle"
  BY DEF RetireFails
<1>2. CASE Len(stack[r]) = 1
  BY <1>0, <1>2, SweepsReturn DEF RetireFails
<1>3. CASE Len(stack[r]) # 1
  <2>1. /\ stack' = [stack EXCEPT ![r] = Tail(@)] /\ Goto(r, "kids")
        /\ warned' = [warned EXCEPT ![r] = @ \cup {stack[r][2]}]
        /\ UNCHANGED <<cascade, todo, kids, early, status, issuer, created>>
    BY <1>3 DEF RetireFails, certVars
  <2>2. warned[r] \subseteq warned'[r]
    BY <1>0, <2>1 DEF LocalsOK
  <2>3. Sweeps(r)'
    BY <1>0, <1>1, <1>3, <2>1, <2>2, PopSweeps
  <2>4. \A q \in Requests \ {r} : Apart(q) /\ early'[q] = early[q]
    BY <1>0, <2>1 DEF LocalsOK, Apart, Goto
  <2> QED
    BY <2>3, <2>4
<1> QED
  BY <1>2, <1>3

\* SweepInv is inductive.
LEMMA SweepStep == SweepInv /\ [Next]_vars => SweepInv'
<1> SUFFICES ASSUME SweepInv, [Next]_vars PROVE SweepInv'
  OBVIOUS
<1>0. /\ TypeOK /\ RowsOK /\ LocalsOK /\ GhostsOK /\ CascadeInv'
      /\ \A q \in Requests : Frames(q) /\ Sweeps(q)
  BY TypeParts, CascadeStep DEF SweepInv, CascadeInv
<1> DEFINE Goal == \A q \in Requests : Sweeps(q)'
<1> SUFFICES Goal
  BY <1>0 DEF SweepInv
\* All that a step of one request has to show.
<1>a. ASSUME NEW r \in Requests, Lasting, Sweeps(r)',
             \A q \in Requests \ {r} : Apart(q) /\ Known(q)
      PROVE  \A q \in Requests : Sweeps(q)'
  <2>1. ASSUME NEW q \in Requests \ {r} PROVE Sweeps(q)'
    BY <1>0, <1>a, <2>1, SweepsKept
  <2> QED
    BY <1>a, <2>1
<1>c. ASSUME UNCHANGED <<status, issuer, created>>
      PROVE  Lasting /\ \A q \in Requests : early'[q] = early[q] => Known(q)
  BY <1>0, <1>c, FoundSame DEF Lasting, Known, Sweeps
<1>1. ASSUME NEW x \in CAs, NEW s \in {"active", "disabled"}, SetCAStatus(x, s) PROVE Goal
  <2>1. UNCHANGED <<status, issuer, created, early>> /\ \A q \in Requests : Apart(q)
    BY <1>1 DEF SetCAStatus, certVars, locals, Apart
  <2> QED
    BY <1>0, <1>c, <2>1, SweepsKept
<1>2. ASSUME NEW c \in Certs, Hold(c) \/ Release(c) \/ Revoke(c) PROVE Goal
  <2>1. UNCHANGED <<issuer, created>> /\ \A q \in Requests : Apart(q)
    BY <1>2 DEF Hold, Release, Revoke, locals, ghosts, Apart
  <2>2. Lasting
    BY <1>0, <1>2, <2>1, FoundSame DEF RowsOK, Hold, Release, Revoke, Lasting
  <2>3. ASSUME NEW q \in Requests PROVE Known(q)
    <3>1. CASE Hold(c)
      BY <1>0, <3>1 DEF RowsOK, GhostsOK, Hold, Known, Sweeps
    <3>2. CASE Release(c) \/ Revoke(c)
      BY <1>0, <3>2 DEF RowsOK, GhostsOK, Release, Revoke, ghosts, Known, Sweeps
    <3> QED
      BY <1>2, <3>1, <3>2
  <2> QED
    BY <1>0, <2>1, <2>2, <2>3, SweepsKept
<1>3. ASSUME NEW r \in Requests, NEW x \in CAs, BeginIssue(r, x) \/ \E b \in BOOLEAN : BeginRevokeCA(r, x, b)
      PROVE  Goal
  <2>1. /\ UNCHANGED <<status, issuer, created, early>>
        /\ pc'[r] \in {"issue", "disable"} /\ stack'[r] = <<x>>
        /\ \A q \in Requests \ {r} : Apart(q)
    BY <1>0, <1>3 DEF LocalsOK, BeginIssue, BeginRevokeCA, Goto, certVars, ghosts, Apart
  <2>s. PICK s : s = <<x>>
    OBVIOUS
  <2>2. stack'[r] = s /\ Len(s) = 1
    BY <2>1, <2>s
  <2>3. \A i \in 1 .. Len(s) : ~(i > 1)
    BY <2>2
  <2>4. \A c \in early'[r] : status'[c] \in {"active", "revoked"}
    BY <1>0, <2>1 DEF Sweeps
  <2>5. Sweeps(r)'
    BY <1>0, <2>1, <2>2, <2>3, <2>4, SweepsBefore
  <2> QED
    BY <1>a, <1>c, <2>1, <2>5
<1>4. ASSUME NEW r \in Requests, NEW c \in Certs, IssueInsert(r, c) PROVE Goal
  <2>1. Return(r) /\ status[c] = "none" /\ created' = Append(created, c)
    BY <1>4 DEF IssueInsert
  <2>2. \A d \in Certs \ {c} : status'[d] = status[d] /\ issuer'[d] = issuer[d]
    BY <1>0, <1>4 DEF RowsOK, IssueInsert
  <2>3. Lasting
    BY <1>0, <1>4, <2>1, <2>2, FoundBefore DEF Lasting
  <2>4. Sweeps(r)' /\ \A q \in Requests \ {r} : Apart(q) /\ early'[q] = early[q]
    BY <1>0, <2>1, SweepsReturn
  <2>5. ASSUME NEW q \in Requests \ {r} PROVE Known(q)
    BY <1>0, <2>1, <2>2, <2>4 DEF GhostsOK, Known, Sweeps
  <2> QED
    BY <1>a, <2>3, <2>4, <2>5
<1>5. ASSUME NEW r \in Requests, RetireDisable(r) PROVE Goal
  <2>1. /\ UNCHANGED <<status, issuer, created>>
        /\ \A q \in Requests \ {r} : Apart(q) /\ early'[q] = early[q]
    BY <1>0, <1>5 DEF LocalsOK, GhostsOK, RetireDisable, Goto, certVars, locals, Apart
  <2> QED
    BY <1>0, <1>5, <1>a, <1>c, <2>1, DisableSweeps
<1>6. ASSUME NEW r \in Requests, RetireSearch(r) PROVE Goal
  <2>1. /\ UNCHANGED <<status, issuer, created>>
        /\ \A q \in Requests \ {r} : Apart(q) /\ early'[q] = early[q]
    BY <1>0, <1>6 DEF LocalsOK, RetireSearch, Goto, certVars, ghosts, Apart
  <2> QED
    BY <1>0, <1>6, <1>a, <1>c, <2>1, SearchSweeps
<1>7. ASSUME NEW r \in Requests, RetireSweep(r) PROVE Goal
  <2>1. \A q \in Requests \ {r} : Apart(q)
    BY <1>0, <1>7 DEF LocalsOK, RetireSweep, ghosts, Apart
  <2>2. Sweeps(r)' /\ Lasting /\ \A q \in Requests : Known(q)
    BY <1>0, <1>7, SweepSweeps
  <2> QED
    BY <1>a, <2>1, <2>2
<1>8. ASSUME NEW r \in Requests, RetireChildren(r) \/ RetireChildrenDone(r) PROVE Goal
  <2>1. /\ UNCHANGED <<status, issuer, created>>
        /\ \A q \in Requests \ {r} : Apart(q) /\ early'[q] = early[q]
    BY <1>0, <1>8 DEF LocalsOK, RetireChildren, RetireChildrenDone, Goto, certVars, locals, ghosts, Apart
  <2> QED
    BY <1>0, <1>8, <1>a, <1>c, <2>1, ChildrenSweeps
<1>9. ASSUME NEW r \in Requests, RetireChild(r) PROVE Goal
  <2>1. /\ UNCHANGED <<status, issuer, created>>
        /\ \A q \in Requests \ {r} : Apart(q) /\ early'[q] = early[q]
    BY <1>0, <1>9 DEF LocalsOK, RetireChild, Goto, certVars, ghosts, Apart
  <2> QED
    BY <1>0, <1>9, <1>a, <1>c, <2>1, ChildSweeps
<1>10. ASSUME NEW r \in Requests, RetireParent(r) PROVE Goal
  <2>1. UNCHANGED <<status, issuer, created>>
    BY <1>10 DEF RetireParent, certVars
  <2> QED
    BY <1>0, <1>10, <1>a, <1>c, <2>1, ParentSweeps
<1>11. ASSUME NEW r \in Requests, RetireFails(r) PROVE Goal
  <2>1. UNCHANGED <<status, issuer, created>>
    BY <1>11 DEF RetireFails, certVars
  <2> QED
    BY <1>0, <1>11, <1>a, <1>c, <2>1, FailsSweeps
<1>12. ASSUME NEW r \in Requests, Abandon(r) PROVE Goal
  <2>1. UNCHANGED <<status, issuer, created>> /\ Return(r)
    BY <1>12 DEF Abandon, certVars
  <2> QED
    BY <1>0, <1>a, <1>c, <2>1, SweepsReturn
<1>13. ASSUME NEW x \in CAs, CreateCA(x) PROVE Goal
  <2>1. UNCHANGED <<status, issuer, created, early>> /\ \A q \in Requests : Apart(q)
    BY <1>13 DEF CreateCA, certVars, locals, Apart
  <2> QED
    BY <1>0, <1>c, <2>1, SweepsKept
<1>14. ASSUME UNCHANGED vars PROVE Goal
  <2>1. UNCHANGED <<status, issuer, created, early>> /\ \A q \in Requests : Apart(q)
    BY <1>14 DEF vars, certVars, locals, ghosts, Apart
  <2> QED
    BY <1>0, <1>c, <2>1, SweepsKept
<1> HIDE DEF Goal
<1> QED
  BY <1>1, <1>2, <1>3, <1>4, <1>5, <1>6, <1>7, <1>8, <1>9, <1>10, <1>11, <1>12, <1>13, <1>14
     DEF Next, RetireStep

\* RevokeCA with cascade, for every forest of authorities, every limit and whatever else
\* goes on: what was active when RevokeCA disabled its issuer, and is among the
\* certificates its search can return, is revoked when it comes to return without a
\* warning.
THEOREM PromisesAreKept == Spec => []EarlyAreRevoked
<1>1. Init => SweepInv
  <2> SUFFICES ASSUME Init PROVE SweepInv
    OBVIOUS
  <2>1. \A r \in Requests : Sweeps(r)
    BY DEF Init, Sweeps
  <2> QED
    BY <2>1, CascadeInit DEF SweepInv
<1>2. SweepInv => EarlyAreRevoked
  <2> SUFFICES ASSUME SweepInv, NEW r \in Requests, NEW c \in Promised(r),
                      c \in SearchCertificates(issuer[c])
               PROVE  status[c] = "revoked"
    BY DEF EarlyAreRevoked
  <2>1. /\ c \in early[r] /\ pc[r] = "parent" /\ cascade[r]
        /\ issuer[c] = Head(stack[r]) /\ Head(stack[r]) \notin warned[r]
    BY DEF Promised
  <2>2. /\ Head(stack[r]) = stack[r][1] /\ stack[r] \in Seq(CAs) /\ stack[r] # <<>>
        /\ 1 \in 1 .. Len(stack[r])
    BY <2>1, TypeParts, OnTheWay, Innermost DEF SweepInv, CascadeInv
  <2>3. 1 \in Walked(r) /\ Sweeps(r)
    BY <2>1, <2>2 DEF Walked, SweepInv
  <2>4. Swept(stack[r][1], early[r])
    BY <2>1, <2>2, <2>3 DEF Sweeps
  <2> QED
    BY <2>1, <2>2, <2>4 DEF Swept, Found
<1> QED
  BY <1>1, <1>2, SweepStep, PTL DEF Spec
=============================================================================
