-------------------------- MODULE SecretVaultProofs --------------------------
(***************************************************************************)
(* What SecretVault.cfg and its run check on two secrets and two requests, *)
(* for any secrets, versions, workloads and requests: the types, what is   *)
(* served, and that the vault implements VersionedSecrets.                 *)
(***************************************************************************)
EXTENDS SecretVault, FiniteSetTheorems, SequenceTheorems, WellFoundedInduction, TLAPS

PCs == {"idle", "reserve", "seal", "bindings", "list", "materialize", "read", "served"}
Ops == {"none", "put", "latest", "version", "fetch"}

\* The tables: one secret of the name, and versions without gaps at the end.
Tables ==
  /\ used \in SUBSET Secrets /\ alive \subseteq used /\ disabled \subseteq alive
  /\ current \in [Secrets -> 0 .. MaxVersion]
  /\ payload \in [Secrets -> [Versions -> Values \cup {NoRow, Scrubbed}]]
  /\ bound \in [Secrets -> SUBSET Workloads]
  /\ renewals \in 0 .. MaxRenewals

Rows ==
  /\ \A s, t \in alive : s = t
  /\ \A s \in Secrets : s \notin alive => current[s] = 0
  /\ \A s \in Secrets, v \in Versions : v > current[s] => payload[s][v] = NoRow

\* The locals of the requests.
Locals ==
  /\ pc \in [Requests -> PCs]
  /\ op \in [Requests -> Ops]
  /\ sec \in [Requests -> Secrets \cup {NoSecret}]
  /\ arg \in [Requests -> Args]
  /\ got \in [Requests -> 0 .. MaxVersion]
  /\ began \in [Requests -> Secrets \cup {NoSecret}]
  /\ newest \in [Requests -> Nat]
  /\ barred \in [Requests -> SUBSET Secrets]
  /\ unbound \in [Requests -> SUBSET Secrets]

\* A row's lock is held by the Put that seals a version of it, and the row stays.
Locks ==
  /\ lock \in [Secrets -> Requests \cup {NoRequest}]
  /\ \A s \in Secrets, r \in Requests : lock[s] = r <=> pc[r] = "seal" /\ sec[r] = s
  /\ \A s \in Secrets : lock[s] # NoRequest => s \in alive

\* MaxVersion leaves a version to each Put in flight.
Putting(s) == {q \in Requests : op[q] = "put" /\ sec[q] = s}
Counting == \A s \in Secrets : current[s] + Cardinality(Putting(s)) <= MaxVersion

\* What a request is about.
Shape(r) ==
  /\ pc[r] # "idle" => sec[r] \in Secrets /\ began[r] \in used
  /\ pc[r] \in {"reserve", "seal"} <=> op[r] = "put"
  /\ op[r] = "put" => arg[r] \in Values
  /\ pc[r] \in {"bindings", "list", "materialize"} => op[r] = "fetch"
  /\ pc[r] = "seal" => got[r] = current[sec[r]] + 1

\* What is barred is still disabled, or deleted; what is unbound is still so.
Refused(r) ==
  /\ \A s \in barred[r] : s \in disabled \/ s \in used \ alive
  /\ op[r] = "fetch" => \A s \in unbound[r] : arg[r] \notin bound[s]

\* What a request has looked at was allowed, and is the newest it had to find.
Served(r) ==
  /\ pc[r] \in {"read", "served"} => sec[r] \notin barred[r]
  /\ pc[r] = "list" /\ began[r] \in alive => sec[r] = began[r]
  /\ pc[r] = "materialize" /\ began[r] \in alive => began[r] \notin unbound[r]
  /\ pc[r] \in {"read", "served"} /\ op[r] = "fetch" /\ sec[r] = began[r] => sec[r] \notin unbound[r]

\* The newest version there was is still a version, though perhaps destroyed.
Newest(r) ==
  pc[r] # "idle" /\ began[r] \in alive \ Certificate /\ newest[r] # 0 =>
    /\ newest[r] \in Versions
    /\ payload[began[r]][newest[r]] # NoRow
    /\ (/\ pc[r] = "served" /\ op[r] \in {"latest", "fetch"} /\ sec[r] = began[r]
        /\ payload[began[r]][newest[r]] \in Values) => got[r] >= newest[r]

Inv(r) == Shape(r) /\ Refused(r) /\ Served(r) /\ Newest(r)
VaultInv ==
  Tables /\ Rows /\ Locals /\ Locks /\ Counting /\ \A r \in Requests : Inv(r)

---------------------------------------------------------------------------
(* The largest of a set, and counting *)

\* A set of naturals has a least element.
LEMMA HasLeast ==
  ASSUME NEW T \in SUBSET Nat, T # {}
  PROVE  \E x \in T : \A y \in T : x <= y
<1> DEFINE R == OpToRel(<, Nat)
<1>1. PICK x \in T : \A y \in T : ~(<<y, x>> \in R)
  <2>1. IsWellFoundedOn(R, Nat)
    BY NatLessThanWellFounded, Zenon
  <2> HIDE DEF R
  <2> QED
    BY <2>1, WFMin
<1>2. ASSUME NEW y \in T, y < x PROVE FALSE
  <2>1. <<y, x>> \in Nat \X Nat /\ <<y, x>>[1] < <<y, x>>[2]
    BY <1>2
  <2> QED
    BY <1>1, <2>1 DEF OpToRel
<1> QED
  BY <1>2

\* Max, of a set of versions that is not empty: GetLatestSecretVersion finds one.
LEMMA MaxIsLargest ==
  ASSUME NEW S \in SUBSET (0 .. MaxVersion), S # {}
  PROVE  Max(S) \in S /\ \A y \in S : y <= Max(S)
<1> USE VaultAssumption
<1> DEFINE T == {n \in Nat : \E y \in S : n = MaxVersion - y}
<1>1. PICK m \in T : \A k \in T : m <= k
  <2>1. \A y \in S : MaxVersion - y \in T
    OBVIOUS
  <2> QED
    BY <2>1, HasLeast
<1>2. PICK x \in S : m = MaxVersion - x
  OBVIOUS
<1>3. \A z \in S : x >= z
  <2> SUFFICES ASSUME NEW z \in S PROVE x >= z
    OBVIOUS
  <2>1. m <= MaxVersion - z
    BY <1>1
  <2> QED
    BY <1>2, <2>1
<1>4. Max(S) \in S /\ \A z \in S : Max(S) >= z
  BY <1>3 DEF Max
<1> QED
  BY <1>4

\* The Puts in flight can be counted.
LEMMA Countable ==
  ASSUME NEW s
  PROVE  /\ IsFiniteSet(Putting(s)) /\ Cardinality(Putting(s)) \in Nat
         /\ IsFiniteSet(Putting(s)') /\ Cardinality(Putting(s)') \in Nat
<1>1. Putting(s) \subseteq Requests /\ Putting(s)' \subseteq Requests
  BY DEF Putting
<1> QED
  BY <1>1, VaultAssumption, FS_Subset, FS_CardinalityType

\* Fewer Puts, and versions as before: there is still one for each.
LEMMA CountingKept ==
  ASSUME Counting, Tables, \A s \in Secrets : current'[s] \in {0, current[s]},
         \A q \in Requests : op'[q] = "put" => op[q] = "put" /\ sec'[q] = sec[q]
  PROVE  Counting'
<1> SUFFICES ASSUME NEW s \in Secrets
             PROVE  current'[s] + Cardinality(Putting(s)') <= MaxVersion
  BY DEF Counting
<1>1. Putting(s)' \subseteq Putting(s)
  BY DEF Putting
<1>2. Cardinality(Putting(s)') <= Cardinality(Putting(s))
  BY <1>1, Countable, FS_Subset
<1>3. current[s] + Cardinality(Putting(s)) <= MaxVersion /\ current[s] \in Nat
  BY VaultAssumption DEF Counting, Tables
<1> QED
  BY <1>2, <1>3, Countable, VaultAssumption

---------------------------------------------------------------------------
(* Steps of requests *)

\* The step leaves request q alone.
Stays(q) ==
  /\ pc'[q] = pc[q] /\ op'[q] = op[q] /\ sec'[q] = sec[q] /\ arg'[q] = arg[q] /\ got'[q] = got[q]
  /\ began'[q] = began[q] /\ newest'[q] = newest[q]
  /\ barred'[q] = barred[q] /\ unbound'[q] = unbound[q]

\* A request that is left alone keeps its invariant, if the tables are.
LEMMA StaysInv ==
  ASSUME NEW q \in Requests, Stays(q), UNCHANGED tables, Inv(q)
  PROVE  Inv(q)'
<1> USE DEF tables, Stays
<1>1. Shape(q)'
  BY DEF Inv, Shape
<1>2. Refused(q)'
  BY DEF Inv, Refused
<1>3. Served(q)'
  BY DEF Inv, Served
<1>4. Newest(q)'
  BY DEF Inv, Newest
<1> QED
  BY <1>1, <1>2, <1>3, <1>4 DEF Inv

\* The tables stay as they are.
LEMMA TablesKept ==
  ASSUME Tables, Rows, UNCHANGED tables
  PROVE  (Tables /\ Rows)'
BY DEF Tables, Rows, tables

\* A request that returns: its locals are reset, and its lock is given back.
LEMMA Returned ==
  ASSUME Locals, Locks, Tables, NEW r \in Requests, Return(r)
  PROVE  /\ Locals' /\ Inv(r)'
         /\ \A q \in Requests \ {r} : Stays(q)
         /\ \A s \in Secrets : lock'[s] \in {lock[s], NoRequest}
         /\ lock' \in [Secrets -> Requests \cup {NoRequest}]
         /\ \A s \in Secrets, q \in Requests : lock'[s] = q <=> pc'[q] = "seal" /\ sec'[q] = s
         /\ pc'[r] = "idle" /\ op'[r] = "none"
<1> USE VaultAssumption
<1>1. Locals'
  BY DEF Return, Goto, Locals, PCs, Ops, Args
<1>2. \A q \in Requests \ {r} : Stays(q)
  BY DEF Return, Goto, Locals, Stays
<1>3. pc'[r] = "idle" /\ op'[r] = "none" /\ barred'[r] = {}
  BY DEF Return, Goto, Locals
<1>4. Inv(r)'
  BY <1>3 DEF Inv, Shape, Refused, Served, Newest
<1>5. /\ lock' \in [Secrets -> Requests \cup {NoRequest}]
      /\ \A s \in Secrets : lock'[s] = IF lock[s] = r THEN NoRequest ELSE lock[s]
  BY DEF Return, Locks
<1>6. \A s \in Secrets, q \in Requests : lock'[s] = q <=> pc'[q] = "seal" /\ sec'[q] = s
  BY <1>2, <1>3, <1>5 DEF Locks, Stays
<1> QED
  BY <1>1, <1>2, <1>3, <1>4, <1>5, <1>6

\* A request that returns and has written nothing keeps the invariant.
LEMMA ReturnedInv ==
  ASSUME VaultInv, NEW r \in Requests, Return(r), UNCHANGED tables
  PROVE  VaultInv'
<1> USE DEF VaultInv
<1>1. /\ Locals' /\ Inv(r)' /\ \A q \in Requests \ {r} : Stays(q)
      /\ \A s \in Secrets : lock'[s] \in {lock[s], NoRequest}
      /\ lock' \in [Secrets -> Requests \cup {NoRequest}]
      /\ \A s \in Secrets, q \in Requests : lock'[s] = q <=> pc'[q] = "seal" /\ sec'[q] = s
      /\ pc'[r] = "idle" /\ op'[r] = "none"
  BY Returned
<1>2. \A q \in Requests : Inv(q)'
  BY <1>1, StaysInv
<1>3. Locks'
  BY <1>1 DEF Locks, tables
<1>4. Counting'
  BY <1>1, CountingKept DEF tables, Stays
<1> QED
  BY <1>1, <1>2, <1>3, <1>4, TablesKept

\* A request that resolves the name: Put, GetLatest, GetVersion and the fetch begin.
LEMMA Resolved ==
  ASSUME VaultInv, NEW r \in Requests, NEW s \in Secrets, NEW x \in Args,
         NEW kind, NEW label, Resolve(r, kind, x, s, label),
         \/ /\ kind = "put" /\ label = "reserve" /\ x \in Values
            /\ current[s] + Cardinality(Putting(s)) < MaxVersion
         \/ kind \in {"latest", "version"} /\ label = "read" /\ s \notin disabled
         \/ kind = "fetch" /\ label = "bindings"
  PROVE  VaultInv'
<1> USE VaultAssumption DEF VaultInv
<1> DEFINE top == IF s \in Certificate THEN renewals ELSE Max(Live(s) \cup {0})
<1>1. /\ pc[r] = "idle" /\ s \in alive
      /\ pc' = [pc EXCEPT ![r] = label] /\ op' = [op EXCEPT ![r] = kind]
      /\ sec' = [sec EXCEPT ![r] = s] /\ arg' = [arg EXCEPT ![r] = x] /\ got' = got
      /\ began' = [began EXCEPT ![r] = s] /\ newest' = [newest EXCEPT ![r] = top]
      /\ barred' = [barred EXCEPT ![r] = disabled]
      /\ unbound' = [unbound EXCEPT ![r] = {t \in Secrets : x \notin bound[t]}]
      /\ UNCHANGED tables /\ lock' = lock
  BY DEF Resolve, Goto
<1>2. top \in Nat /\ (s \notin Certificate /\ top # 0 => top \in Versions /\ payload[s][top] \in Values)
  <2>1. CASE s \in Certificate
    BY <2>1 DEF Tables
  <2>2. CASE s \notin Certificate
    <3>1. Live(s) \cup {0} \in SUBSET (0 .. MaxVersion)
      BY DEF Live, Versions
    <3>2. Max(Live(s) \cup {0}) \in Live(s) \cup {0}
      BY <3>1, MaxIsLargest
    <3> QED
      BY <2>2, <3>2 DEF Live, Versions
  <2> QED
    BY <2>1, <2>2
<1> HIDE DEF top
<1>3. label \in PCs \ {"idle", "seal", "list", "materialize", "served"} /\ kind \in Ops \ {"none"}
  BY DEF PCs, Ops
<1>4. Locals'
  <2>1. disabled \in SUBSET Secrets
    BY DEF Tables
  <2> QED
    BY <1>1, <1>2, <1>3, <2>1 DEF Locals
<1>5. \A q \in Requests \ {r} : Stays(q)
  BY <1>1 DEF Locals, Stays
<1>6. /\ pc'[r] = label /\ op'[r] = kind /\ sec'[r] = s /\ arg'[r] = x /\ began'[r] = s
      /\ newest'[r] = top /\ barred'[r] = disabled /\ unbound'[r] = {t \in Secrets : x \notin bound[t]}
  BY <1>1 DEF Locals
<1>7. Inv(r)'
  <2> USE DEF tables
  <2>1. Shape(r)'
    BY <1>1, <1>6 DEF Shape, Tables
  <2>2. Refused(r)'
    BY <1>1, <1>6 DEF Refused
  <2>3. Served(r)'
    BY <1>1, <1>6 DEF Served
  <2>4. Newest(r)'
    BY <1>1, <1>2, <1>3, <1>6 DEF Newest
  <2> QED
    BY <2>1, <2>2, <2>3, <2>4 DEF Inv
<1>8. \A q \in Requests : Inv(q)'
  BY <1>1, <1>5, <1>7, StaysInv
<1>9. Locks'
  BY <1>1, <1>3, <1>5, <1>6 DEF Locks, Stays, tables
<1>10. Counting'
  <2> SUFFICES ASSUME NEW t \in Secrets
               PROVE  current[t] + Cardinality(Putting(t)') <= MaxVersion
    BY <1>1 DEF Counting, tables
  <2>1. current[t] \in Nat /\ current[t] + Cardinality(Putting(t)) <= MaxVersion
    BY DEF Counting, Tables
  <2>2. CASE kind = "put" /\ t = s
    <3>1. Putting(t)' \subseteq Putting(t) \cup {r}
      BY <1>5 DEF Putting, Stays
    <3>2. /\ IsFiniteSet(Putting(t) \cup {r})
          /\ Cardinality(Putting(t) \cup {r}) <= Cardinality(Putting(t)) + 1
          /\ Cardinality(Putting(t) \cup {r}) \in Nat
      <4>1. IsFiniteSet(Putting(t)) /\ Cardinality(Putting(t)) \in Nat
        BY Countable
      <4> HIDE DEF Putting
      <4>2. /\ IsFiniteSet(Putting(t) \cup {r})
            /\ \/ Cardinality(Putting(t) \cup {r}) = Cardinality(Putting(t))
               \/ Cardinality(Putting(t) \cup {r}) = Cardinality(Putting(t)) + 1
        BY <4>1, FS_AddElement
      <4> QED
        BY <4>1, <4>2
    <3>3. Cardinality(Putting(t)') <= Cardinality(Putting(t) \cup {r})
      BY <3>1, <3>2, FS_Subset
    <3> QED
      BY <2>1, <2>2, <3>2, <3>3, Countable
  <2>3. CASE ~(kind = "put" /\ t = s)
    <3>1. Putting(t)' \subseteq Putting(t)
      BY <2>3, <1>5, <1>6 DEF Putting, Stays
    <3>2. Cardinality(Putting(t)') <= Cardinality(Putting(t))
      BY <3>1, Countable, FS_Subset
    <3> QED
      BY <2>1, <3>2, Countable
  <2> QED
    BY <2>2, <2>3
<1> QED
  BY <1>1, <1>4, <1>8, <1>9, <1>10, TablesKept

\* A request that goes on: the statements after the first.
Moves(r) ==
  /\ Locals' /\ UNCHANGED tables /\ \A q \in Requests \ {r} : Stays(q)
  /\ op'[r] = op[r] /\ arg'[r] = arg[r] /\ began'[r] = began[r] /\ newest'[r] = newest[r]
  /\ barred'[r] = barred[r] /\ unbound'[r] = unbound[r]

\* It keeps the invariant if it keeps its own.
LEMMA MovesInv ==
  ASSUME VaultInv, NEW r \in Requests, Moves(r), Inv(r)', Locks', op[r] = "put" => sec'[r] = sec[r]
  PROVE  VaultInv'
<1> USE DEF VaultInv, Moves
<1>1. \A q \in Requests : Inv(q)'
  BY StaysInv
<1>2. Counting'
  BY CountingKept DEF tables, Stays
<1> QED
  BY <1>1, <1>2, TablesKept

\* Reserve: the next number is the secret's, and there is room for it.
LEMMA ReserveInv ==
  ASSUME VaultInv, NEW r \in Requests, Reserve(r)
  PROVE  VaultInv'
<1> USE VaultAssumption DEF VaultInv
<1> DEFINE s == sec[r]
<1>0. /\ pc[r] = "reserve" /\ op[r] = "put" /\ s \in Secrets /\ lock[s] = NoRequest /\ UNCHANGED tables
  BY DEF Reserve, Inv, Shape
<1>1. CASE s \notin alive
  BY <1>0, <1>1, ReturnedInv DEF Reserve
<1>2. CASE s \in alive
  <2>1. /\ pc' = [pc EXCEPT ![r] = "seal"] /\ lock' = [lock EXCEPT ![s] = r]
        /\ got' = [got EXCEPT ![r] = current[s] + 1] /\ UNCHANGED <<op, sec, arg, ghosts>>
    BY <1>2 DEF Reserve, Goto
  <2>2. current[s] \in Nat /\ current[s] + 1 \in 0 .. MaxVersion
    <3>1. r \in Putting(s)
      BY <1>0 DEF Putting
    <3>2. Cardinality(Putting(s)) # 0
      BY <3>1, Countable, FS_EmptySet
    <3>3. current[s] + Cardinality(Putting(s)) <= MaxVersion /\ current[s] \in Nat
      BY <1>0 DEF Counting, Tables
    <3> QED
      BY <3>2, <3>3, Countable
  <2>3. Locals'
    BY <2>1, <2>2 DEF Locals, PCs, ghosts
  <2>4. pc'[r] = "seal" /\ got'[r] = current[s] + 1
    BY <2>1 DEF Locals
  <2>5. Moves(r)
    BY <1>0, <2>1, <2>3 DEF Moves, Locals, Stays, ghosts
  <2>6. Locks'
    BY <1>0, <1>2, <2>1, <2>4, <2>5 DEF Locks, Locals, Moves, Stays, tables
  <2>7. Inv(r)'
    <3> USE <1>0, <2>1, <2>4, <2>5 DEF Inv, Moves, tables, ghosts
    <3>1. Shape(r)'
      BY DEF Shape
    <3>2. Refused(r)'
      BY DEF Refused
    <3>3. Served(r)'
      BY DEF Served
    <3>4. Newest(r)'
      BY DEF Newest
    <3> QED
      BY <3>1, <3>2, <3>3, <3>4
  <2> QED
    BY <2>1, <2>5, <2>6, <2>7, MovesInv
<1> QED
  BY <1>1, <1>2

\* Commit: the version is the next one, in a cell that was empty.
LEMMA CommitInv ==
  ASSUME VaultInv, NEW r \in Requests, Commit(r)
  PROVE  VaultInv'
<1> USE VaultAssumption DEF VaultInv
<1> DEFINE s == sec[r]
           v == got[r]
<1>0. /\ pc[r] = "seal" /\ op[r] = "put" /\ s \in Secrets /\ arg[r] \in Values /\ lock[s] = r
      /\ s \in alive /\ v = current[s] + 1 /\ v \in Versions /\ current[s] \in Nat
      /\ payload[s][v] = NoRow
  <2>1. /\ pc[r] = "seal" /\ op[r] = "put" /\ s \in Secrets /\ arg[r] \in Values
        /\ v = current[s] + 1 /\ payload[s][v] = NoRow
    BY DEF Commit, Inv, Shape
  <2>2. lock[s] = r /\ s \in alive
    BY <2>1 DEF Locks
  <2>3. v \in Versions /\ current[s] \in Nat
    BY <2>1 DEF Versions, Locals, Tables
  <2> QED
    BY <2>1, <2>2, <2>3
<1>1. /\ Return(r) /\ UNCHANGED <<alive, used, disabled, bound, renewals>>
      /\ current' = [current EXCEPT ![s] = v]
      /\ payload' = [payload EXCEPT ![s][v] = arg[r]]
  BY DEF Commit
<1>2. /\ Locals' /\ Inv(r)' /\ \A q \in Requests \ {r} : Stays(q)
      /\ \A t \in Secrets : lock'[t] \in {lock[t], NoRequest}
      /\ lock' \in [Secrets -> Requests \cup {NoRequest}]
      /\ \A t \in Secrets, q \in Requests : lock'[t] = q <=> pc'[q] = "seal" /\ sec'[q] = t
      /\ pc'[r] = "idle" /\ op'[r] = "none"
  BY <1>1, Returned
<1>3. /\ \A t \in Secrets : current'[t] = IF t = s THEN v ELSE current[t]
      /\ \A t \in Secrets, w \in Versions :
           payload'[t][w] = IF t = s /\ w = v THEN arg[r] ELSE payload[t][w]
  BY <1>0, <1>1 DEF Tables
<1>4. Tables'
  BY <1>0, <1>1 DEF Tables, Versions
<1>5. Rows'
  BY <1>0, <1>1, <1>3 DEF Rows, Tables, Versions
<1>6. Locks'
  BY <1>1, <1>2 DEF Locks
<1>7. Counting'
  <2> SUFFICES ASSUME NEW t \in Secrets
               PROVE  current'[t] + Cardinality(Putting(t)') <= MaxVersion
    BY DEF Counting
  <2>1. current[t] \in Nat /\ current[t] + Cardinality(Putting(t)) <= MaxVersion
    BY DEF Counting, Tables
  <2>2. CASE t # s
    <3>1. Putting(t)' \subseteq Putting(t)
      BY <1>2 DEF Putting, Stays
    <3>2. Cardinality(Putting(t)') <= Cardinality(Putting(t))
      BY <3>1, Countable, FS_Subset
    <3> QED
      BY <1>3, <2>1, <2>2, <3>2, Countable
  <2>3. CASE t = s
    <3>1. Putting(t)' \subseteq Putting(t) /\ Putting(t)' # Putting(t)
      BY <1>0, <1>2, <2>3 DEF Putting, Stays
    <3>2. /\ Cardinality(Putting(t)') <= Cardinality(Putting(t))
          /\ Cardinality(Putting(t)') # Cardinality(Putting(t))
      BY <3>1, Countable, FS_Subset
    <3> QED
      BY <1>0, <1>3, <2>1, <2>3, <3>2, Countable
  <2> QED
    BY <2>2, <2>3
<1>8. ASSUME NEW q \in Requests, q # r PROVE Inv(q)'
  <2>0. Stays(q) /\ Inv(q)
    BY <1>2, <1>8
  <2>1. Shape(q)'
    <3>1. pc[q] = "seal" => sec[q] # s
      BY <1>0, <1>8 DEF Locks
    <3> QED
      BY <1>1, <1>3, <2>0, <3>1 DEF Stays, Inv, Shape
  <2>2. Refused(q)'
    BY <1>1, <2>0 DEF Stays, Inv, Refused
  <2>3. Served(q)'
    BY <1>1, <2>0 DEF Stays, Inv, Served
  <2>4. Newest(q)'
    BY <1>0, <1>1, <1>3, <2>0 DEF Stays, Inv, Newest, Tables
  <2> QED
    BY <2>1, <2>2, <2>3, <2>4 DEF Inv
<1> QED
  BY <1>2, <1>4, <1>5, <1>6, <1>7, <1>8

\* A request outside Put that goes on takes no lock.
LEMMA MovesLocks ==
  ASSUME VaultInv, NEW r \in Requests, Moves(r), lock' = lock, pc[r] # "seal", pc'[r] # "seal"
  PROVE  Locks'
BY DEF VaultInv, Moves, Locks, Stays, tables

\* FetchResolve: the name has one row, that of the beginning if it is there.
LEMMA FetchResolveInv ==
  ASSUME VaultInv, NEW r \in Requests, FetchResolve(r)
  PROVE  VaultInv'
<1> USE VaultAssumption DEF VaultInv
<1>0. pc[r] = "bindings" /\ op[r] = "fetch" /\ UNCHANGED tables
  BY DEF FetchResolve, Inv, Shape
<1>1. CASE alive = {} /\ Return(r)
  BY <1>0, <1>1, ReturnedInv
<1>2. ASSUME NEW s \in alive, Goto(r, "list"), sec' = [sec EXCEPT ![r] = s],
             UNCHANGED <<lock, op, arg, got, ghosts>>
      PROVE  VaultInv'
  <2>0. s \in Secrets
    BY DEF Tables
  <2>1. Locals' /\ pc'[r] = "list" /\ sec'[r] = s
    BY <1>2, <2>0 DEF Goto, Locals, PCs, ghosts
  <2>2. Moves(r)
    BY <1>0, <1>2, <2>1 DEF Goto, Moves, Locals, Stays, ghosts
  <2>3. Inv(r)'
    <3> USE <1>0, <2>0, <2>1, <2>2 DEF Inv, Moves, tables
    <3>1. Shape(r)'
      BY DEF Shape
    <3>2. Refused(r)'
      BY DEF Refused
    <3>3. Served(r)'
      BY DEF Served, Rows
    <3>4. Newest(r)'
      BY DEF Newest
    <3> QED
      BY <3>1, <3>2, <3>3, <3>4
  <2> QED
    BY <1>0, <1>2, <2>1, <2>2, <2>3, MovesLocks, MovesInv
<1> QED
  BY <1>1, <1>2 DEF FetchResolve

\* FetchAuthorize: the workload is bound to the row whose bindings were listed.
LEMMA FetchAuthorizeInv ==
  ASSUME VaultInv, NEW r \in Requests, FetchAuthorize(r)
  PROVE  VaultInv'
<1> USE VaultAssumption DEF VaultInv
<1>0. pc[r] = "list" /\ op[r] = "fetch" /\ UNCHANGED tables
  BY DEF FetchAuthorize, Inv, Shape
<1>1. CASE arg[r] \notin bound[sec[r]]
  BY <1>0, <1>1, ReturnedInv DEF FetchAuthorize
<1>2. CASE arg[r] \in bound[sec[r]]
  <2>0. Goto(r, "materialize") /\ UNCHANGED <<lock, locals, ghosts>>
    BY <1>2 DEF FetchAuthorize
  <2>1. Locals' /\ pc'[r] = "materialize" /\ sec'[r] = sec[r]
    BY <2>0 DEF Goto, Locals, PCs, locals, ghosts
  <2>2. Moves(r)
    BY <1>0, <2>0, <2>1 DEF Goto, Moves, Locals, Stays, locals, ghosts
  <2>3. Inv(r)'
    <3> USE <1>0, <2>1, <2>2 DEF Inv, Moves, tables
    <3>1. Shape(r)'
      BY DEF Shape
    <3>2. Refused(r)'
      BY DEF Refused
    <3>3. Served(r)'
      BY <1>2 DEF Served, Refused
    <3>4. Newest(r)'
      BY DEF Newest
    <3> QED
      BY <3>1, <3>2, <3>3, <3>4
  <2> QED
    BY <1>0, <2>0, <2>1, <2>2, <2>3, MovesLocks, MovesInv
<1> QED
  BY <1>1, <1>2

\* Materialize: the row it finds is not disabled now.
LEMMA MaterializeInv ==
  ASSUME VaultInv, NEW r \in Requests, Materialize(r)
  PROVE  VaultInv'
<1> USE VaultAssumption DEF VaultInv
<1>0. pc[r] = "materialize" /\ op[r] = "fetch" /\ UNCHANGED tables
  BY DEF Materialize, Inv, Shape
<1>1. CASE alive \subseteq disabled /\ Return(r)
  BY <1>0, <1>1, ReturnedInv
<1>2. ASSUME NEW s \in alive \ disabled, Goto(r, IF s \in Certificate THEN "served" ELSE "read"),
             sec' = [sec EXCEPT ![r] = s], UNCHANGED <<lock, op, arg, got, ghosts>>
      PROVE  VaultInv'
  <2>0. s \in Secrets
    BY DEF Tables
  <2>1. Locals' /\ pc'[r] = (IF s \in Certificate THEN "served" ELSE "read") /\ sec'[r] = s
    BY <1>2, <2>0 DEF Goto, Locals, PCs, ghosts
  <2>2. Moves(r)
    BY <1>0, <1>2, <2>1 DEF Goto, Moves, Locals, Stays, ghosts
  <2>3. Inv(r)'
    <3> USE <1>0, <2>0, <2>1, <2>2 DEF Inv, Moves, tables
    <3>1. Shape(r)'
      BY DEF Shape
    <3>2. Refused(r)'
      BY DEF Refused
    <3>3. Served(r)'
      BY DEF Served, Refused
    <3>4. Newest(r)'
      BY DEF Newest
    <3> QED
      BY <3>1, <3>2, <3>3, <3>4
  <2> QED
    BY <1>0, <1>2, <2>1, <2>2, <2>3, MovesLocks, MovesInv
<1> QED
  BY <1>1, <1>2 DEF Materialize

\* ReadVersion: no live version is newer than the one it serves.
LEMMA ReadVersionInv ==
  ASSUME VaultInv, NEW r \in Requests, ReadVersion(r)
  PROVE  VaultInv'
<1> USE VaultAssumption DEF VaultInv
<1> DEFINE s == sec[r]
           found == IF op[r] = "version" THEN Live(s) \cap {arg[r]} ELSE Live(s)
<1>0. pc[r] = "read" /\ op[r] # "put" /\ UNCHANGED tables
  BY DEF ReadVersion, Inv, Shape
<1>1. CASE found = {}
  BY <1>0, <1>1, ReturnedInv DEF ReadVersion
<1>2. CASE found # {}
  <2>0. /\ Goto(r, "served") /\ got' = [got EXCEPT ![r] = Max(found)]
        /\ UNCHANGED <<lock, op, sec, arg, ghosts>>
    BY <1>2 DEF ReadVersion, Latest
  <2>1. Max(found) \in 0 .. MaxVersion /\ \A v \in found : v <= Max(found)
    <3>1. found \in SUBSET (0 .. MaxVersion)
      BY DEF Live, Versions
    <3> QED
      BY <1>2, <3>1, MaxIsLargest
  <2>2. Locals' /\ pc'[r] = "served" /\ sec'[r] = s /\ got'[r] = Max(found)
    BY <2>0, <2>1 DEF Goto, Locals, PCs, ghosts
  <2>3. Moves(r)
    BY <1>0, <2>0, <2>2 DEF Goto, Moves, Locals, Stays, ghosts
  <2>4. Inv(r)'
    <3> USE <1>0, <2>2, <2>3 DEF Inv, Moves, tables
    <3>1. Shape(r)'
      BY DEF Shape
    <3>2. Refused(r)'
      BY DEF Refused
    <3>3. Served(r)'
      BY DEF Served
    <3>4. Newest(r)'
      <4>1. ASSUME op[r] \in {"latest", "fetch"}, newest[r] \in Versions, payload[s][newest[r]] \in Values
            PROVE  Max(found) >= newest[r]
        <5>1. newest[r] \in found
          BY <4>1 DEF Live
        <5> QED
          BY <2>1, <4>1, <5>1 DEF Versions
      <4> HIDE DEF found
      <4> QED
        BY <4>1 DEF Newest
    <3> QED
      BY <3>1, <3>2, <3>3, <3>4
  <2> QED
    BY <1>0, <2>0, <2>2, <2>3, <2>4, MovesLocks, MovesInv
<1> QED
  BY <1>1, <1>2

---------------------------------------------------------------------------
(* Steps of operators *)

\* A step of an operator changes no local of a request but takes away from the
\* secrets it was barred from or not bound to.
Operated ==
  /\ UNCHANGED <<lock, pc, locals, began, newest>>
  /\ barred' \in [Requests -> SUBSET Secrets] /\ unbound' \in [Requests -> SUBSET Secrets]
  /\ \A r \in Requests : barred'[r] \subseteq barred[r] /\ unbound'[r] \subseteq unbound[r]

\* What the operators leave of the invariant to show.
LEMMA OperatedInv ==
  ASSUME VaultInv, Operated, Tables', Rows', \A s \in Secrets : current'[s] \in {0, current[s]},
         \A s \in Secrets : lock[s] # NoRequest => s \in alive',
         \A r \in Requests : Inv(r)'
  PROVE  VaultInv'
<1> USE DEF VaultInv, Operated, locals
<1>1. Locals'
  BY DEF Locals
<1>2. Locks'
  BY DEF Locks
<1>3. Counting'
  BY CountingKept
<1> QED
  BY <1>1, <1>2, <1>3

\* A step of an operator that leaves the locals alone.
LEMMA GhostsKept ==
  ASSUME VaultInv, UNCHANGED <<lock, pc, locals, ghosts>>
  PROVE  Operated
BY DEF VaultInv, Operated, Locals, ghosts

\* Every step of an operator on a secret keeps the invariant.
LEMMA OperateInv ==
  ASSUME VaultInv, NEW s \in Secrets, Operate(s)
  PROVE  VaultInv'
<1> USE VaultAssumption DEF VaultInv
<1>1. CASE Create(s)
  <2> USE <1>1 DEF Create
  <2>0. Operated
    BY GhostsKept
  <2>1. Tables'
    BY DEF Tables
  <2>2. Rows'
    BY DEF Rows, Tables
  <2>3. ASSUME NEW r \in Requests PROVE Inv(r)'
    <3> USE DEF Inv, locals, ghosts
    <3>0. Inv(r) /\ (pc[r] # "idle" => began[r] \in used)
      BY <2>3 DEF Shape
    <3>1. Shape(r)'
      BY <3>0 DEF Shape
    <3>2. Refused(r)'
      BY <3>0 DEF Refused, Tables
    <3>3. Served(r)'
      BY <3>0 DEF Served
    <3>4. Newest(r)'
      BY <3>0 DEF Newest
    <3> QED
      BY <3>1, <3>2, <3>3, <3>4
  <2>4. \A t \in Secrets : lock[t] # NoRequest => t \in alive'
    BY DEF Locks
  <2> QED
    BY <2>0, <2>1, <2>2, <2>3, <2>4, OperatedInv
<1>2. CASE DeleteSecret(s)
  <2> USE <1>2 DEF DeleteSecret
  <2>0. Operated
    BY GhostsKept
  <2>1. /\ \A t \in Secrets : current'[t] = IF t = s THEN 0 ELSE current[t]
        /\ \A t \in Secrets, v \in Versions : payload'[t][v] = IF t = s THEN NoRow ELSE payload[t][v]
        /\ \A t \in Secrets : bound'[t] = IF t = s THEN {} ELSE bound[t]
        /\ \A t \in Secrets : t # s => payload'[t] = payload[t]
    BY DEF Tables
  <2>2. Tables'
    BY DEF Tables
  <2>3. Rows'
    BY <2>1 DEF Rows, Tables
  <2>4. ASSUME NEW r \in Requests PROVE Inv(r)'
    <3> USE DEF Inv, locals, ghosts
    <3>0. Inv(r) /\ (pc[r] # "idle" => began[r] \in Secrets) /\ (pc[r] = "seal" => sec[r] # s)
          /\ unbound[r] \subseteq Secrets
      BY <2>4 DEF Shape, Tables, Locks, Locals
    <3>1. Shape(r)'
      BY <2>1, <3>0 DEF Shape
    <3>2. Refused(r)'
      BY <2>1, <3>0 DEF Refused, Tables
    <3>3. Served(r)'
      BY <3>0 DEF Served
    <3>4. Newest(r)'
      BY <2>1, <3>0 DEF Newest
    <3> QED
      BY <3>1, <3>2, <3>3, <3>4
  <2>5. \A t \in Secrets : lock[t] # NoRequest => t \in alive'
    BY DEF Locks
  <2>6. \A t \in Secrets : current'[t] \in {0, current[t]}
    BY <2>1
  <2> QED
    BY <2>0, <2>2, <2>3, <2>4, <2>5, <2>6, OperatedInv
<1>3. CASE SetSecretDisabled(s)
  <2> USE <1>3 DEF SetSecretDisabled
  <2>0. Operated
    BY GhostsKept
  <2>1. Tables' /\ Rows'
    BY DEF Tables, Rows
  <2>2. ASSUME NEW r \in Requests PROVE Inv(r)'
    <3> USE DEF Inv, locals, ghosts
    <3>0. Inv(r)
      BY <2>2
    <3>1. Shape(r)' /\ Served(r)' /\ Newest(r)'
      BY <3>0 DEF Shape, Served, Newest
    <3>2. Refused(r)'
      BY <3>0 DEF Refused
    <3> QED
      BY <3>1, <3>2
  <2>3. \A t \in Secrets : lock[t] # NoRequest => t \in alive'
    BY DEF Locks
  <2> QED
    BY <2>0, <2>1, <2>2, <2>3, OperatedInv
<1>4. CASE SetSecretEnabled(s)
  <2> USE <1>4 DEF SetSecretEnabled
  <2>0. Operated
    BY DEF Operated, Locals
  <2>1. Tables' /\ Rows'
    BY DEF Tables, Rows
  <2>2. ASSUME NEW r \in Requests PROVE Inv(r)'
    <3> USE DEF Inv, locals
    <3>0. Inv(r) /\ barred'[r] = barred[r] \ {s}
      BY <2>2
    <3>1. Shape(r)' /\ Newest(r)'
      BY <3>0 DEF Shape, Newest
    <3>2. Refused(r)' /\ Served(r)'
      BY <3>0 DEF Refused, Served
    <3> QED
      BY <3>1, <3>2
  <2>3. \A t \in Secrets : lock[t] # NoRequest => t \in alive'
    BY DEF Locks
  <2> QED
    BY <2>0, <2>1, <2>2, <2>3, OperatedInv
<1>5. ASSUME NEW w \in Workloads, Bind(s, w) PROVE VaultInv'
  <2> USE <1>5 DEF Bind
  <2>0. Operated
    BY DEF Operated, Locals
  <2>1. \A t \in Secrets : bound'[t] = IF t = s THEN bound[t] \cup {w} ELSE bound[t]
    BY DEF Tables
  <2>2. Tables' /\ Rows'
    BY DEF Tables, Rows
  <2>3. ASSUME NEW r \in Requests PROVE Inv(r)'
    <3> USE DEF Inv, locals
    <3>0. /\ Inv(r) /\ unbound'[r] = IF arg[r] = w THEN unbound[r] \ {s} ELSE unbound[r]
          /\ unbound[r] \subseteq Secrets
      BY <2>3 DEF Locals
    <3>1. Shape(r)' /\ Newest(r)'
      BY <3>0 DEF Shape, Newest
    <3>2. Refused(r)'
      BY <2>1, <3>0 DEF Refused
    <3>3. Served(r)'
      BY <3>0 DEF Served
    <3> QED
      BY <3>1, <3>2, <3>3
  <2>4. \A t \in Secrets : lock[t] # NoRequest => t \in alive'
    BY DEF Locks
  <2> QED
    BY <2>0, <2>2, <2>3, <2>4, OperatedInv
<1>6. ASSUME NEW w \in Workloads, Unbind(s, w) PROVE VaultInv'
  <2> USE <1>6 DEF Unbind
  <2>0. Operated
    BY GhostsKept
  <2>1. \A t \in Secrets : bound'[t] = IF t = s THEN bound[t] \ {w} ELSE bound[t]
    BY DEF Tables
  <2>2. Tables' /\ Rows'
    BY DEF Tables, Rows
  <2>3. ASSUME NEW r \in Requests PROVE Inv(r)'
    <3> USE DEF Inv, locals, ghosts
    <3>0. Inv(r) /\ unbound[r] \subseteq Secrets
      BY <2>3 DEF Locals
    <3>1. Shape(r)' /\ Newest(r)' /\ Served(r)'
      BY <3>0 DEF Shape, Newest, Served
    <3>2. Refused(r)'
      BY <2>1, <3>0 DEF Refused
    <3> QED
      BY <3>1, <3>2
  <2>4. \A t \in Secrets : lock[t] # NoRequest => t \in alive'
    BY DEF Locks
  <2> QED
    BY <2>0, <2>2, <2>3, <2>4, OperatedInv
<1>7. ASSUME NEW v \in Versions, DestroySecretVersion(s, v) PROVE VaultInv'
  <2> USE <1>7 DEF DestroySecretVersion
  <2>0. Operated
    BY GhostsKept
  <2>1. \A t \in Secrets, w \in Versions :
          payload'[t][w] = IF t = s /\ w = v THEN Scrubbed ELSE payload[t][w]
    BY DEF Tables
  <2>2. Tables'
    BY DEF Tables
  <2>3. Rows'
    BY <2>1 DEF Rows
  <2>4. ASSUME NEW r \in Requests PROVE Inv(r)'
    <3> USE DEF Inv, locals, ghosts
    <3>0. Inv(r)
      BY <2>4
    <3>1. Shape(r)' /\ Refused(r)' /\ Served(r)'
      BY <3>0 DEF Shape, Refused, Served
    <3>2. Newest(r)'
      BY <2>1, <3>0 DEF Newest, Tables
    <3> QED
      BY <3>1, <3>2
  <2>5. \A t \in Secrets : lock[t] # NoRequest => t \in alive'
    BY DEF Locks
  <2> QED
    BY <2>0, <2>2, <2>3, <2>4, <2>5, OperatedInv
<1> QED
  BY <1>1, <1>2, <1>3, <1>4, <1>5, <1>6, <1>7 DEF Operate

\* A renewal of the linked certificate changes no row.
LEMMA RenewInv ==
  ASSUME VaultInv, Renew
  PROVE  VaultInv'
<1> USE VaultAssumption DEF VaultInv, Renew
<1>0. Operated
  BY GhostsKept
<1>1. Tables' /\ Rows'
  BY DEF Tables, Rows
<1>2. ASSUME NEW r \in Requests PROVE Inv(r)'
  <2>0. Inv(r)
    BY <1>2
  <2> QED
    BY <2>0 DEF Inv, Shape, Refused, Served, Newest, locals, ghosts
<1>3. \A t \in Secrets : lock[t] # NoRequest => t \in alive'
  BY DEF Locks
<1> QED
  BY <1>0, <1>1, <1>2, <1>3, OperatedInv

---------------------------------------------------------------------------
(* The theorems *)

\* The invariant holds of every reachable state.
LEMMA VaultInvariant == Spec => []VaultInv
<1>1. Init => VaultInv
  <2> SUFFICES ASSUME Init PROVE VaultInv
    OBVIOUS
  <2> USE VaultAssumption DEF Init
  <2>1. Tables /\ Rows
    BY DEF Tables, Rows
  <2>2. Locals
    BY DEF Locals, PCs, Ops, Args
  <2>3. Locks
    BY DEF Locks
  <2>4. Counting
    <3> SUFFICES ASSUME NEW s \in Secrets PROVE current[s] + Cardinality(Putting(s)) <= MaxVersion
      BY DEF Counting
    <3>1. Putting(s) = {}
      BY DEF Putting
    <3>2. Cardinality(Putting(s)) = 0
      BY <3>1, FS_EmptySet
    <3> QED
      BY <3>2
  <2>5. \A r \in Requests : Inv(r)
    BY DEF Inv, Shape, Refused, Served, Newest
  <2> QED
    BY <2>1, <2>2, <2>3, <2>4, <2>5 DEF VaultInv
<1>2. VaultInv /\ [Next]_vars => VaultInv'
  <2> SUFFICES ASSUME VaultInv, [Next]_vars PROVE VaultInv'
    OBVIOUS
  <2>1. ASSUME NEW s \in Secrets, Operate(s) PROVE VaultInv'
    BY <2>1, OperateInv
  <2>2. CASE Renew
    BY <2>2, RenewInv
  <2>3. ASSUME UNCHANGED vars PROVE VaultInv'
    <3>1. Operated
      BY <2>3, GhostsKept DEF vars
    <3>2. Tables' /\ Rows' /\ \A q \in Requests : Stays(q)
      BY <2>3, TablesKept DEF VaultInv, vars, locals, ghosts, Stays
    <3>3. \A q \in Requests : Inv(q)'
      BY <2>3, <3>2, StaysInv DEF VaultInv, vars
    <3>4. /\ \A s \in Secrets : current'[s] \in {0, current[s]}
          /\ \A s \in Secrets : lock[s] # NoRequest => s \in alive'
      BY <2>3 DEF VaultInv, Locks, vars, tables
    <3> QED
      BY <3>1, <3>2, <3>3, <3>4, OperatedInv
  <2>4. ASSUME NEW r \in Requests, NotFound(r) PROVE VaultInv'
    BY <2>3, <2>4 DEF NotFound
  <2>5. ASSUME NEW r \in Requests, Step(r) PROVE VaultInv'
    BY <2>5, ReserveInv, CommitInv, FetchResolveInv, FetchAuthorizeInv, MaterializeInv,
       ReadVersionInv, ReturnedInv DEF Step, SealFails, Answered
  <2>6. ASSUME NEW r \in Requests, Abandon(r) PROVE VaultInv'
    BY <2>6, ReturnedInv DEF Abandon
  <2>7. ASSUME NEW r \in Requests, NEW s \in Secrets, NEW x \in Values, BeginPut(r, s, x)
        PROVE  VaultInv'
    BY <2>7, Resolved DEF BeginPut, Putting, Args
  <2>8. ASSUME NEW r \in Requests, NEW s \in Secrets, NEW x \in Versions \cup {0}, BeginGet(r, s, x)
        PROVE  VaultInv'
    BY <2>8, Resolved DEF BeginGet, Args
  <2>9. ASSUME NEW r \in Requests, NEW s \in Secrets, NEW w \in Workloads, BeginFetch(r, s, w)
        PROVE  VaultInv'
    BY <2>9, Resolved DEF BeginFetch, Args
  <2> QED
    BY <2>1, <2>2, <2>3, <2>4, <2>5, <2>6, <2>7, <2>8, <2>9 DEF Next
<1> QED
  BY <1>1, <1>2, PTL DEF Spec

\* TypeOK is an invariant: the name has one secret at a time, and a row's lock is
\* held by exactly the Put that seals a version of it, also after failures.
THEOREM VaultTypeCorrect == Spec => []TypeOK
<1>1. VaultInv => TypeOK
  <2> SUFFICES ASSUME VaultInv PROVE TypeOK
    OBVIOUS
  <2>1. Cardinality(alive) <= 1
    <3>1. CASE alive = {}
      <4>1. Cardinality(alive) = 0
        BY <3>1, FS_EmptySet
      <4> QED
        BY <4>1
    <3>2. CASE alive # {}
      <4>1. PICK s \in alive : alive = {s}
        BY <3>2 DEF VaultInv, Rows
      <4>2. Cardinality(alive) = 1
        BY <4>1, FS_Singleton
      <4> QED
        BY <4>2
    <3> QED
      BY <3>1, <3>2
  <2> QED
    BY <2>1 DEF VaultInv, Tables, Locals, Locks, PCs, Ops, TypeOK
<1> QED
  BY <1>1, VaultInvariant, PTL

\* SetDisabled, Unbind, GetLatest: however operators and requests interleave, what
\* is served was enabled and bound at some moment of the request and is as new as
\* what there was when the request began.
THEOREM SecretsServedRightly == Spec => []ServedRightly
<1>1. VaultInv => ServedRightly
  <2> SUFFICES ASSUME VaultInv PROVE ServedRightly
    OBVIOUS
  <2>1. NothingServedWhileBarred
    BY DEF VaultInv, Inv, Served, NothingServedWhileBarred
  <2>2. ServedIsFresh
    <3> SUFFICES ASSUME NEW r \in Requests,
                        pc[r] = "served" /\ op[r] \in {"latest", "fetch"},
                        sec[r] = began[r] /\ sec[r] \notin Certificate,
                        newest[r] \in Live(sec[r])
                 PROVE  got[r] >= newest[r]
      BY DEF ServedIsFresh
    <3>1. newest[r] \in Versions /\ payload[sec[r]][newest[r]] \in Values
      BY DEF Live
    <3>2. sec[r] \in Secrets /\ Newest(r) /\ current[sec[r]] \in Nat
      BY DEF VaultInv, Inv, Shape, Tables
    <3>3. newest[r] <= current[sec[r]] /\ newest[r] # 0
      BY <3>1, <3>2, VaultAssumption DEF VaultInv, Rows, Versions
    <3>4. sec[r] \in alive
      BY <3>1, <3>2, <3>3 DEF VaultInv, Rows, Versions
    <3> QED
      BY <3>1, <3>2, <3>3, <3>4 DEF Newest
  <2> QED
    BY <2>1, <2>2 DEF ServedRightly
<1> QED
  BY <1>1, VaultInvariant, PTL

---------------------------------------------------------------------------
(* The vault implements VersionedSecrets *)

Cells == Values \cup {NoRow, Scrubbed}

\* The committed versions of a secret, as a sequence.
VersionsOf(s) == [v \in 1 .. current[s] |-> payload[s][v]]

\* The first cells of a row of cells are a sequence.
LEMMA LogIsSequence ==
  ASSUME NEW n \in Nat, NEW row, \A v \in 1 .. n : row[v] \in Cells
  PROVE  LET seq == [v \in 1 .. n |-> row[v]] IN
         seq \in Seq(Cells) /\ Len(seq) = n /\ \A v \in 1 .. n : seq[v] = row[v]
<1> DEFINE seq == [v \in 1 .. n |-> row[v]]
<1>1. seq \in [1 .. n -> Cells] /\ DOMAIN seq = 1 .. n /\ \A v \in 1 .. n : seq[v] = row[v]
  OBVIOUS
<1> HIDE DEF seq
<1>2. seq \in Seq(Cells)
  BY <1>1, SeqDef
<1>3. Len(seq) = n
  BY <1>1, <1>2, LenProperties
<1> QED
  BY <1>1, <1>2, <1>3 DEF seq

\* A commit appends the value to the log of its secret.
LEMMA CommitWrites ==
  ASSUME VaultInv, NEW r \in Requests, Commit(r)
  PROVE  \E s \in Secrets, x \in Values : Log!Write(s, x)
<1> USE VaultAssumption
<1>1. PICK s \in Secrets, x \in Values :
        /\ s = sec[r] /\ x = arg[r] /\ s \in alive /\ got[r] = current[s] + 1
        /\ current[s] \in Nat /\ got[r] \in Versions
  <2>1. /\ pc[r] = "seal" /\ sec[r] \in Secrets /\ arg[r] \in Values
        /\ got[r] = current[sec[r]] + 1
    BY DEF VaultInv, Commit, Inv, Shape
  <2>2. sec[r] \in alive
    BY <2>1 DEF VaultInv, Locks
  <2> QED
    BY <2>1, <2>2 DEF VaultInv, Tables, Locals, Versions
<1>2. /\ UNCHANGED <<alive, used>>
      /\ \A t \in Secrets : current'[t] = IF t = s THEN got[r] ELSE current[t]
      /\ \A t \in Secrets, v \in Versions :
           payload'[t][v] = IF t = s /\ v = got[r] THEN x ELSE payload[t][v]
      /\ \A t \in Secrets : t # s => payload'[t] = payload[t]
  BY <1>1 DEF Commit, VaultInv, Tables
<1>3. \A v \in Versions : payload[s][v] \in Cells /\ payload'[s][v] \in Cells
  BY <1>1, <1>2 DEF VaultInv, Tables, Cells
<1>4. VersionsOf(s)' = Append(VersionsOf(s), x)
  <2>1. /\ VersionsOf(s)' \in Seq(Cells) /\ Len(VersionsOf(s)') = got[r]
        /\ \A v \in 1 .. got[r] : VersionsOf(s)'[v] = payload'[s][v]
    <3>1. VersionsOf(s)' = [v \in 1 .. got[r] |-> payload'[s][v]]
      BY <1>2 DEF VersionsOf
    <3>2. \A v \in 1 .. got[r] : payload'[s][v] \in Cells
      BY <1>1, <1>3 DEF Versions
    <3> QED
      BY <1>1, <3>1, <3>2, LogIsSequence
  <2>2. /\ VersionsOf(s) \in Seq(Cells) /\ Len(VersionsOf(s)) = current[s]
        /\ \A v \in 1 .. current[s] : VersionsOf(s)[v] = payload[s][v]
    <3>1. \A v \in 1 .. current[s] : payload[s][v] \in Cells
      BY <1>1, <1>3 DEF Versions
    <3> QED
      BY <1>1, <3>1, LogIsSequence DEF VersionsOf
  <2>3. x \in Cells
    BY <1>1 DEF Cells
  <2>4. /\ Append(VersionsOf(s), x) \in Seq(Cells) /\ Len(Append(VersionsOf(s), x)) = got[r]
        /\ \A v \in 1 .. current[s] : Append(VersionsOf(s), x)[v] = VersionsOf(s)[v]
        /\ Append(VersionsOf(s), x)[got[r]] = x
    BY <1>1, <2>2, <2>3, AppendProperties
  <2>5. ASSUME NEW v \in 1 .. got[r] PROVE VersionsOf(s)'[v] = Append(VersionsOf(s), x)[v]
    <3>1. v \in Versions /\ (v # got[r] => v \in 1 .. current[s])
      BY <1>1 DEF Versions
    <3>2. VersionsOf(s)'[v] = payload'[s][v]
      BY <2>1
    <3>3. payload'[s][v] = IF v = got[r] THEN x ELSE payload[s][v]
      BY <1>1, <1>2, <3>1
    <3>4. CASE v = got[r]
      BY <2>4, <3>2, <3>3, <3>4
    <3>5. CASE v # got[r]
      <4>1. Append(VersionsOf(s), x)[v] = payload[s][v]
        BY <2>2, <2>4, <3>1, <3>5
      <4> QED
        BY <3>2, <3>3, <3>5, <4>1
    <3> QED
      BY <3>4, <3>5
  <2> QED
    BY <2>1, <2>4, <2>5, SeqEqual
<1>5. \A t \in Secrets : t # s => VersionsOf(t)' = VersionsOf(t)
  BY <1>2 DEF VersionsOf
<1>6. [t \in Secrets |-> VersionsOf(t)'] = [[t \in Secrets |-> VersionsOf(t)] EXCEPT ![s] = Append(@, x)]
  BY <1>1, <1>4, <1>5, Zenon
<1>7. Log!Write(s, x)
  BY <1>1, <1>2, <1>6 DEF Log!Write, VersionsOf
<1> QED
  BY <1>1, <1>7

\* Destroying a version scrubs it in the log.
LEMMA DestroyScrubs ==
  ASSUME VaultInv, NEW s \in Secrets, NEW v \in Versions, DestroySecretVersion(s, v)
  PROVE  \E i \in DOMAIN VersionsOf(s) : Log!Scrub(s, i)
<1> USE VaultAssumption
<1>1. s \in alive /\ v \in 1 .. current[s] /\ current[s] \in Nat
  BY DEF DestroySecretVersion, VaultInv, Rows, Tables, Versions
<1>2. /\ UNCHANGED <<alive, used, current>>
      /\ \A w \in Versions : payload'[s][w] = IF w = v THEN Scrubbed ELSE payload[s][w]
      /\ \A t \in Secrets : t # s => payload'[t] = payload[t]
  BY DEF DestroySecretVersion, VaultInv, Tables
<1>3. DOMAIN VersionsOf(s) = 1 .. current[s]
  BY DEF VersionsOf
<1>4. VersionsOf(s)' = [VersionsOf(s) EXCEPT ![v] = Scrubbed]
  <2>1. 1 .. current[s] \subseteq Versions
    BY DEF VaultInv, Tables, Versions
  <2> QED
    BY <1>1, <1>2, <2>1 DEF VersionsOf
<1>5. \A t \in Secrets : t # s => VersionsOf(t)' = VersionsOf(t)
  BY <1>2 DEF VersionsOf
<1>6. [t \in Secrets |-> VersionsOf(t)'] = [[t \in Secrets |-> VersionsOf(t)] EXCEPT ![s][v] = Scrubbed]
  BY <1>4, <1>5, Zenon
<1>7. [t \in Secrets |-> VersionsOf(t)][s] = VersionsOf(s)
  OBVIOUS
<1>8. Log!Scrub(s, v)
  BY <1>1, <1>2, <1>3, <1>6, <1>7 DEF Log!Scrub, VersionsOf
<1> QED
  BY <1>1, <1>3, <1>8

\* Deleting a secret empties its log.
LEMMA DeleteEmpties ==
  ASSUME VaultInv, NEW s \in Secrets, DeleteSecret(s)
  PROVE  Log!Delete(s)
<1>1. /\ s \in alive /\ alive' = alive \ {s} /\ used' = used /\ current'[s] = 0
      /\ \A t \in Secrets : t # s => current'[t] = current[t] /\ payload'[t] = payload[t]
  BY DEF DeleteSecret, VaultInv, Tables
<1>2. VersionsOf(s)' = << >>
  BY <1>1 DEF VersionsOf
<1>3. \A t \in Secrets : t # s => VersionsOf(t)' = VersionsOf(t)
  BY <1>1 DEF VersionsOf
<1>4. [t \in Secrets |-> VersionsOf(t)'] = [[t \in Secrets |-> VersionsOf(t)] EXCEPT ![s] = << >>]
  BY <1>2, <1>3, Zenon
<1> QED
  BY <1>1, <1>4 DEF Log!Delete, VersionsOf

\* CreateSecretVersion: reservation, sealing and insertion of concurrent Puts, their
\* failures, and the operators' deletions implement a log of atomic writes.
THEOREM VaultIsALog == Spec => WritesAreALog
<1>1. Init => Log!Init
  <2> SUFFICES ASSUME Init PROVE Log!Init
    OBVIOUS
  <2>1. \A s \in Secrets : VersionsOf(s) = << >>
    BY DEF Init, VersionsOf
  <2> QED
    BY <2>1 DEF Init, Log!Init, VersionsOf
<1>2. VaultInv /\ [Next]_vars => [Log!Next]_(Log!vars)
  <2> SUFFICES ASSUME VaultInv, [Next]_vars PROVE [Log!Next]_(Log!vars)
    OBVIOUS
  <2>1. ASSUME UNCHANGED <<alive, used, current, payload>> PROVE UNCHANGED Log!vars
    BY <2>1 DEF Log!vars
  <2>2. ASSUME NEW s \in Secrets, Create(s) PROVE Log!Next
    BY <2>2 DEF Create, Log!Next, Log!Create
  <2>3. ASSUME NEW s \in Secrets, DeleteSecret(s) PROVE Log!Next
    BY <2>3, DeleteEmpties DEF Log!Next
  <2>4. ASSUME NEW s \in Secrets, NEW v \in Versions, DestroySecretVersion(s, v) PROVE Log!Next
    BY <2>4, DestroyScrubs DEF Log!Next, VersionsOf
  <2>5. ASSUME NEW r \in Requests, Commit(r) PROVE Log!Next
    BY <2>5, CommitWrites DEF Log!Next
  <2>6. ASSUME NEW s \in Secrets,
               \/ SetSecretDisabled(s) \/ SetSecretEnabled(s)
               \/ \E w \in Workloads : Bind(s, w) \/ Unbind(s, w)
        PROVE  UNCHANGED <<alive, used, current, payload>>
    BY <2>6 DEF SetSecretDisabled, SetSecretEnabled, Bind, Unbind
  <2>7. ASSUME NEW r \in Requests,
               \/ NotFound(r) \/ Reserve(r) \/ SealFails(r) \/ FetchResolve(r) \/ FetchAuthorize(r)
               \/ Materialize(r) \/ ReadVersion(r) \/ Answered(r) \/ Abandon(r)
        PROVE  UNCHANGED <<alive, used, current, payload>>
    BY <2>7 DEF NotFound, Reserve, SealFails, FetchResolve, FetchAuthorize, Materialize,
                ReadVersion, Answered, Abandon, vars, tables
  <2>8. ASSUME NEW r \in Requests, NEW s \in Secrets,
               \/ \E x \in Values : BeginPut(r, s, x)
               \/ \E x \in Versions \cup {0} : BeginGet(r, s, x)
               \/ \E w \in Workloads : BeginFetch(r, s, w)
        PROVE  UNCHANGED <<alive, used, current, payload>>
    BY <2>8 DEF BeginPut, BeginGet, BeginFetch, Resolve, tables
  <2>9. CASE Renew
    BY <2>1, <2>9 DEF Renew
  <2>10. CASE UNCHANGED vars
    BY <2>1, <2>10 DEF vars, tables
  <2> QED
    BY <2>1, <2>2, <2>3, <2>4, <2>5, <2>6, <2>7, <2>8, <2>9, <2>10 DEF Next, Step, Operate
<1> QED
  BY <1>1, <1>2, VaultInvariant, PTL DEF Spec, WritesAreALog, Log!Spec
==============================================================================
