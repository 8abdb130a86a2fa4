------------------------ MODULE WebhookDeliveryProofs ------------------------
(***************************************************************************)
(* What the run of WebhookDelivery.cfg checks on two dispatchers and two   *)
(* deliveries, for any number of them, of faults and of attempts, and any  *)
(* options: a delivery whose claim got stale in its dispatcher's hands is  *)
(* told apart (overdue), and the invariant says what is left of it.        *)
(***************************************************************************)
EXTENDS WebhookDelivery, FiniteSetTheorems, TLAPS

\* The row of a delivery: queued once, settled for what it says.
Queue(d) ==
  /\ d[1] \notin emitted => d[2] \notin todo[d[1]] /\ status[d] = "none"
  /\ d[2] \in todo[d[1]] => status[d] = "none"
  /\ status[d] = "none" => attempts[d] = 0 /\ d \notin overdue
  /\ status[d] = "gone" => hook[d[2]] = "deleted"
  /\ status[d] = "dead" => attempts[d] >= MaxAttempts
  /\ d \in overdue \/ (status[d] = "dead" => attempts[d] = MaxAttempts)
  /\ d \in overdue \/ (status[d] \in {"pending", "failed"} => attempts[d] < MaxAttempts)
  /\ status[d] = "delivered" => d \in accepted

\* A dispatcher between ticks has nothing in hand; the delivery it works on is not
\* also on its list.
Working(p) ==
  /\ phase[p] = "idle" => work[p] = {} /\ elapsed[p] = 0
  /\ phase[p] \in {"post", "ok", "fail"} => cur[p] \in Deliveries \ work[p]
  /\ phase[p] = "ok" => cur[p] \in accepted

\* What is in hand was queued, and has failed no less often than the claim said.
\* Unless it is overdue, or its row is gone, it is not settled, its claim is not
\* stale, and its attempts are those the claim returned.
Held(p) ==
  \A d \in InHand(p) :
    /\ status[d] # "none"
    /\ status[d] = "gone" \/ snap[p][d] <= attempts[d]
    /\ \/ d \in overdue
       \/ status[d] = "gone"
       \/ /\ status[d] \in {"pending", "failed"}
          /\ d \in claimed /\ age[d] < ClaimStale
          /\ snap[p][d] = attempts[d]

\* Each delivery that was finished took at most Timeout of the age of the claim.
InTime(p) ==
  \A d \in InHand(p) :
    age[d] + Cardinality(InHand(p)) * Timeout <= Batch * Timeout + elapsed[p]

Hand(p) == Working(p) /\ Held(p) /\ InTime(p)

\* Nothing but what is overdue is in two hands.
Apart == \A p, q \in Dispatchers : p # q => InHand(p) \cap InHand(q) \subseteq overdue

WebhookInv ==
  /\ TypeOK /\ Apart
  /\ \A d \in Deliveries : Queue(d)
  /\ \A p \in Dispatchers : Hand(p)

---------------------------------------------------------------------------
(* Numbers and sets *)

\* The smaller of two numbers.
LEMMA MinOfTwo ==
  ASSUME NEW a \in Int, NEW b \in Int
  PROVE  Min({a, b}) = IF a <= b THEN a ELSE b
<1> DEFINE m == IF a <= b THEN a ELSE b
<1>1. m \in {a, b} /\ \A y \in {a, b} : m <= y
  OBVIOUS
<1>2. Min({a, b}) \in {a, b} /\ \A y \in {a, b} : Min({a, b}) <= y
  BY <1>1 DEF Min
<1> QED
  BY <1>1, <1>2

\* The options are positive numbers.
LEMMA Options ==
  /\ Batch \in Nat \ {0} /\ MaxAttempts \in Nat \ {0} /\ Timeout \in Nat \ {0}
  /\ ClaimStale \in Nat \ {0} /\ Backoff \in Nat \ {0} /\ MaxDelay \in Nat \ {0}
BY ParameterAssumption

\* A multiple of Timeout.
LEMMA Multiples ==
  ASSUME NEW n \in Nat
  PROVE  /\ n * Timeout \in Nat
         /\ n # 0 => n * Timeout = (n - 1) * Timeout + Timeout /\ n * Timeout >= Timeout
         /\ n <= Batch => n * Timeout <= Batch * Timeout
<1> USE Options
<1>1. n * Timeout \in Nat
  OBVIOUS
<1>2. n # 0 => n * Timeout = (n - 1) * Timeout + Timeout
  OBVIOUS
<1>3. n # 0 => (n - 1) * Timeout \in Nat
  OBVIOUS
<1>4. n <= Batch => n * Timeout <= Batch * Timeout
  <2> SUFFICES ASSUME n <= Batch PROVE n * Timeout <= Batch * Timeout
    OBVIOUS
  <2>1. PICK k \in Nat : Batch = n + k
    <3>1. Batch - n \in Nat /\ Batch = n + (Batch - n)
      OBVIOUS
    <3> QED
      BY <3>1
  <2>2. Batch * Timeout = n * Timeout + k * Timeout /\ k * Timeout \in Nat
    BY <2>1
  <2> QED
    BY <1>1, <2>2
<1> QED
  BY <1>1, <1>2, <1>3, <1>4

\* There are finitely many deliveries, so that they can be counted.
LEMMA FiniteDeliveries ==
  ASSUME NEW S \in SUBSET Deliveries
  PROVE  IsFiniteSet(S) /\ Cardinality(S) \in Nat
<1>1. IsFiniteSet(Deliveries)
  BY ParameterAssumption, FS_Product DEF Deliveries
<1> QED
  BY <1>1, FS_Subset, FS_CardinalityType

\* RetryDelay after the failure number n, before the last and from then on.
LEMMA Delays ==
  ASSUME NEW n \in Nat \ {0}
  PROVE  /\ n < MaxAttempts => RetryDelay(n) \in 0 .. MaxDelay
         /\ n >= MaxAttempts => RetryDelay(n) = -1
<1> USE Options
<1>1. CASE n < MaxAttempts
  <2>1. 2^(n - 1) \in Nat
    BY <1>1, PowerAssumption
  <2>2. Backoff * 2^(n - 1) \in Nat
    BY <2>1
  <2>3. Min({MaxDelay, Backoff * 2^(n - 1)}) \in 0 .. MaxDelay
    BY <2>2, MinOfTwo
  <2> QED
    BY <1>1, <2>3 DEF RetryDelay
<1>2. CASE n >= MaxAttempts
  BY <1>2 DEF RetryDelay
<1> QED
  BY <1>1, <1>2

\* What a dispatcher has in hand are deliveries.
LEMMA InHandType ==
  ASSUME TypeOK, NEW p \in Dispatchers, Working(p)
  PROVE  /\ InHand(p) \in SUBSET Deliveries
         /\ IsFiniteSet(InHand(p)) /\ Cardinality(InHand(p)) \in Nat
<1>1. InHand(p) \in SUBSET Deliveries
  BY DEF TypeOK, Working, InHand
<1> QED
  BY <1>1, FiniteDeliveries

\* A delivery in hand is nobody else's to take, unless it is overdue.
LEMMA NotStale ==
  ASSUME TypeOK, NEW p \in Dispatchers, Hand(p), NEW d \in InHand(p), d \notin overdue
  PROVE  d \in Deliveries /\ ~Due(d)
<1>1. d \in Deliveries
  BY InHandType DEF Hand
<1>2. age[d] \in Nat
  BY <1>1, Options DEF TypeOK
<1>3. status[d] = "gone" \/ (d \in claimed /\ age[d] < ClaimStale)
  BY DEF Hand, Held
<1> QED
  BY <1>1, <1>2, <1>3, Options DEF Due

\* What is stale in hand waited for others: they took ClaimStale together.
LEMMA StaleWaited ==
  ASSUME TypeOK, \A p \in Dispatchers : Hand(p)
  PROVE  StaleBehindOthers
<1> USE Options
<1> SUFFICES ASSUME NEW p \in Dispatchers, NEW d \in InHand(p), age[d] >= ClaimStale
             PROVE  ClaimStale <= (Batch - Cardinality(InHand(p)) + 1) * Timeout
  BY DEF StaleBehindOthers
<1>1. d \in Deliveries /\ Cardinality(InHand(p)) \in Nat
  BY InHandType DEF Hand
<1>2. /\ age[d] \in Nat /\ elapsed[p] \in Nat /\ elapsed[p] <= Timeout
      /\ age[d] + Cardinality(InHand(p)) * Timeout <= Batch * Timeout + elapsed[p]
  BY <1>1 DEF TypeOK, Hand, InTime
<1> DEFINE n == Cardinality(InHand(p))
<1>3. (Batch - n + 1) * Timeout = Batch * Timeout - n * Timeout + Timeout
  BY <1>1
<1>4. n * Timeout \in Nat /\ Batch * Timeout \in Nat
  BY <1>1
<1> DEFINE a == n * Timeout
           b == Batch * Timeout
           c == (Batch - n + 1) * Timeout
<1>5. a \in Nat /\ b \in Nat /\ c = b - a + Timeout /\ age[d] + a <= b + elapsed[p]
  BY <1>2, <1>3, <1>4
<1>6. ASSUME NEW x \in Int, x = c PROVE ClaimStale <= x
  <2> HIDE DEF a, b, c
  <2> QED
    BY <1>2, <1>5, <1>6
<1>7. c \in Int
  BY <1>1
<1> QED
  BY <1>6, <1>7

---------------------------------------------------------------------------
(* Steps that leave dispatchers or rows alone *)

\* The step leaves dispatcher q alone.
Stays(q) ==
  /\ work'[q] = work[q] /\ cur'[q] = cur[q] /\ snap'[q] = snap[q]
  /\ phase'[q] = phase[q] /\ elapsed'[q] = elapsed[q]

\* What a step may do to the row of a delivery in the hand of a dispatcher that it
\* leaves alone.
Bears(d) ==
  /\ age'[d] <= age[d]
  /\ \/ status'[d] = "gone"
     \/ /\ status'[d] = status[d] /\ attempts'[d] = attempts[d]
        /\ d \in claimed => d \in claimed'
     \/ /\ d \in overdue /\ status[d] # "gone" /\ status'[d] # "none"
        /\ attempts'[d] >= attempts[d]

\* The dispatcher keeps its part of the invariant.
LEMMA StaysHand ==
  ASSUME TypeOK, TypeOK', NEW q \in Dispatchers, Hand(q), Stays(q), accepted \subseteq accepted',
         overdue \subseteq overdue', \A d \in InHand(q) : Bears(d)
  PROVE  Hand(q)' /\ InHand(q)' = InHand(q)
<1>1. InHand(q)' = InHand(q)
  BY DEF InHand, Stays
<1>2. Working(q)'
  BY DEF Hand, Working, Stays
<1>3. Held(q)'
  <2> SUFFICES ASSUME NEW d \in InHand(q)
               PROVE  /\ status'[d] # "none"
                      /\ status'[d] = "gone" \/ snap[q][d] <= attempts'[d]
                      /\ \/ d \in overdue'
                         \/ status'[d] = "gone"
                         \/ /\ status'[d] \in {"pending", "failed"}
                            /\ d \in claimed' /\ age'[d] < ClaimStale
                            /\ snap[q][d] = attempts'[d]
    BY <1>1 DEF Held, Stays
  <2>1. d \in Deliveries /\ Bears(d)
    BY InHandType DEF Hand
  <2>2. /\ age[d] \in Nat /\ age'[d] \in Nat /\ attempts[d] \in Nat /\ attempts'[d] \in Nat
        /\ snap[q][d] \in Nat
    BY <2>1, Options DEF TypeOK
  <2>3. /\ status[d] # "none"
        /\ status[d] = "gone" \/ snap[q][d] <= attempts[d]
        /\ \/ d \in overdue
           \/ status[d] = "gone"
           \/ /\ status[d] \in {"pending", "failed"}
              /\ d \in claimed /\ age[d] < ClaimStale
              /\ snap[q][d] = attempts[d]
    BY DEF Hand, Held
  <2> QED
    BY <2>1, <2>2, <2>3, Options DEF Bears
<1>4. InTime(q)'
  <2>0. InHand(q) \in SUBSET Deliveries /\ Cardinality(InHand(q)) \in Nat
    BY InHandType DEF Hand
  <2> DEFINE n == Cardinality(InHand(q)) * Timeout
             b == Batch * Timeout
  <2>1. n \in Nat /\ b \in Nat
    BY <2>0, Multiples, Options
  <2> SUFFICES ASSUME NEW d \in InHand(q) PROVE age'[d] + n <= b + elapsed[q]
    BY <1>1 DEF InTime, Stays
  <2>2. age[d] + n <= b + elapsed[q]
    BY DEF Hand, InTime
  <2>3. age[d] \in Nat /\ age'[d] \in Nat /\ elapsed[q] \in Nat /\ age'[d] <= age[d]
    BY <2>0, Options DEF TypeOK, Bears
  <2> HIDE DEF n, b
  <2> QED
    BY <2>1, <2>2, <2>3
<1> QED
  BY <1>1, <1>2, <1>3, <1>4 DEF Hand

\* A row that is left alone keeps its part.
LEMMA QueueKept ==
  ASSUME NEW d \in Deliveries, Queue(d), UNCHANGED <<emitted, todo>>,
         hook[d[2]] = "deleted" => hook'[d[2]] = "deleted",
         status'[d] = status[d], attempts'[d] = attempts[d], accepted \subseteq accepted',
         overdue \subseteq overdue', d \in overdue' => d \in overdue \/ status[d] # "none"
  PROVE  Queue(d)'
BY DEF Queue

\* If every hand stays as it is, nothing new comes into two.
LEMMA AllStay ==
  ASSUME WebhookInv, TypeOK', \A d \in Deliveries : Queue(d)', overdue \subseteq overdue',
         \A q \in Dispatchers : Hand(q)' /\ InHand(q)' \subseteq InHand(q)
  PROVE  WebhookInv'
<1>1. Apart'
  BY DEF WebhookInv, Apart
<1> QED
  BY <1>1 DEF WebhookInv

---------------------------------------------------------------------------
(* Webhooks and events *)

\* Steps that only change the queue, or the webhooks.
LEMMA OutsideInv ==
  ASSUME WebhookInv, TypeOK', UNCHANGED <<workVars, accepted, overdue>>,
         \A d \in Deliveries : Queue(d)',
         \A q \in Dispatchers, d \in Deliveries : d \in InHand(q) => Bears(d)
  PROVE  WebhookInv'
<1>1. ASSUME NEW q \in Dispatchers PROVE Hand(q)' /\ InHand(q)' = InHand(q)
  <2>1. Hand(q) /\ TypeOK /\ Stays(q)
    BY <1>1 DEF WebhookInv, workVars, Stays
  <2>2. InHand(q) \in SUBSET Deliveries
    BY <2>1, InHandType DEF Hand
  <2> QED
    BY <1>1, <2>1, <2>2, StaysHand
<1> QED
  BY <1>1, AllStay

\* The operators' steps.
LEMMA HookInv ==
  ASSUME WebhookInv, NEW h \in Hooks,
         SetWebhookDisabled(h) \/ SetWebhookEnabled(h) \/ DeleteWebhook(h)
  PROVE  WebhookInv'
<1>a. TypeOK /\ \A d \in Deliveries : Queue(d) /\ age[d] \in Nat
  BY Options DEF WebhookInv, TypeOK
<1>1. CASE SetWebhookDisabled(h) \/ SetWebhookEnabled(h)
  <2>1. /\ UNCHANGED <<emitted, todo, rowVars, workVars, accepted, overdue, faults>>
        /\ hook[h] # "deleted" /\ hook' \in [Hooks -> {"enabled", "disabled", "deleted"}]
        /\ \A g \in Hooks : g # h => hook'[g] = hook[g]
    BY <1>1, <1>a DEF SetWebhookDisabled, SetWebhookEnabled, TypeOK
  <2>2. TypeOK'
    BY <1>a, <2>1 DEF TypeOK, rowVars, workVars
  <2>3. \A d \in Deliveries : Queue(d)'
    <3> SUFFICES ASSUME NEW d \in Deliveries PROVE Queue(d)'
      OBVIOUS
    <3>1. d[2] \in Hooks
      BY DEF Deliveries
    <3> QED
      BY <1>a, <2>1, <3>1, QueueKept DEF rowVars
  <2> QED
    BY <1>a, <2>1, <2>2, <2>3, OutsideInv DEF rowVars, Bears
<1>2. CASE DeleteWebhook(h)
  <2> DEFINE rows == {d \in Deliveries : d[2] = h /\ status[d] # "none"}
  <2>1. /\ hook' = [hook EXCEPT ![h] = "deleted"]
        /\ status' = [d \in Deliveries |-> IF d \in rows THEN "gone" ELSE status[d]]
        /\ attempts' = [d \in Deliveries |-> IF d \in rows THEN 0 ELSE attempts[d]]
        /\ wait' = [d \in Deliveries |-> IF d \in rows THEN 0 ELSE wait[d]]
        /\ claimed' = claimed \ rows
        /\ age' = [d \in Deliveries |-> IF d \in rows THEN 0 ELSE age[d]]
        /\ UNCHANGED <<emitted, todo, workVars, accepted, overdue, faults>>
    BY <1>2 DEF DeleteWebhook, Unclaim
  <2>2. \A d \in rows : d \in Deliveries /\ d[2] = h /\ status[d] # "none"
    OBVIOUS
  <2> HIDE DEF rows
  <2>3. TypeOK'
    BY <1>a, <2>1, Options DEF TypeOK, workVars
  <2>4. ASSUME NEW d \in Deliveries PROVE Queue(d)'
    <3>1. CASE d \in rows
      BY <1>a, <2>1, <2>2, <2>4, <3>1 DEF Queue, TypeOK
    <3>2. CASE d \notin rows
      <4>1. hook[d[2]] = "deleted" => hook'[d[2]] = "deleted"
        BY <1>a, <2>1, <2>4 DEF TypeOK, Deliveries
      <4> QED
        BY <1>a, <2>1, <2>4, <3>2, <4>1, QueueKept
    <3> QED
      BY <3>1, <3>2
  <2>5. \A q \in Dispatchers, d \in Deliveries : d \in InHand(q) => Bears(d)
    BY <1>a, <2>1 DEF Bears
  <2> QED
    BY <2>1, <2>3, <2>4, <2>5, OutsideInv
<1> QED
  BY <1>1, <1>2

\* Emit reads the webhooks; the event has no row yet.
LEMMA EmitInv ==
  ASSUME WebhookInv, NEW e \in Events, Emit(e)
  PROVE  WebhookInv'
<1>a. TypeOK /\ \A d \in Deliveries : Queue(d) /\ age[d] \in Nat
  BY Options DEF WebhookInv, TypeOK
<1>1. TypeOK'
  <2>1. {h \in Matches[e] : hook[h] = "enabled"} \in SUBSET Hooks
    BY ParameterAssumption
  <2>2. faults' \in 0 .. MaxFaults
    BY <1>a, ParameterAssumption DEF Emit, Fault, TypeOK
  <2>3. todo' \in [Events -> SUBSET Hooks] /\ emitted' \in SUBSET Events
    BY <1>a, <2>1 DEF Emit, TypeOK
  <2> QED
    BY <1>a, <2>2, <2>3 DEF Emit, TypeOK, rowVars, workVars
<1>2. ASSUME NEW d \in Deliveries PROVE Queue(d)'
  <2>1. d[1] \in Events /\ d[2] \in Hooks /\ Queue(d)
    BY <1>a, <1>2 DEF Deliveries
  <2>2. CASE d[1] = e
    BY <2>1, <2>2 DEF Emit, Queue, rowVars
  <2>3. CASE d[1] # e
    <3>1. todo'[d[1]] = todo[d[1]] /\ (d[1] \in emitted' <=> d[1] \in emitted)
      BY <1>a, <2>1, <2>3 DEF Emit, TypeOK
    <3> QED
      BY <2>1, <3>1 DEF Emit, Queue, rowVars
  <2> QED
    BY <2>2, <2>3
<1> QED
  BY <1>a, <1>1, <1>2, OutsideInv DEF Emit, rowVars, Bears

\* CreateWebhookDelivery makes one row, of a delivery that has none.
LEMMA CreateInv ==
  ASSUME WebhookInv, NEW e \in Events, NEW h \in Hooks, CreateWebhookDelivery(e, h)
  PROVE  WebhookInv'
<1> DEFINE x == <<e, h>>
<1>a. TypeOK /\ \A d \in Deliveries : Queue(d) /\ age[d] \in Nat
  BY Options DEF WebhookInv, TypeOK
<1>b. x \in Deliveries /\ x[1] = e /\ x[2] = h
  BY DEF Deliveries
<1>c. \A d \in Deliveries : d # x => d[1] # e \/ d[2] # h
  BY DEF Deliveries
<1>1. /\ h \in todo[e] /\ todo' = [todo EXCEPT ![e] = @ \ {h}]
      /\ status' \in {status, [status EXCEPT ![x] = "pending"]}
      /\ (hook[h] = "deleted" => status' = status) /\ faults' \in 0 .. MaxFaults
      /\ UNCHANGED <<hook, emitted, attempts, wait, claimed, age, workVars, accepted, overdue>>
  <2>1. faults' \in 0 .. MaxFaults
    BY <1>a, ParameterAssumption DEF CreateWebhookDelivery, Fault, TypeOK
  <2> QED
    BY <2>1 DEF CreateWebhookDelivery
<1> HIDE DEF x
<1>2. status[x] = "none" /\ attempts[x] = 0 /\ e \in emitted /\ x \notin overdue
  BY <1>1, <1>a, <1>b DEF Queue
<1>3. TypeOK'
  BY <1>a, <1>b, <1>1 DEF TypeOK, workVars
<1>4. \A d \in Deliveries \ {x} : status'[d] = status[d]
  BY <1>1, <1>a DEF TypeOK
<1>5. ASSUME NEW d \in Deliveries PROVE Queue(d)'
  <2>1. d[1] \in Events /\ d[2] \in Hooks /\ Queue(d)
    BY <1>a, <1>5 DEF Deliveries
  <2>2. CASE d = x
    <3>1. d[2] \notin todo'[d[1]]
      BY <1>1, <1>a, <1>b, <2>2 DEF TypeOK
    <3>2. status'[d] \in {"none", "pending"}
      BY <1>1, <1>2, <1>a, <1>b, <2>2 DEF TypeOK
    <3> QED
      BY <1>1, <1>2, <1>b, <2>2, <3>1, <3>2, Options DEF Queue
  <2>3. CASE d # x
    <3>1. d[2] \in todo'[d[1]] <=> d[2] \in todo[d[1]]
      BY <1>1, <1>a, <1>c, <2>1, <2>3 DEF TypeOK
    <3> QED
      BY <1>1, <1>4, <2>1, <2>3, <3>1 DEF Queue
  <2> QED
    BY <2>2, <2>3
<1>6. \A q \in Dispatchers : x \notin InHand(q)
  BY <1>2 DEF WebhookInv, Hand, Held
<1> QED
  BY <1>1, <1>3, <1>4, <1>5, <1>6, <1>a, OutsideInv DEF Bears

---------------------------------------------------------------------------
(* Dispatchers *)

\* tick: what is claimed is in nobody's hand, or overdue.
LEMMA ClaimInv ==
  ASSUME WebhookInv, NEW p \in Dispatchers, Claim(p)
  PROVE  WebhookInv'
<1> USE Options
<1>a. /\ TypeOK /\ \A d \in Deliveries : Queue(d) /\ age[d] \in Nat
      /\ \A q \in Dispatchers : Hand(q)
  BY DEF WebhookInv, TypeOK
<1> DEFINE due == {d \in Deliveries : Due(d)}
<1>1. PICK S \in SUBSET due :
        /\ Cardinality(S) = Min({Batch, Cardinality(due)})
        /\ claimed' = claimed \cup S
        /\ age' = [d \in Deliveries |-> IF d \in S THEN 0 ELSE age[d]]
        /\ work' = [work EXCEPT ![p] = S]
        /\ snap' = [snap EXCEPT ![p] = [d \in Deliveries |-> IF d \in S THEN attempts[d] ELSE 0]]
  BY DEF Claim
<1>2. /\ phase[p] = "idle" /\ phase' = [phase EXCEPT ![p] = "next"]
      /\ UNCHANGED <<hookVars, status, attempts, wait, cur, elapsed, accepted, overdue, faults>>
  BY DEF Claim, Goto
<1>3. S \in SUBSET Deliveries /\ \A d \in S : Due(d)
  OBVIOUS
<1>4. Cardinality(S) \in Nat /\ Cardinality(S) <= Batch
  <2>1. Cardinality(due) \in Nat
    BY FiniteDeliveries
  <2>2. Min({Batch, Cardinality(due)}) = IF Batch <= Cardinality(due) THEN Batch ELSE Cardinality(due)
    BY <2>1, MinOfTwo
  <2> QED
    BY <1>1, <2>1, <2>2
<1> HIDE DEF due
<1>5. TypeOK'
  <2>1. attempts \in [Deliveries -> Nat]
    BY <1>a DEF TypeOK
  <2> QED
    BY <1>a, <1>1, <1>2, <1>3, <2>1 DEF TypeOK, Phases, hookVars
<1>6. \A d \in Deliveries : Queue(d)'
  BY <1>a, <1>2, QueueKept DEF hookVars
<1>7. InHand(p) = {} /\ InHand(p)' = S
  BY <1>a, <1>1, <1>2 DEF InHand, Hand, Working, TypeOK
<1>8. Hand(p)'
  <2>1. Working(p)'
    BY <1>a, <1>2 DEF Working, TypeOK
  <2>2. Held(p)'
    <3>1. ASSUME NEW d \in S
          PROVE  /\ status'[d] \in {"pending", "failed"} /\ d \in claimed'
                 /\ age'[d] = 0 /\ snap'[p][d] = attempts'[d] /\ attempts'[d] \in Nat
      BY <1>a, <1>1, <1>2, <1>3, <3>1 DEF Due, TypeOK
    <3> QED
      BY <1>7, <3>1 DEF Held
  <2>3. InTime(p)'
    <3>1. elapsed'[p] = 0 /\ \A d \in S : age'[d] = 0
      BY <1>a, <1>1, <1>2, <1>3 DEF Hand, Working
    <3>2. Cardinality(S) * Timeout <= Batch * Timeout /\ Cardinality(S) * Timeout \in Nat /\ Batch * Timeout \in Nat
      BY <1>4, Multiples
    <3> QED
      BY <1>7, <3>1, <3>2 DEF InTime
  <2> QED
    BY <2>1, <2>2, <2>3 DEF Hand
<1>9. ASSUME NEW q \in Dispatchers, q # p PROVE Hand(q)' /\ InHand(q)' = InHand(q) /\ InHand(q) \cap S \subseteq overdue
  <2>1. Stays(q) /\ Hand(q)
    BY <1>a, <1>1, <1>2, <1>9 DEF Stays, TypeOK
  <2>2. InHand(q) \cap S \subseteq overdue /\ InHand(q) \in SUBSET Deliveries
    BY <1>a, <1>3, <2>1, NotStale, InHandType DEF Hand
  <2>3. \A d \in InHand(q) : Bears(d)
    BY <1>a, <1>1, <1>2, <2>2 DEF Bears
  <2> QED
    BY <1>a, <1>1, <1>2, <1>5, <2>1, <2>2, <2>3, StaysHand
<1>10. Apart'
  BY <1>2, <1>7, <1>9 DEF WebhookInv, Apart
<1> QED
  BY <1>5, <1>6, <1>8, <1>9, <1>10 DEF WebhookInv

\* A dispatcher that is done with a delivery, whatever became of its row.
LEMMA NextHand ==
  ASSUME WebhookInv, TypeOK', NEW p \in Dispatchers, NEW d \in InHand(p), NextDelivery(p, d),
         work'[p] = InHand(p) \ {d}, \A q \in Dispatchers \ {p} : work'[q] = work[q],
         UNCHANGED <<accepted, overdue>>,
         age'[d] <= age[d], status'[d] # "none", status[d] = "gone" => status'[d] = "gone",
         status[d] # "gone" => attempts'[d] >= attempts[d],
         \A x \in Deliveries \ {d} :
           /\ status'[x] = status[x] /\ attempts'[x] = attempts[x] /\ age'[x] = age[x]
           /\ x \in claimed => x \in claimed'
  PROVE  \A q \in Dispatchers : Hand(q)' /\ InHand(q)' \subseteq InHand(q)
<1> USE Options
<1>a. TypeOK /\ Hand(p) /\ \A x \in Deliveries : age[x] \in Nat
  BY DEF WebhookInv, TypeOK
<1>b. InHand(p) \in SUBSET Deliveries /\ IsFiniteSet(InHand(p)) /\ Cardinality(InHand(p)) \in Nat
  BY <1>a, InHandType DEF Hand
<1>1. /\ phase' = [phase EXCEPT ![p] = "next"] /\ elapsed' = [elapsed EXCEPT ![p] = 0]
      /\ cur' = [cur EXCEPT ![p] = NoDelivery] /\ snap' = [snap EXCEPT ![p][d] = 0]
  BY DEF NextDelivery, Goto
<1>2. phase'[p] = "next" /\ elapsed'[p] = 0 /\ \A x \in Deliveries \ {d} : snap'[p][x] = snap[p][x]
  BY <1>1, <1>a DEF TypeOK
<1>3. InHand(p)' = InHand(p) \ {d}
  BY <1>2 DEF InHand
<1>4. Hand(p)'
  <2>1. Working(p)'
    BY <1>2 DEF Working
  <2>2. Held(p)'
    BY <1>2, <1>3, <1>a, <1>b DEF Hand, Held
  <2>3. InTime(p)'
    <3> DEFINE n == Cardinality(InHand(p))
               b == Batch * Timeout
    <3>1. Cardinality(InHand(p) \ {d}) = n - 1 /\ n # 0
      BY <1>b, FS_RemoveElement, FS_EmptySet
    <3>2. n * Timeout = (n - 1) * Timeout + Timeout /\ n * Timeout \in Nat /\ b \in Nat
      BY <1>b, <3>1, Multiples
    <3>3. ASSUME NEW x \in InHand(p) \ {d} PROVE age'[x] + (n - 1) * Timeout <= b + 0
      <4>1. age[x] + n * Timeout <= b + elapsed[p]
        BY <1>a DEF Hand, InTime
      <4>2. age'[x] = age[x] /\ age[x] \in Nat /\ elapsed[p] \in Nat /\ elapsed[p] <= Timeout
        BY <1>a, <1>b DEF TypeOK
      <4>3. (n - 1) * Timeout \in Nat
        BY <1>b, <3>1
      <4> HIDE DEF n, b
      <4> QED
        BY <3>2, <4>1, <4>2, <4>3
    <3> QED
      BY <1>2, <1>3, <3>1, <3>3 DEF InTime
  <2> QED
    BY <2>1, <2>2, <2>3 DEF Hand
<1>5. ASSUME NEW q \in Dispatchers, q # p PROVE Hand(q)' /\ InHand(q)' \subseteq InHand(q)
  <2>1. Stays(q) /\ Hand(q) /\ (d \in InHand(q) => d \in overdue)
    BY <1>1, <1>a, <1>5 DEF Stays, TypeOK, WebhookInv, Apart
  <2>2. InHand(q) \in SUBSET Deliveries
    BY <1>a, <2>1, InHandType DEF Hand
  <2>3. \A x \in InHand(q) : Bears(x)
    <3> SUFFICES ASSUME NEW x \in InHand(q) PROVE Bears(x)
      OBVIOUS
    <3>1. CASE x = d
      BY <2>1, <3>1 DEF Bears
    <3>2. CASE x # d
      BY <1>a, <2>2, <3>2 DEF Bears
    <3> QED
      BY <3>1, <3>2
  <2> QED
    BY <1>a, <2>1, <2>2, <2>3, StaysHand
<1> QED
  BY <1>3, <1>4, <1>5

\* deliver, up to the POST.
LEMMA LookupInv ==
  ASSUME WebhookInv, NEW p \in Dispatchers, Lookup(p)
  PROVE  WebhookInv'
<1> USE Options
<1>a. TypeOK /\ Hand(p) /\ \A x \in Deliveries : Queue(x) /\ age[x] \in Nat
  BY DEF WebhookInv, TypeOK
<1>1. /\ phase[p] = "next" /\ UNCHANGED <<hookVars, rowVars, accepted, overdue>>
      /\ InHand(p) = work[p] /\ faults' \in 0 .. MaxFaults
  <2>1. faults' \in 0 .. MaxFaults
    BY <1>a, ParameterAssumption DEF Lookup, Fault, TypeOK
  <2> QED
    BY <2>1 DEF Lookup, InHand
<1>2. PICK d \in work[p] :
        /\ work' = [work EXCEPT ![p] = @ \ {d}]
        /\ \/ NextDelivery(p, d)
           \/ /\ cur' = [cur EXCEPT ![p] = d]
              /\ Goto(p, "post")
              /\ UNCHANGED <<elapsed, snap>>
  BY DEF Lookup
<1>3. d \in Deliveries /\ work[p] \in SUBSET Deliveries
  BY <1>a DEF TypeOK
<1>4. \A x \in Deliveries : Queue(x)'
  BY <1>1, <1>a, QueueKept DEF hookVars, rowVars
<1>5. work' \in [Dispatchers -> SUBSET Deliveries] /\ work'[p] = work[p] \ {d}
      /\ \A q \in Dispatchers \ {p} : work'[q] = work[q]
  BY <1>2, <1>a DEF TypeOK
<1>6. CASE NextDelivery(p, d)
  <2>1. d \in InHand(p) /\ status[d] # "none" /\ attempts[d] \in Nat
    BY <1>1, <1>3, <1>a DEF Hand, Held, TypeOK
  <2>2. TypeOK'
    BY <1>1, <1>3, <1>5, <1>6, <1>a DEF TypeOK, NextDelivery, Goto, Phases, hookVars, rowVars
  <2>3. \A q \in Dispatchers : Hand(q)' /\ InHand(q)' \subseteq InHand(q)
    BY <1>1, <1>3, <1>5, <1>6, <1>a, <2>1, <2>2, NextHand DEF rowVars
  <2> QED
    BY <1>1, <1>4, <2>2, <2>3, AllStay
<1>7. CASE cur' = [cur EXCEPT ![p] = d] /\ Goto(p, "post") /\ UNCHANGED <<elapsed, snap>>
  <2>1. /\ cur' = [cur EXCEPT ![p] = d] /\ phase' = [phase EXCEPT ![p] = "post"]
        /\ UNCHANGED <<elapsed, snap>>
    BY <1>7 DEF Goto
  <2>2. TypeOK'
    BY <1>1, <1>3, <1>5, <1>a, <2>1 DEF TypeOK, Phases, hookVars, rowVars
  <2>3. InHand(p)' = InHand(p) /\ phase'[p] = "post" /\ cur'[p] = d
    BY <1>1, <1>5, <1>a, <2>1 DEF InHand, TypeOK
  <2>4. Hand(p)'
    <3>1. Working(p)'
      BY <1>3, <1>5, <2>3 DEF Working
    <3>2. Held(p)' /\ InTime(p)'
      BY <1>1, <1>a, <2>1, <2>3 DEF Hand, Held, InTime, rowVars
    <3> QED
      BY <3>1, <3>2 DEF Hand
  <2>5. ASSUME NEW q \in Dispatchers, q # p PROVE Hand(q)' /\ InHand(q)' = InHand(q)
    <3>1. Stays(q) /\ Hand(q)
      BY <1>5, <1>a, <2>1, <2>5 DEF Stays, TypeOK, WebhookInv
    <3>2. InHand(q) \in SUBSET Deliveries
      BY <1>a, <3>1, InHandType DEF Hand
    <3> QED
      BY <1>1, <1>a, <2>2, <3>1, <3>2, StaysHand DEF rowVars, Bears
  <2> QED
    BY <1>1, <1>4, <2>2, <2>3, <2>4, <2>5, AllStay
<1> QED
  BY <1>2, <1>6, <1>7

\* The loop is over, or the dispatcher crashes: it has nothing in hand.
LEMMA EmptyHandInv ==
  ASSUME WebhookInv, NEW p \in Dispatchers, EndTick(p) \/ Crash(p)
  PROVE  WebhookInv'
<1> USE Options
<1>a. TypeOK /\ \A x \in Deliveries : Queue(x) /\ age[x] \in Nat
  BY DEF WebhookInv, TypeOK
<1>1. UNCHANGED <<hookVars, rowVars, accepted, overdue>>
  BY DEF EndTick, Crash
<1>2. TypeOK'
  <2>1. CASE EndTick(p)
    BY <1>a, <2>1 DEF EndTick, Goto, TypeOK, Phases, hookVars, rowVars
  <2>2. CASE Crash(p)
    BY <1>a, <2>2, ParameterAssumption DEF Crash, Fault, Goto, TypeOK, Phases, hookVars, rowVars
  <2> QED
    BY <2>1, <2>2
<1>3. \A x \in Deliveries : Queue(x)'
  BY <1>1, <1>a, QueueKept DEF hookVars, rowVars
<1>4. phase'[p] = "idle" /\ work'[p] = {} /\ elapsed'[p] = 0
  BY <1>a DEF EndTick, Crash, Goto, TypeOK
<1>5. InHand(p)' = {} /\ Hand(p)'
  <2>1. InHand(p)' = {}
    BY <1>4 DEF InHand
  <2> QED
    BY <1>4, <2>1 DEF Hand, Working, Held, InTime
<1>6. ASSUME NEW q \in Dispatchers, q # p PROVE Hand(q)' /\ InHand(q)' = InHand(q)
  <2>1. Stays(q) /\ Hand(q)
    BY <1>a, <1>6 DEF EndTick, Crash, Goto, Stays, TypeOK, WebhookInv
  <2>2. InHand(q) \in SUBSET Deliveries
    BY <1>a, <2>1, InHandType DEF Hand
  <2> QED
    BY <1>1, <1>a, <1>2, <2>1, <2>2, StaysHand DEF rowVars, Bears
<1> QED
  BY <1>1, <1>2, <1>3, <1>5, <1>6, AllStay

\* The POST: whoever received it, the row is as it was.
LEMMA PostInv ==
  ASSUME WebhookInv, NEW p \in Dispatchers, Post(p)
  PROVE  WebhookInv'
<1> USE Options
<1>a. TypeOK /\ Hand(p) /\ \A x \in Deliveries : Queue(x) /\ age[x] \in Nat
  BY DEF WebhookInv, TypeOK
<1>1. /\ phase[p] = "post" /\ cur[p] \in Deliveries \ work[p]
      /\ accepted \subseteq accepted' /\ accepted' \in SUBSET Deliveries
      /\ UNCHANGED <<hookVars, rowVars, work, cur, snap, elapsed, overdue, faults>>
  BY <1>a DEF Post, Hand, Working, TypeOK
<1>2. /\ phase' \in {[phase EXCEPT ![p] = "ok"], [phase EXCEPT ![p] = "fail"]}
      /\ phase' = [phase EXCEPT ![p] = "ok"] => cur[p] \in accepted'
  BY <1>a DEF Post, Goto, TypeOK
<1>3. TypeOK'
  BY <1>a, <1>1, <1>2 DEF TypeOK, Phases, hookVars, rowVars
<1>4. \A x \in Deliveries : Queue(x)'
  BY <1>1, <1>a, QueueKept DEF hookVars, rowVars
<1>5. phase'[p] \in {"ok", "fail"} /\ (phase'[p] = "ok" => cur[p] \in accepted')
  BY <1>2, <1>a DEF TypeOK
<1>6. InHand(p)' = InHand(p)
  BY <1>1, <1>5 DEF InHand
<1>7. Hand(p)'
  BY <1>1, <1>5, <1>6, <1>a DEF Hand, Working, Held, InTime, rowVars
<1>8. ASSUME NEW q \in Dispatchers, q # p PROVE Hand(q)' /\ InHand(q)' = InHand(q)
  <2>1. Stays(q) /\ Hand(q)
    BY <1>1, <1>2, <1>a, <1>8 DEF Stays, TypeOK, WebhookInv
  <2>2. InHand(q) \in SUBSET Deliveries
    BY <1>a, <2>1, InHandType DEF Hand
  <2> QED
    BY <1>1, <1>a, <1>3, <2>1, <2>2, StaysHand DEF rowVars, Bears
<1> QED
  BY <1>1, <1>3, <1>4, <1>6, <1>7, <1>8, AllStay

\* What is known of the delivery whose outcome is recorded.
LEMMA CurrentIs ==
  ASSUME WebhookInv, NEW p \in Dispatchers, phase[p] \in {"ok", "fail"}
  PROVE  /\ cur[p] \in Deliveries /\ cur[p] \in InHand(p) /\ work[p] = InHand(p) \ {cur[p]}
         /\ status[cur[p]] # "none"
         /\ status[cur[p]] = "gone" \/ snap[p][cur[p]] <= attempts[cur[p]]
         /\ \/ cur[p] \in overdue
            \/ status[cur[p]] = "gone"
            \/ /\ status[cur[p]] \in {"pending", "failed"}
               /\ snap[p][cur[p]] = attempts[cur[p]] /\ attempts[cur[p]] < MaxAttempts
<1>1. Hand(p) /\ cur[p] \in Deliveries \ work[p]
  BY DEF WebhookInv, Hand, Working
<1>2. cur[p] \in InHand(p) /\ work[p] = InHand(p) \ {cur[p]}
  BY <1>1 DEF InHand
<1> QED
  BY <1>1, <1>2 DEF WebhookInv, Hand, Held, Queue

\* RecordWebhookDeliveryResult, delivered.
LEMMA RecordDeliveredInv ==
  ASSUME WebhookInv, NEW p \in Dispatchers, RecordDelivered(p)
  PROVE  WebhookInv'
<1> USE Options
<1>a. TypeOK /\ Hand(p) /\ \A x \in Deliveries : Queue(x) /\ age[x] \in Nat
  BY DEF WebhookInv, TypeOK
<1>b. PICK d \in Deliveries : d = cur[p]
  BY CurrentIs DEF RecordDelivered
<1>1. /\ phase[p] = "ok" /\ NextDelivery(p, d) /\ UNCHANGED <<hookVars, attempts, wait, work, accepted, overdue>>
      /\ d \in accepted
  BY <1>a, <1>b DEF RecordDelivered, Hand, Working
<1>2. /\ d \in InHand(p) /\ work[p] = InHand(p) \ {d} /\ status[d] # "none"
      /\ attempts[d] \in Nat
  BY <1>1, <1>a, <1>b, CurrentIs DEF TypeOK
<1>3. /\ status' \in [Deliveries -> {"none", "pending", "failed", "delivered", "dead", "gone"}]
      /\ status'[d] \in {status[d], "delivered"} /\ (status[d] = "gone" => status'[d] = "gone")
      /\ claimed' \in SUBSET Deliveries /\ age' \in [Deliveries -> 0 .. ClaimStale]
      /\ faults' \in 0 .. MaxFaults /\ age'[d] <= age[d]
      /\ \A x \in Deliveries \ {d} :
           status'[x] = status[x] /\ age'[x] = age[x] /\ (x \in claimed => x \in claimed')
  <2>1. CASE Fault /\ UNCHANGED <<status, claimed, age>>
    BY <1>a, <1>b, <2>1, ParameterAssumption DEF Fault, TypeOK
  <2>2. CASE /\ status' = [status EXCEPT ![d] = IF @ = "gone" THEN @ ELSE "delivered"]
             /\ Unclaim({d}) /\ UNCHANGED faults
    BY <1>a, <1>b, <2>2 DEF Unclaim, TypeOK
  <2> QED
    BY <1>b, <2>1, <2>2 DEF RecordDelivered
<1>4. TypeOK'
  BY <1>a, <1>1, <1>3 DEF TypeOK, NextDelivery, Goto, Phases, hookVars
<1>5. \A q \in Dispatchers : Hand(q)' /\ InHand(q)' \subseteq InHand(q)
  BY <1>1, <1>2, <1>3, <1>4, NextHand
<1>6. ASSUME NEW x \in Deliveries PROVE Queue(x)'
  <2>1. CASE x = d
    BY <1>a, <1>1, <1>2, <1>3, <2>1 DEF Queue, hookVars
  <2>2. CASE x # d
    BY <1>a, <1>1, <1>3, <1>6, <2>2, QueueKept DEF hookVars
  <2> QED
    BY <2>1, <2>2
<1> QED
  BY <1>1, <1>4, <1>5, <1>6, AllStay

\* recordFailure: the attempts the claim returned are the row's, or fewer if the
\* delivery is overdue.
LEMMA RecordFailureInv ==
  ASSUME WebhookInv, NEW p \in Dispatchers, RecordFailure(p)
  PROVE  WebhookInv'
<1> USE Options
<1>a. TypeOK /\ Hand(p) /\ \A x \in Deliveries : Queue(x) /\ age[x] \in Nat
  BY DEF WebhookInv, TypeOK
<1>b. PICK d \in Deliveries : d = cur[p]
  BY CurrentIs DEF RecordFailure
<1> DEFINE delay == RetryDelay(snap[p][d] + 1)
<1>1. /\ phase[p] = "fail" /\ NextDelivery(p, d) /\ UNCHANGED <<hookVars, work, accepted, overdue>>
  BY <1>b DEF RecordFailure
<1>2. /\ d \in InHand(p) /\ work[p] = InHand(p) \ {d}
      /\ attempts[d] \in Nat /\ snap[p][d] \in Nat /\ status[d] # "none"
      /\ status[d] = "gone" \/ snap[p][d] <= attempts[d]
      /\ \/ d \in overdue
         \/ status[d] = "gone"
         \/ /\ status[d] \in {"pending", "failed"}
            /\ snap[p][d] = attempts[d] /\ attempts[d] < MaxAttempts
  BY <1>1, <1>a, <1>b, CurrentIs DEF TypeOK
<1>3. /\ status' \in [Deliveries -> {"none", "pending", "failed", "delivered", "dead", "gone"}]
      /\ attempts' \in [Deliveries -> Nat] /\ wait' \in [Deliveries -> 0 .. MaxDelay]
      /\ \/ status'[d] = status[d] /\ attempts'[d] = attempts[d]
         \/ /\ status'[d] = "failed" /\ status[d] # "gone" /\ attempts'[d] = attempts[d] + 1
            /\ d \in overdue \/ attempts'[d] < MaxAttempts
         \/ /\ status'[d] = "dead" /\ status[d] # "gone" /\ attempts'[d] = attempts[d] + 1
            /\ attempts'[d] >= MaxAttempts /\ (d \in overdue \/ attempts'[d] = MaxAttempts)
      /\ claimed' \in SUBSET Deliveries /\ age' \in [Deliveries -> 0 .. ClaimStale]
      /\ faults' \in 0 .. MaxFaults /\ age'[d] <= age[d]
      /\ \A x \in Deliveries \ {d} :
           /\ status'[x] = status[x] /\ attempts'[x] = attempts[x] /\ age'[x] = age[x]
           /\ x \in claimed => x \in claimed'
  <2>1. CASE UNCHANGED rowVars /\ (Fault \/ UNCHANGED faults)
    BY <1>a, <1>b, <2>1, ParameterAssumption DEF Fault, TypeOK, rowVars
  <2>2. CASE /\ status[d] # "gone"
             /\ status' = [status EXCEPT ![d] = IF delay >= 0 THEN "failed" ELSE "dead"]
             /\ attempts' = [attempts EXCEPT ![d] = @ + 1]
             /\ wait' = [wait EXCEPT ![d] = IF delay >= 0 THEN delay ELSE 0]
             /\ Unclaim({d}) /\ UNCHANGED faults
    <3>1. /\ snap[p][d] + 1 \in Nat \ {0} /\ snap[p][d] <= attempts[d]
          /\ d \in overdue \/ (snap[p][d] = attempts[d] /\ attempts[d] < MaxAttempts)
      BY <1>2, <2>2
    <3>0. attempts'[d] = attempts[d] + 1 /\ attempts' \in [Deliveries -> Nat]
      BY <1>a, <1>2, <2>2 DEF TypeOK
    <3>2. CASE snap[p][d] + 1 < MaxAttempts
      <4>1. delay \in 0 .. MaxDelay
        BY <3>1, <3>2, Delays
      <4>2. status' = [status EXCEPT ![d] = "failed"] /\ wait' = [wait EXCEPT ![d] = delay]
        BY <2>2, <4>1
      <4>3. d \in overdue \/ attempts'[d] < MaxAttempts
        BY <1>2, <3>0, <3>1, <3>2
      <4> HIDE DEF delay
      <4> QED
        BY <1>a, <1>b, <2>2, <3>0, <4>1, <4>2, <4>3 DEF Unclaim, TypeOK
    <3>3. CASE snap[p][d] + 1 >= MaxAttempts
      <4>1. delay = -1
        BY <3>1, <3>3, Delays
      <4> HIDE DEF delay
      <4>2. status' = [status EXCEPT ![d] = "dead"] /\ wait' = [wait EXCEPT ![d] = 0]
        BY <2>2, <4>1
      <4>3. attempts'[d] >= MaxAttempts /\ (d \in overdue \/ attempts'[d] = MaxAttempts)
        BY <1>2, <3>0, <3>1, <3>3
      <4> QED
        BY <1>a, <1>b, <2>2, <3>0, <4>2, <4>3 DEF Unclaim, TypeOK
    <3> QED
      BY <1>2, <3>1, <3>2, <3>3
  <2> QED
    BY <1>b, <2>1, <2>2 DEF RecordFailure
<1>4. TypeOK'
  BY <1>a, <1>1, <1>3 DEF TypeOK, NextDelivery, Goto, Phases, hookVars
<1>5. \A q \in Dispatchers : Hand(q)' /\ InHand(q)' \subseteq InHand(q)
  BY <1>1, <1>2, <1>3, <1>4, NextHand
<1>6. ASSUME NEW x \in Deliveries PROVE Queue(x)'
  <2>1. CASE x = d
    BY <1>a, <1>1, <1>2, <1>3, <2>1 DEF Queue, hookVars
  <2>2. CASE x # d
    BY <1>a, <1>1, <1>3, <1>6, <2>2, QueueKept DEF hookVars
  <2> QED
    BY <2>1, <2>2
<1> QED
  BY <1>1, <1>4, <1>5, <1>6, AllStay

\* Time passes for the claims and for those who work on them alike; the claims that
\* get stale in somebody's hands are overdue.
LEMMA TickInv ==
  ASSUME WebhookInv, Tick
  PROVE  WebhookInv'
<1> USE Options
<1>a. TypeOK /\ \A x \in Deliveries : Queue(x) /\ age[x] \in Nat
  BY DEF WebhookInv, TypeOK
<1>1. \A x \in Deliveries : age'[x] \in 0 .. ClaimStale /\ age'[x] <= age[x] + 1
  <2> SUFFICES ASSUME NEW x \in Deliveries PROVE age'[x] \in 0 .. ClaimStale /\ age'[x] <= age[x] + 1
    OBVIOUS
  <2>1. age'[x] = IF x \in claimed THEN Min({ClaimStale, age[x] + 1}) ELSE age[x]
    BY DEF Tick
  <2>2. Min({ClaimStale, age[x] + 1}) = IF ClaimStale <= age[x] + 1 THEN ClaimStale ELSE age[x] + 1
    BY <1>a, MinOfTwo
  <2>3. age[x] \in 0 .. ClaimStale
    BY <1>a DEF TypeOK
  <2> QED
    BY <2>1, <2>2, <2>3
<1>r. \A x \in claimed : x \notin overdue' => (age[x] + 1 < ClaimStale \/ \A q \in Dispatchers : x \notin InHand(q))
  <2> SUFFICES ASSUME NEW x \in claimed, x \notin overdue', ~(age[x] + 1 < ClaimStale)
               PROVE  \A q \in Dispatchers : x \notin InHand(q)
    OBVIOUS
  <2>1. age[x] \in Nat /\ x \notin RunningOut
    BY <1>a DEF Tick, TypeOK
  <2> QED
    BY <2>1 DEF RunningOut
<1>2. TypeOK'
  <2>1. age' \in [Deliveries -> 0 .. ClaimStale]
    BY <1>1 DEF Tick
  <2>2. wait' \in [Deliveries -> 0 .. MaxDelay] /\ elapsed' \in [Dispatchers -> 0 .. Timeout]
    BY <1>a DEF Tick, TypeOK
  <2>3. overdue' \in SUBSET Deliveries
    BY <1>a DEF Tick, TypeOK, RunningOut
  <2> QED
    BY <1>a, <2>1, <2>2, <2>3 DEF Tick, TypeOK, hookVars
<1>3. ASSUME NEW x \in Deliveries PROVE Queue(x)'
  <2>1. x \in overdue' => x \in overdue \/ status[x] # "none"
    BY DEF Tick, RunningOut, WebhookInv, Hand, Held
  <2> QED
    BY <1>a, <1>3, <2>1, QueueKept DEF Tick, hookVars
<1>4. ASSUME NEW q \in Dispatchers PROVE Hand(q)' /\ InHand(q)' = InHand(q)
  <2>0. Hand(q) /\ InHand(q) \in SUBSET Deliveries /\ Cardinality(InHand(q)) \in Nat
    BY <1>a, <1>4, InHandType DEF WebhookInv, Hand
  <2>1. InHand(q)' = InHand(q)
    BY DEF Tick, InHand
  <2>2. Working(q)'
    BY <1>4, <2>0 DEF Tick, Hand, Working
  <2>h. Held(q)'
    <3> SUFFICES ASSUME NEW x \in InHand(q)
                 PROVE  /\ status[x] # "none"
                        /\ status[x] = "gone" \/ snap[q][x] <= attempts[x]
                        /\ \/ x \in overdue'
                           \/ status[x] = "gone"
                           \/ /\ status[x] \in {"pending", "failed"}
                              /\ x \in claimed /\ age'[x] < ClaimStale
                              /\ snap[q][x] = attempts[x]
      BY <2>1 DEF Held, Tick
    <3>1. /\ status[x] # "none"
          /\ status[x] = "gone" \/ snap[q][x] <= attempts[x]
          /\ \/ x \in overdue
             \/ status[x] = "gone"
             \/ /\ status[x] \in {"pending", "failed"}
                /\ x \in claimed /\ age[x] < ClaimStale
                /\ snap[q][x] = attempts[x]
      BY <2>0 DEF Hand, Held
    <3>2. overdue \subseteq overdue'
      BY DEF Tick
    <3>3. x \in claimed /\ x \notin overdue' => age'[x] < ClaimStale
      <4>1. age[x] \in Nat /\ age'[x] \in Nat /\ age'[x] <= age[x] + 1
        BY <1>a, <1>1, <2>0
      <4> QED
        BY <1>4, <1>r, <4>1
    <3> QED
      BY <3>1, <3>2, <3>3
  <2>3. InTime(q)'
    <3>1. CASE phase[q] = "idle"
      <4>1. InHand(q) = {}
        BY <2>0, <3>1 DEF Hand, Working, InHand
      <4> QED
        BY <2>1, <4>1 DEF InTime
    <3>2. CASE phase[q] # "idle"
      <4>1. elapsed'[q] = elapsed[q] + 1 /\ elapsed[q] \in Nat
        BY <1>a, <1>4, <3>2 DEF Tick, TypeOK
      <4> DEFINE n == Cardinality(InHand(q)) * Timeout
                 b == Batch * Timeout
      <4>2. n \in Nat /\ b \in Nat
        BY <2>0, Multiples
      <4>3. ASSUME NEW x \in InHand(q) PROVE age'[x] + n <= b + elapsed'[q]
        <5>1. age[x] + n <= b + elapsed[q]
          BY <2>0 DEF Hand, InTime
        <5>2. age[x] \in Nat /\ age'[x] \in Nat /\ age'[x] <= age[x] + 1
          BY <1>a, <1>1, <2>0
        <5> HIDE DEF n, b
        <5> QED
          BY <4>1, <4>2, <5>1, <5>2
      <4> QED
        BY <2>1, <4>3 DEF InTime
    <3> QED
      BY <3>1, <3>2
  <2> QED
    BY <2>1, <2>2, <2>h, <2>3 DEF Hand
<1>5. overdue \subseteq overdue'
  BY DEF Tick
<1> QED
  BY <1>2, <1>3, <1>4, <1>5, AllStay

---------------------------------------------------------------------------
(* The theorems *)

\* Every step keeps the invariant.
LEMMA WebhookStep ==
  ASSUME WebhookInv, [Next]_vars
  PROVE  WebhookInv'
<1>1. ASSUME UNCHANGED vars PROVE WebhookInv'
  <2>0. TypeOK /\ \A x \in Deliveries : Queue(x) /\ age[x] \in Nat
    BY Options DEF WebhookInv, TypeOK
  <2>1. TypeOK'
    BY <1>1, <2>0 DEF TypeOK, vars, hookVars, rowVars, workVars
  <2>2. \A x \in Deliveries : Queue(x)'
    BY <1>1, <2>0, QueueKept DEF vars, hookVars, rowVars
  <2> QED
    BY <1>1, <2>0, <2>1, <2>2, OutsideInv DEF vars, rowVars, Bears
<1>2. ASSUME NEW p \in Dispatchers, Step(p) \/ Crash(p) PROVE WebhookInv'
  BY <1>2, ClaimInv, LookupInv, EmptyHandInv, PostInv, RecordDeliveredInv, RecordFailureInv DEF Step
<1> QED
  BY <1>1, <1>2, HookInv, EmitInv, CreateInv, TickInv DEF Next

\* The invariant holds of every reachable state.
LEMMA WebhookInvariant == Spec => []WebhookInv
<1>1. Init => WebhookInv
  <2> SUFFICES ASSUME Init PROVE WebhookInv
    OBVIOUS
  <2> USE ParameterAssumption, Options DEF Init
  <2>1. TypeOK
    BY DEF TypeOK, Phases
  <2>2. \A p \in Dispatchers : InHand(p) = {}
    BY DEF InHand
  <2>3. Apart /\ \A p \in Dispatchers : Hand(p)
    BY <2>2 DEF Apart, Hand, Working, Held, InTime
  <2>4. \A d \in Deliveries : Queue(d)
    <3> SUFFICES ASSUME NEW d \in Deliveries PROVE Queue(d)
      OBVIOUS
    <3>1. d[1] \in Events /\ d[2] \in Hooks
      BY DEF Deliveries
    <3> QED
      BY <3>1 DEF Queue
  <2> QED
    BY <2>1, <2>3, <2>4 DEF WebhookInv
<1>2. WebhookInv /\ [Next]_vars => WebhookInv'
  BY WebhookStep
<1> QED
  BY <1>1, <1>2, PTL DEF Spec

\* The types of the queue and of the dispatchers; a failure is never counted against
\* a row that does not exist.
THEOREM WebhookTypeCorrect == Spec => []TypeOK
<1>1. WebhookInv => TypeOK
  BY DEF WebhookInv
<1> QED
  BY <1>1, WebhookInvariant, PTL

\* ClaimDueWebhookDeliveries: two dispatchers have the same delivery in hand only if
\* its claim got stale in the hands of one, and that happens only behind so many
\* others of the batch that they take ClaimStale at Timeout each.
THEOREM DeliveryIsExclusive == Spec => []ExclusiveDelivery
<1>1. WebhookInv => ExclusiveDelivery
  BY StaleWaited DEF WebhookInv, ExclusiveDelivery, Apart
<1> QED
  BY <1>1, WebhookInvariant, PTL

\* recordFailure and RecordWebhookDeliveryResult: a delivery is delivered only if it
\* was received and dead only after MaxAttempts failures, after exactly so many
\* unless it was overdue.
THEOREM DeliverySettledRightly == Spec => []SettledRightly
<1>1. WebhookInv => SettledRightly
  BY DEF WebhookInv, Queue, SettledRightly, DeadMeansExhausted, DeliveredWasAccepted
<1> QED
  BY <1>1, WebhookInvariant, PTL

---------------------------------------------------------------------------
(* Deliveries keep their promise *)

PromiseNext == [Promise!Next]_(Promise!vars)

LEMMA SameDeliveries == Promise!Deliveries = Deliveries
BY DEF Promise!Deliveries, Deliveries

\* Most steps are the queue's own business.
LEMMA SeenUnchanged ==
  ASSUME UNCHANGED <<status, attempts, accepted, overdue>>
  PROVE  PromiseNext
<1>1. Outcome' = Outcome
  BY DEF Outcome
<1> QED BY <1>1 DEF PromiseNext, Promise!vars

LEMMA DropRefines ==
  ASSUME WebhookInv, NEW h \in Hooks, DeleteWebhook(h)
  PROVE  PromiseNext
<1>1. TypeOK /\ UNCHANGED <<accepted, overdue>>
  BY DEF WebhookInv, DeleteWebhook
<1>2. /\ status' = [d \in Deliveries |->
                      IF d[2] = h /\ status[d] # "none" THEN "gone" ELSE status[d]]
      /\ attempts' = [d \in Deliveries |->
                        IF d[2] = h /\ status[d] # "none" THEN 0 ELSE attempts[d]]
  BY DEF DeleteWebhook
<1>3. \A d \in Deliveries : Outcome[d] = "none" <=> status[d] = "none"
  BY DEF Outcome
<1>4. Outcome' = [d \in Deliveries |->
                    IF d[2] = h /\ Outcome[d] # "none" THEN "gone" ELSE Outcome[d]]
  BY <1>1, <1>2, <1>3 DEF Outcome
<1>5. attempts' = [d \in Deliveries |->
                     IF d[2] = h /\ Outcome[d] # "none" THEN 0 ELSE attempts[d]]
  BY <1>2, <1>3
<1>6. Promise!Drop(h)
  BY <1>1, <1>4, <1>5, SameDeliveries DEF Promise!Drop
<1> QED BY <1>6 DEF PromiseNext, Promise!Next

\* Emit's loop has one insert for each webhook.
LEMMA EnqueueRefines ==
  ASSUME WebhookInv, NEW e \in Events, NEW h \in Hooks, CreateWebhookDelivery(e, h)
  PROVE  PromiseNext
<1> DEFINE d == <<e, h>>
<1>1. d \in Deliveries /\ TypeOK /\ UNCHANGED <<attempts, accepted, overdue>>
  BY DEF WebhookInv, CreateWebhookDelivery, Deliveries
<1>2. status[d] = "none" /\ d \notin overdue
  BY <1>1 DEF WebhookInv, CreateWebhookDelivery, Queue, Deliveries
<1>3. CASE status' = [status EXCEPT ![d] = "pending"]
  <2>1. Outcome[d] = "none" /\ Outcome' = [Outcome EXCEPT ![d] = "queued"]
    BY <1>1, <1>2, <1>3 DEF Outcome, TypeOK
  <2>2. Promise!Enqueue(d)
    BY <1>1, <2>1 DEF Promise!Enqueue
  <2> QED BY <1>1, <2>2, SameDeliveries DEF PromiseNext, Promise!Next
<1>4. CASE UNCHANGED status
  BY <1>1, <1>4, SeenUnchanged
<1> QED BY <1>3, <1>4 DEF CreateWebhookDelivery

\* Only what is not settled, or is overdue, is in hand, so that nothing else is sent.
LEMMA ReceiveRefines ==
  ASSUME WebhookInv, NEW p \in Dispatchers, Post(p)
  PROVE  PromiseNext
<1>1. /\ cur[p] \in Deliveries /\ status[cur[p]] # "none"
      /\ cur[p] \in overdue \/ status[cur[p]] \in {"pending", "failed", "gone"}
  BY DEF WebhookInv, Post, Hand, Working, Held, InHand
<1>2. UNCHANGED <<status, attempts, overdue>>
  BY DEF Post, rowVars
<1>3. CASE accepted' = accepted \cup {cur[p]}
  <2>1. Outcome[cur[p]] \in {"queued", "overdue", "gone"} /\ Outcome' = Outcome
    BY <1>1, <1>2 DEF Outcome
  <2>2. Promise!Receive(cur[p])
    BY <1>2, <1>3, <2>1 DEF Promise!Receive
  <2> QED BY <1>1, <2>2, SameDeliveries DEF PromiseNext, Promise!Next
<1>4. CASE accepted' = accepted
  BY <1>2, <1>4, SeenUnchanged
<1> QED BY <1>3, <1>4 DEF Post

LEMMA SucceedRefines ==
  ASSUME WebhookInv, NEW p \in Dispatchers, RecordDelivered(p)
  PROVE  PromiseNext
<1>1. PICK d \in Deliveries : d = cur[p]
  BY CurrentIs DEF RecordDelivered
<1>2. /\ TypeOK /\ d \in accepted /\ status[d] # "none"
      /\ d \in overdue \/ status[d] \in {"pending", "failed", "gone"}
  BY <1>1, CurrentIs DEF RecordDelivered, WebhookInv, Hand, Working
<1>3. UNCHANGED <<attempts, accepted, overdue>>
  BY DEF RecordDelivered
<1>4. CASE status' = [status EXCEPT ![d] = IF @ = "gone" THEN @ ELSE "delivered"]
  <2>1. CASE status[d] = "gone"
    <3>1. status' = status
      BY <1>2, <1>4, <2>1 DEF TypeOK
    <3> QED BY <1>3, <3>1, SeenUnchanged
  <2>o. CASE status[d] # "gone" /\ d \in overdue
    <3>1. Outcome' = Outcome
      BY <1>2, <1>3, <1>4, <2>o DEF Outcome, TypeOK
    <3> QED BY <1>3, <3>1 DEF PromiseNext, Promise!vars
  <2>2. CASE status[d] # "gone" /\ d \notin overdue
    <3>1. Outcome[d] = "queued" /\ Outcome' = [Outcome EXCEPT ![d] = "delivered"]
      BY <1>2, <1>3, <1>4, <2>2 DEF Outcome, TypeOK
    <3>2. Promise!Succeed(d)
      BY <1>2, <1>3, <3>1 DEF Promise!Succeed
    <3> QED BY <3>2, SameDeliveries DEF PromiseNext, Promise!Next
  <2> QED BY <2>1, <2>o, <2>2
<1>5. CASE UNCHANGED status
  BY <1>3, <1>5, SeenUnchanged
<1> QED BY <1>1, <1>4, <1>5 DEF RecordDelivered

\* The outcome is decided from the attempts the claim returned, which are still the
\* row's unless the delivery is overdue.
LEMMA FailRefines ==
  ASSUME WebhookInv, NEW p \in Dispatchers, RecordFailure(p)
  PROVE  PromiseNext
<1> USE Options
<1>1. PICK d \in Deliveries : d = cur[p]
  BY CurrentIs DEF RecordFailure
<1>2. TypeOK /\ attempts[d] \in Nat /\ UNCHANGED <<accepted, overdue>>
  BY DEF RecordFailure, WebhookInv, TypeOK
<1> DEFINE delay == RetryDelay(snap[p][d] + 1)
<1>3. CASE UNCHANGED rowVars
  BY <1>2, <1>3, SeenUnchanged DEF rowVars
<1>4. CASE /\ status[d] # "gone"
           /\ status' = [status EXCEPT ![d] = IF delay >= 0 THEN "failed" ELSE "dead"]
           /\ attempts' = [attempts EXCEPT ![d] = @ + 1]
           /\ d \notin overdue
  <2>1. /\ status[d] \in {"pending", "failed"}
        /\ snap[p][d] = attempts[d] /\ attempts[d] < MaxAttempts
    BY <1>1, <1>4, CurrentIs DEF RecordFailure
  <2>2. attempts[d] + 1 \in Nat \ {0} /\ attempts[d] + 1 <= MaxAttempts /\ snap[p][d] + 1 = attempts[d] + 1
    BY <1>2, <2>1
  <2>3. status' = [status EXCEPT ![d] = IF attempts[d] + 1 = MaxAttempts THEN "dead" ELSE "failed"]
    <3>1. CASE attempts[d] + 1 < MaxAttempts
      <4>1. delay \in 0 .. MaxDelay
        BY <2>2, <3>1, Delays
      <4> HIDE DEF delay
      <4>2. delay >= 0 /\ attempts[d] + 1 # MaxAttempts
        BY <1>2, <3>1, <4>1
      <4> QED BY <1>4, <4>2
    <3>2. CASE attempts[d] + 1 = MaxAttempts
      <4>1. delay = -1
        BY <2>2, <3>2, Delays
      <4> HIDE DEF delay
      <4>2. ~(delay >= 0)
        BY <4>1
      <4> QED BY <1>4, <3>2, <4>2
    <3> QED BY <2>2, <3>1, <3>2
  <2>4. Outcome[d] = "queued"
    BY <1>4, <2>1 DEF Outcome
  <2>5. Outcome' = [Outcome EXCEPT ![d] = IF attempts[d] + 1 = MaxAttempts THEN "dead" ELSE "queued"]
    <3>1. CASE attempts[d] + 1 = MaxAttempts
      BY <1>2, <1>4, <2>3, <3>1 DEF Outcome, TypeOK
    <3>2. CASE attempts[d] + 1 # MaxAttempts
      BY <1>2, <1>4, <2>3, <3>2 DEF Outcome, TypeOK
    <3> QED BY <3>1, <3>2
  <2>6. Promise!FailOnce(d)
    BY <1>2, <1>4, <2>1, <2>4, <2>5 DEF Promise!FailOnce
  <2> QED BY <2>6, SameDeliveries DEF PromiseNext, Promise!Next
<1>5. CASE /\ status[d] # "gone"
           /\ status' = [status EXCEPT ![d] = IF delay >= 0 THEN "failed" ELSE "dead"]
           /\ attempts' = [attempts EXCEPT ![d] = @ + 1]
           /\ d \in overdue
  <2>0. status[d] # "none"
    BY <1>1, CurrentIs DEF RecordFailure
  <2>1. status'[d] \in {"failed", "dead"} /\ \A x \in Deliveries \ {d} : status'[x] = status[x]
    BY <1>2, <1>5 DEF TypeOK
  <2>2. Outcome[d] = "overdue" /\ Outcome' = Outcome
    BY <1>2, <1>5, <2>0, <2>1 DEF Outcome
  <2>3. Promise!FailLate(d)
    BY <1>2, <1>5, <2>2 DEF Promise!FailLate
  <2> QED BY <2>3, SameDeliveries DEF PromiseNext, Promise!Next
<1> QED BY <1>1, <1>3, <1>4, <1>5 DEF RecordFailure

\* What gets stale in somebody's hands is queued, overdue already, or gone.
LEMMA RunOutRefines ==
  ASSUME WebhookInv, Tick
  PROVE  PromiseNext
<1> DEFINE S == {d \in RunningOut \ overdue : status[d] # "gone"}
<1>1. UNCHANGED <<status, attempts, accepted>> /\ overdue' = overdue \cup RunningOut
  BY DEF Tick
<1>2. \A d \in S : d \in Deliveries /\ d \notin overdue /\ status[d] \in {"pending", "failed"}
  BY DEF WebhookInv, TypeOK, Hand, Held, RunningOut
<1>3. \A d \in S : Outcome[d] = "queued"
  BY <1>2 DEF Outcome
<1>4. ASSUME NEW d \in Deliveries
      PROVE  Outcome'[d] = IF d \in S THEN "overdue" ELSE Outcome[d]
  <2>1. status[d] # "none" \/ d \notin RunningOut
    BY DEF WebhookInv, Hand, Held, RunningOut
  <2> QED
    BY <1>1, <1>2, <2>1 DEF Outcome
<1>5. Outcome' = [d \in Deliveries |-> IF d \in S THEN "overdue" ELSE Outcome[d]]
  <2>1. Outcome' = [d \in Deliveries |-> Outcome'[d]]
    BY DEF Outcome
  <2> HIDE DEF S
  <2> QED
    BY <1>4, <2>1
<1>6. S \in SUBSET Deliveries /\ Promise!RunOut(S)
  BY <1>1, <1>2, <1>3, <1>5, SameDeliveries DEF Promise!RunOut
<1> QED BY <1>6, SameDeliveries DEF PromiseNext, Promise!Next

\* Dispatchers, claims, timeouts and retries implement a queue that tries every
\* delivery until it is settled, and then leaves it alone; only a queued delivery
\* whose claim gets stale in its dispatcher's hands (dispatcher.go, claimStaleAfter)
\* leaves the promise.
THEOREM DeliveriesImplementPromise == Spec => DeliveriesKeepPromise
<1>1. Init => Promise!Init
  BY SameDeliveries DEF Init, Promise!Init, Outcome
<1>2. WebhookInv /\ [Next]_vars => PromiseNext
  <2> SUFFICES ASSUME WebhookInv, [Next]_vars PROVE PromiseNext
    OBVIOUS
  <2>1. ASSUME NEW h \in Hooks, SetWebhookDisabled(h) \/ SetWebhookEnabled(h)
        PROVE  PromiseNext
    BY <2>1, SeenUnchanged DEF SetWebhookDisabled, SetWebhookEnabled, rowVars
  <2>2. ASSUME NEW e \in Events, Emit(e) PROVE PromiseNext
    BY <2>2, SeenUnchanged DEF Emit, rowVars
  <2>3. ASSUME NEW p \in Dispatchers, Claim(p) \/ Lookup(p) \/ EndTick(p) \/ Crash(p)
        PROVE  PromiseNext
    BY <2>3, SeenUnchanged DEF Claim, Lookup, EndTick, Crash, rowVars
  <2>4. ASSUME UNCHANGED vars PROVE PromiseNext
    BY <2>4, SeenUnchanged DEF vars, rowVars
  <2> QED
    BY <2>1, <2>2, <2>3, <2>4, DropRefines, EnqueueRefines, ReceiveRefines, SucceedRefines,
       FailRefines, RunOutRefines DEF Next, Step
<1> QED
  BY <1>1, <1>2, WebhookInvariant, PTL
  DEF Spec, DeliveriesKeepPromise, Promise!Spec, PromiseNext
=============================================================================
