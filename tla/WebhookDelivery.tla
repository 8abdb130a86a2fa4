--------------------------- MODULE WebhookDelivery ---------------------------
(***************************************************************************)
(* The webhook dispatcher (internal/webhooks/dispatcher.go) over the       *)
(* webhook_deliveries queue (internal/store/webhook.go), with one          *)
(* dispatcher per replica.                                                 *)
(*                                                                         *)
(* Time is discrete and only its differences are kept: the age of a claim, *)
(* the wait until next_attempt, the time spent on the delivery in hand.    *)
(* One delivery (its lookup, its POST and the record of its outcome) takes *)
(* at most Timeout units.  A fault is a crash of a dispatcher or a failed  *)
(* database write; a run has at most MaxFaults of them.                    *)
(***************************************************************************)
EXTENDS Integers, FiniteSets, FiniteSetsExt

CONSTANTS
  Events,       \* audit records, each emitted once
  Hooks,        \* webhooks
  Matches,      \* the hooks whose filter matches each event
  Dispatchers,  \* one per replica
  Batch,        \* how many deliveries a tick claims at most
  MaxAttempts,  \* failed attempts before a delivery is dead
  Timeout,      \* bound on one delivery
  ClaimStale,   \* age at which a claim is taken for abandoned
  Backoff,      \* delay after the first failure
  MaxDelay,     \* bound on the delay
  Undecryptable,\* hooks whose signing key can no longer be decrypted
  MaxFaults     \* bound on crashes and failed writes

ASSUME ParameterAssumption ==
  /\ Matches \in [Events -> SUBSET Hooks]
  /\ {Batch, MaxAttempts, Timeout, ClaimStale, Backoff, MaxDelay} \subseteq Nat \ {0}
  /\ Undecryptable \subseteq Hooks
  /\ MaxFaults \in Nat
  /\ IsFiniteSet(Events) /\ IsFiniteSet(Hooks)

\* What the proofs need of powers, for which the provers have no rules.
ASSUME PowerAssumption == \A n \in 0 .. MaxAttempts : 2^n \in Nat

\* The row of webhook_deliveries for an event and a webhook.
Deliveries == Events \X Hooks

NoDelivery == <<>>

VARIABLES
  hook,      \* each webhook: "enabled", "disabled" or "deleted"
  emitted,   \* the events whose Emit has read the webhooks
  todo,      \* the webhooks that Emit has still to enqueue each event for
  status,    \* webhook_deliveries.status; "none" before, "gone" after the row
  attempts,  \* webhook_deliveries.attempts
  wait,      \* time until next_attempt
  claimed,   \* the rows with a claimed_at
  age,       \* time since claimed_at, up to ClaimStale
  work,      \* the deliveries a dispatcher claimed and has not started on
  cur,       \* the delivery a dispatcher is working on
  snap,      \* attempts of each delivery as the dispatcher's claim returned it
  phase,     \* what the dispatcher does next
  elapsed,   \* time spent on cur
  accepted,  \* ghost: the deliveries some POST of which was received
  overdue,   \* ghost: the deliveries whose claim got stale in somebody's hands
  faults     \* crashes and failed writes so far

rowVars == <<status, attempts, wait, claimed, age>>
hookVars == <<hook, emitted, todo>>
workVars == <<work, cur, snap, phase, elapsed>>
vars == <<hookVars, rowVars, workVars, accepted, overdue, faults>>

Phases == {"idle", "next", "post", "ok", "fail"}

TypeOK ==
  /\ hook \in [Hooks -> {"enabled", "disabled", "deleted"}]
  /\ emitted \in SUBSET Events
  /\ todo \in [Events -> SUBSET Hooks]
  /\ status \in [Deliveries -> {"none", "pending", "failed", "delivered", "dead", "gone"}]
  /\ attempts \in [Deliveries -> Nat]
  /\ wait \in [Deliveries -> 0..MaxDelay]
  /\ claimed \in SUBSET Deliveries
  /\ age \in [Deliveries -> 0..ClaimStale]
  /\ work \in [Dispatchers -> SUBSET Deliveries]
  /\ cur \in [Dispatchers -> Deliveries \cup {NoDelivery}]
  /\ snap \in [Dispatchers -> [Deliveries -> Nat]]
  /\ phase \in [Dispatchers -> Phases]
  /\ elapsed \in [Dispatchers -> 0..Timeout]
  /\ accepted \in SUBSET Deliveries
  /\ overdue \in SUBSET Deliveries
  /\ faults \in 0..MaxFaults

Init ==
  /\ hook = [h \in Hooks |-> "enabled"]
  /\ emitted = {}
  /\ todo = [e \in Events |-> {}]
  /\ status = [d \in Deliveries |-> "none"]
  /\ attempts = [d \in Deliveries |-> 0]
  /\ wait = [d \in Deliveries |-> 0]
  /\ claimed = {}
  /\ age = [d \in Deliveries |-> 0]
  /\ work = [p \in Dispatchers |-> {}]
  /\ cur = [p \in Dispatchers |-> NoDelivery]
  /\ snap = [p \in Dispatchers |-> [d \in Deliveries |-> 0]]
  /\ phase = [p \in Dispatchers |-> "idle"]
  /\ elapsed = [p \in Dispatchers |-> 0]
  /\ accepted = {}
  /\ overdue = {}
  /\ faults = 0

Fault == faults < MaxFaults /\ faults' = faults + 1

Goto(p, label) == phase' = [phase EXCEPT ![p] = label]

\* deliver returns; the next delivery has Timeout units again.
NextDelivery(p, d) ==
  /\ Goto(p, "next")
  /\ elapsed' = [elapsed EXCEPT ![p] = 0]
  /\ cur' = [cur EXCEPT ![p] = NoDelivery]
  /\ snap' = [snap EXCEPT ![p][d] = 0]

\* claimed_at is set to NULL.
Unclaim(S) ==
  /\ claimed' = claimed \ S
  /\ age' = [d \in Deliveries |-> IF d \in S THEN 0 ELSE age[d]]

---------------------------------------------------------------------------
(* The webhooks and the events *)

SetWebhookDisabled(h) ==
  /\ hook[h] = "enabled"
  /\ hook' = [hook EXCEPT ![h] = "disabled"]
  /\ UNCHANGED <<emitted, todo, rowVars, workVars, accepted, overdue, faults>>

SetWebhookEnabled(h) ==
  /\ hook[h] = "disabled"
  /\ hook' = [hook EXCEPT ![h] = "enabled"]
  /\ UNCHANGED <<emitted, todo, rowVars, workVars, accepted, overdue, faults>>

\* The foreign key deletes the webhook's deliveries with it.
DeleteWebhook(h) ==
  /\ hook[h] # "deleted"
  /\ hook' = [hook EXCEPT ![h] = "deleted"]
  /\ LET rows == {d \in Deliveries : d[2] = h /\ status[d] # "none"} IN
       /\ status' = [d \in Deliveries |-> IF d \in rows THEN "gone" ELSE status[d]]
       /\ attempts' = [d \in Deliveries |-> IF d \in rows THEN 0 ELSE attempts[d]]
       /\ wait' = [d \in Deliveries |-> IF d \in rows THEN 0 ELSE wait[d]]
       /\ Unclaim(rows)
  /\ UNCHANGED <<emitted, todo, workVars, accepted, overdue, faults>>

\* Emit, up to its loop: the webhooks to notify of the event, nobody when they
\* cannot be listed.
Emit(e) ==
  /\ e \notin emitted
  /\ emitted' = emitted \cup {e}
  /\ \/ /\ todo' = [todo EXCEPT ![e] = {h \in Matches[e] : hook[h] = "enabled"}]
        /\ UNCHANGED faults
     \/ Fault /\ UNCHANGED todo
  /\ UNCHANGED <<hook, rowVars, workVars, accepted, overdue>>

\* CreateWebhookDelivery for one of them.  The insert fails on the foreign key
\* if the webhook was deleted meanwhile; Emit only logs a failed insert.
CreateWebhookDelivery(e, h) ==
  /\ h \in todo[e]
  /\ todo' = [todo EXCEPT ![e] = @ \ {h}]
  /\ \/ /\ hook[h] # "deleted"
        /\ status' = [status EXCEPT ![<<e, h>>] = "pending"]
        /\ UNCHANGED faults
     \/ hook[h] = "deleted" /\ UNCHANGED <<status, faults>>
     \/ Fault /\ UNCHANGED status
  /\ UNCHANGED <<hook, emitted, attempts, wait, claimed, age, workVars, accepted, overdue>>

---------------------------------------------------------------------------
(* A dispatcher *)

\* Mutant: the claim conditions ignore claimed_at.
DueUnclaimed(d) ==
  status[d] = "pending" \/ (status[d] = "failed" /\ wait[d] = 0)

\* The WHERE of ClaimDueWebhookDeliveries.
Due(d) ==
  /\ status[d] = "pending" \/ (status[d] = "failed" /\ wait[d] = 0)
  /\ d \notin claimed \/ age[d] >= ClaimStale

\* tick: one UPDATE ... RETURNING claims the due rows, up to the limit.
Claim(p) ==
  LET due == {d \in Deliveries : Due(d)} IN
  /\ phase[p] = "idle"
  /\ due # {}
  /\ \E S \in SUBSET due :
       /\ Cardinality(S) = Min({Batch, Cardinality(due)})
       /\ claimed' = claimed \cup S
       /\ age' = [d \in Deliveries |-> IF d \in S THEN 0 ELSE age[d]]
       /\ work' = [work EXCEPT ![p] = S]
       /\ snap' = [snap EXCEPT ![p] = [d \in Deliveries |-> IF d \in S THEN attempts[d] ELSE 0]]
  /\ Goto(p, "next")
  /\ UNCHANGED <<hookVars, status, attempts, wait, cur, elapsed, accepted, overdue, faults>>

\* deliver, up to the POST.  A webhook that is gone, that cannot be read just
\* now, or whose key cannot be decrypted, ends the attempt with nothing
\* recorded.  Whether the webhook is disabled is not looked at.
Lookup(p) ==
  /\ phase[p] = "next"
  /\ \E d \in work[p] :
       /\ work' = [work EXCEPT ![p] = @ \ {d}]
       /\ \/ /\ hook[d[2]] = "deleted" \/ d[2] \in Undecryptable
             /\ NextDelivery(p, d)
             /\ UNCHANGED faults
          \/ Fault /\ NextDelivery(p, d)
          \/ /\ hook[d[2]] # "deleted" /\ d[2] \notin Undecryptable
             /\ cur' = [cur EXCEPT ![p] = d]
             /\ Goto(p, "post")
             /\ UNCHANGED <<elapsed, snap, faults>>
  /\ UNCHANGED <<hookVars, rowVars, accepted, overdue>>

\* The tick's loop is over.
EndTick(p) ==
  /\ phase[p] = "next"
  /\ work[p] = {}
  /\ Goto(p, "idle")
  /\ elapsed' = [elapsed EXCEPT ![p] = 0]
  /\ UNCHANGED <<hookVars, rowVars, work, cur, snap, accepted, overdue, faults>>

\* Mutant: any answer counts as delivered.
PostAnyAnswer(p) ==
  /\ phase[p] = "post"
  /\ Goto(p, "ok")
  /\ accepted' \in {accepted, accepted \cup {cur[p]}}
  /\ UNCHANGED <<hookVars, rowVars, work, cur, snap, elapsed, overdue, faults>>

\* The POST: answered with a 2xx, or with anything else, or not at all; in the
\* last case the endpoint may have received it all the same.
Post(p) ==
  /\ phase[p] = "post"
  /\ \/ Goto(p, "ok") /\ accepted' = accepted \cup {cur[p]}
     \/ Goto(p, "fail") /\ accepted' \in {accepted, accepted \cup {cur[p]}}
  /\ UNCHANGED <<hookVars, rowVars, work, cur, snap, elapsed, overdue, faults>>

\* RecordWebhookDeliveryResult, delivered: unconditional.  Its error is ignored.
RecordDelivered(p) ==
  LET d == cur[p] IN
  /\ phase[p] = "ok"
  /\ NextDelivery(p, d)
  /\ \/ /\ status' = [status EXCEPT ![d] = IF @ = "gone" THEN @ ELSE "delivered"]
        /\ Unclaim({d})
        /\ UNCHANGED faults
     \/ Fault /\ UNCHANGED <<status, claimed, age>>
  /\ UNCHANGED <<hookVars, attempts, wait, work, accepted, overdue>>

\* Mutant: the delay is not capped.
RetryDelayUncapped(n) == IF n < MaxAttempts THEN Backoff * 2^(n - 1) ELSE -1

\* recordFailure: the delay before the next attempt after n failures, -1 when
\* the delivery is given up.  The shift of an int64 number of nanoseconds is exact
\* at the attempts that are retried (n < MaxAttempts, 5 by default).
RetryDelay(n) ==
  IF n < MaxAttempts THEN Min({MaxDelay, Backoff * 2^(n - 1)}) ELSE -1

\* Mutant: a failed attempt is not counted.
RecordFailureUncounted(p) ==
  LET d == cur[p]
      delay == RetryDelay(snap[p][d] + 1)
  IN
  /\ phase[p] = "fail"
  /\ NextDelivery(p, d)
  /\ status' = [status EXCEPT ![d] = IF @ = "gone" THEN @
                                     ELSE IF delay >= 0 THEN "failed" ELSE "dead"]
  /\ wait' = [wait EXCEPT ![d] = IF delay >= 0 THEN delay ELSE 0]
  /\ Unclaim({d})
  /\ UNCHANGED <<hookVars, attempts, work, accepted, overdue, faults>>

\* recordFailure: the outcome is decided from the attempts the claim returned,
\* the row's own attempts is incremented.
RecordFailure(p) ==
  LET d == cur[p]
      delay == RetryDelay(snap[p][d] + 1)
  IN
  /\ phase[p] = "fail"
  /\ NextDelivery(p, d)
  /\ \/ /\ status[d] # "gone"
        /\ status' = [status EXCEPT ![d] = IF delay >= 0 THEN "failed" ELSE "dead"]
        /\ attempts' = [attempts EXCEPT ![d] = @ + 1]
        /\ wait' = [wait EXCEPT ![d] = IF delay >= 0 THEN delay ELSE 0]
        /\ Unclaim({d})
        /\ UNCHANGED faults
     \/ status[d] = "gone" /\ UNCHANGED <<rowVars, faults>>
     \/ Fault /\ UNCHANGED rowVars
  /\ UNCHANGED <<hookVars, work, accepted, overdue>>

\* The replica crashes or restarts: what it claimed stays claimed.
Crash(p) ==
  /\ phase[p] # "idle"
  /\ Fault
  /\ Goto(p, "idle")
  /\ work' = [work EXCEPT ![p] = {}]
  /\ snap' = [snap EXCEPT ![p] = [d \in Deliveries |-> 0]]
  /\ elapsed' = [elapsed EXCEPT ![p] = 0]
  /\ cur' = [cur EXCEPT ![p] = NoDelivery]
  /\ UNCHANGED <<hookVars, rowVars, accepted, overdue>>

\* The deliveries p has claimed and not finished with.
InHand(p) == work[p] \cup (IF phase[p] \in {"post", "ok", "fail"} THEN {cur[p]} ELSE {})

\* The claims that are in somebody's hands and that one more unit makes stale.
RunningOut ==
  {d \in claimed : age[d] + 1 >= ClaimStale /\ \E p \in Dispatchers : d \in InHand(p)}

\* One unit of time passes; no delivery takes longer than Timeout.
Tick ==
  /\ \A p \in Dispatchers : phase[p] = "idle" \/ elapsed[p] < Timeout
  /\ elapsed' = [p \in Dispatchers |-> IF phase[p] = "idle" THEN 0 ELSE elapsed[p] + 1]
  /\ age' = [d \in Deliveries |->
               IF d \in claimed THEN Min({ClaimStale, age[d] + 1}) ELSE age[d]]
  /\ wait' = [d \in Deliveries |-> IF wait[d] > 0 THEN wait[d] - 1 ELSE 0]
  /\ overdue' = overdue \cup RunningOut
  /\ UNCHANGED <<hookVars, status, attempts, claimed, work, cur, snap, phase, accepted, faults>>

Step(p) ==
  Claim(p) \/ Lookup(p) \/ EndTick(p) \/ Post(p) \/ RecordDelivered(p) \/ RecordFailure(p)

Next ==
  \/ \E h \in Hooks : SetWebhookDisabled(h) \/ SetWebhookEnabled(h) \/ DeleteWebhook(h)
  \/ \E e \in Events : Emit(e)
  \/ \E e \in Events, h \in Hooks : CreateWebhookDelivery(e, h)
  \/ \E p \in Dispatchers : Step(p) \/ Crash(p)
  \/ Tick

Spec == Init /\ [][Next]_vars

\* Time passes, and every dispatcher's loop runs.
FairSpec == Spec /\ WF_vars(Tick) /\ \A p \in Dispatchers : WF_vars(Step(p))

---------------------------------------------------------------------------
(* Properties *)

\* ClaimDueWebhookDeliveries: "two dispatchers polling concurrently must never
\* both deliver the same event".  Not so at the defaults: a dispatcher that is
\* still busy with a batch of 100 is overtaken after two minutes.
NeverInTwoHands ==
  \A p, q \in Dispatchers : p # q => InHand(p) \cap InHand(q) = {}

\* A claim gets stale in its dispatcher's hands only behind other deliveries of
\* the batch: those done by then and the one in hand took ClaimStale together.
StaleBehindOthers ==
  \A p \in Dispatchers : \A d \in InHand(p) : age[d] >= ClaimStale =>
    ClaimStale <= (Batch - Cardinality(InHand(p)) + 1) * Timeout

\* What the claim gives two dispatchers that poll concurrently, whatever crashes
\* and fails: a delivery is in two hands only if its claim got stale in one of
\* them, which happens only to what waits behind the rest of a long batch.
ExclusiveDelivery ==
  /\ \A p, q \in Dispatchers : p # q => InHand(p) \cap InHand(q) \subseteq overdue
  /\ StaleBehindOthers

\* A dead delivery has MaxAttempts recorded failures at least.  Unless its claim
\* once got stale in somebody's hands, it has exactly that many, and one that
\* will be retried has fewer.
DeadMeansExhausted ==
  /\ \A d \in Deliveries : status[d] = "dead" => attempts[d] >= MaxAttempts
  /\ \A d \in Deliveries \ overdue :
       /\ status[d] = "dead" => attempts[d] = MaxAttempts
       /\ status[d] \in {"pending", "failed"} => attempts[d] < MaxAttempts

\* A delivery marked delivered was received by its endpoint.
DeliveredWasAccepted ==
  \A d \in Deliveries : status[d] = "delivered" => d \in accepted

\* recordFailure decides from the attempts its claim returned, and yet a delivery
\* is settled only for the reason it says, whatever crashed, failed, was claimed
\* again or delivered twice on the way.
SettledRightly == DeadMeansExhausted /\ DeliveredWasAccepted

\* A delivery as its subscriber sees it: retries are the queue's own business.
Outcome ==
  [d \in Deliveries |->
     IF status[d] \notin {"none", "gone"} /\ d \in overdue THEN "overdue"
     ELSE IF status[d] \in {"pending", "failed"} THEN "queued" ELSE status[d]]

Promise == INSTANCE DeliveryPromise WITH
             outcome <- Outcome, tries <- attempts, received <- accepted

\* With any dispatchers, crashes and failed writes, a delivery behaves as if one
\* dispatcher tried it until it is settled: each failure is counted once, it is
\* dead at the last one, delivered only when it was received, and no late result
\* of another dispatcher revives it or counts against it.  Only a delivery whose
\* claim gets stale in somebody's hands, while it is queued, falls out of this.
DeliveriesKeepPromise == Promise!Spec

\* Delivery is durable: whatever crashes and fails, a queued delivery ends up
\* delivered or dead, unless its webhook is deleted or disabled on the way or its
\* key is unusable.
EventuallySettled ==
  \A d \in Deliveries :
    status[d] = "pending" /\ d[2] \notin Undecryptable
      ~> status[d] \in {"delivered", "dead", "gone"} \/ hook[d[2]] = "disabled"

\* docs/observability.md: "queued deliveries for a disabled webhook are simply
\* skipped".  No POST is prepared for a webhook that is disabled at its lookup.
\* Not so: deliver does not look at it (WebhookDisabled.cfg).
DisabledIsSkipped ==
  [][\A p \in Dispatchers : phase[p] = "next" /\ phase'[p] = "post" =>
       hook[cur'[p][2]] # "disabled"]_vars
=============================================================================
