-------------------------- MODULE DeliveryPromise --------------------------
(***************************************************************************)
(* What the webhook queue promises: a delivery is tried until it succeeds  *)
(* or has failed MaxAttempts times, every failure counts once, what is     *)
(* settled stays so, and what was given up is not received any more.  A    *)
(* delivery that took longer than its claim lasts is out of this promise:  *)
(* it may be received, and fail, any number of times.                      *)
(* Delivery is at least once: the endpoint may receive what is then taken  *)
(* for a failure.  There are no dispatchers, claims and clocks here;       *)
(* WebhookDelivery is the implementation that has them.                    *)
(***************************************************************************)
EXTENDS Naturals

CONSTANTS
  Events, Hooks,
  MaxAttempts

VARIABLES
  outcome,    \* "none", "queued", "delivered", "dead", "overdue", or "gone" with
              \* its webhook
  tries,      \* how often each delivery has failed
  received    \* the deliveries whose endpoint received them

vars == <<outcome, tries, received>>

Deliveries == Events \X Hooks

Init ==
  /\ outcome = [d \in Deliveries |-> "none"]
  /\ tries = [d \in Deliveries |-> 0]
  /\ received = {}

Enqueue(d) ==
  /\ outcome[d] = "none"
  /\ outcome' = [outcome EXCEPT ![d] = "queued"]
  /\ UNCHANGED <<tries, received>>

\* The endpoint gets it; the answer may be lost, or the webhook be deleted meanwhile.
Receive(d) ==
  /\ outcome[d] \in {"queued", "overdue", "gone"}
  /\ received' = received \cup {d}
  /\ UNCHANGED <<outcome, tries>>

Succeed(d) ==
  /\ outcome[d] = "queued" /\ d \in received
  /\ outcome' = [outcome EXCEPT ![d] = "delivered"]
  /\ UNCHANGED <<tries, received>>

\* A failure is counted; the last one ends the delivery.
FailOnce(d) ==
  /\ outcome[d] = "queued" /\ tries[d] < MaxAttempts
  /\ tries' = [tries EXCEPT ![d] = @ + 1]
  /\ outcome' = [outcome EXCEPT ![d] = IF tries[d] + 1 = MaxAttempts THEN "dead" ELSE "queued"]
  /\ UNCHANGED received

\* The claims of some queued deliveries run out while they are being delivered.
RunOut(S) ==
  /\ \A d \in S : outcome[d] = "queued"
  /\ outcome' = [d \in Deliveries |-> IF d \in S THEN "overdue" ELSE outcome[d]]
  /\ UNCHANGED <<tries, received>>

\* Nobody knows any more which failure of such a delivery is the last.
FailLate(d) ==
  /\ outcome[d] = "overdue"
  /\ tries' = [tries EXCEPT ![d] = @ + 1]
  /\ UNCHANGED <<outcome, received>>

\* A webhook goes with all its deliveries.
Drop(h) ==
  /\ outcome' = [d \in Deliveries |->
                   IF d[2] = h /\ outcome[d] # "none" THEN "gone" ELSE outcome[d]]
  /\ tries' = [d \in Deliveries |-> IF d[2] = h /\ outcome[d] # "none" THEN 0 ELSE tries[d]]
  /\ UNCHANGED received

Next ==
  \/ \E d \in Deliveries : Enqueue(d) \/ Receive(d) \/ Succeed(d) \/ FailOnce(d) \/ FailLate(d)
  \/ \E S \in SUBSET Deliveries : RunOut(S)
  \/ \E h \in Hooks : Drop(h)

Spec == Init /\ [][Next]_vars
=============================================================================
