---------------------------- MODULE OrderPromise ----------------------------
(***************************************************************************)
(* What the ACME server promises about orders: an order is placed by one   *)
(* account for good, one certificate at most is issued for it, and once it *)
(* has delivered its certificate it never takes it back.  Each of the      *)
(* three is one atomic step here; AcmeOrders is the several-statement      *)
(* implementation, with requests that race, fail and crash.                *)
(***************************************************************************)
EXTENDS Naturals

CONSTANTS
  Orders,
  Accounts

VARIABLES
  holder,      \* the account that placed each order, as a set of at most one
  issued,      \* how many certificates were issued for each order
  delivered    \* the orders that name their certificate to their holder

vars == <<holder, issued, delivered>>

Init ==
  /\ holder = [o \in Orders |-> {}]
  /\ issued = [o \in Orders |-> 0]
  /\ delivered = {}

Place(o, a) ==
  /\ holder[o] = {}
  /\ holder' = [holder EXCEPT ![o] = {a}]
  /\ UNCHANGED <<issued, delivered>>

IssueOnce(o) ==
  /\ holder[o] # {} /\ issued[o] = 0
  /\ issued' = [issued EXCEPT ![o] = 1]
  /\ UNCHANGED <<holder, delivered>>

Deliver(o) ==
  /\ issued[o] = 1 /\ o \notin delivered
  /\ delivered' = delivered \cup {o}
  /\ UNCHANGED <<holder, issued>>

Next == \E o \in Orders : (\E a \in Accounts : Place(o, a)) \/ IssueOnce(o) \/ Deliver(o)

Spec == Init /\ [][Next]_vars
=============================================================================
