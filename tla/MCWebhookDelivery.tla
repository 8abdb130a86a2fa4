------------------------- MODULE MCWebhookDelivery -------------------------
(* WebhookDelivery on small instances; see the cfg files and the README. *)
EXTENDS WebhookDelivery, TLC

CONSTANTS e1, e2, h1, p1, p2

\* Every webhook subscribes to every event.
MCMatches == [e \in Events |-> Hooks]
=============================================================================
