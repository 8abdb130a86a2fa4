---------------------------- MODULE MCPortalPage ----------------------------
(* PortalPage with the sections of ca_import.html, secrets.html and ca_new.html. *)
EXTENDS PortalPage, TLC

CONSTANTS r1, r2, b1

\* The data-mode sections of ca_import.html; "default" is inside "chain".
MCModeSections == <<"request", "cert", "key", "chain", "default">>

MCWant ==
  ("request" :> {"request"}) @@ ("cert" :> {"with-key", "anchor"}) @@
  ("key" :> {"with-key"}) @@ ("chain" :> {"with-key", "anchor"}) @@
  ("default" :> {"with-key"}) @@ ("cert-field" :> {"certificate"}) @@
  ("parent" :> {"intermediate"})

MCInside ==
  ("request" :> {"name"}) @@ ("cert" :> {"name_import", "cert_pem"}) @@
  ("key" :> {"key_pem"}) @@ ("chain" :> {"chain_pem", "make_default"}) @@
  ("default" :> {"make_default"}) @@ ("cert-field" :> {"cert_id"}) @@
  ("parent" :> {"parent_id"})

MCFields == UNION {MCInside[e] : e \in DOMAIN MCInside}

MCName == [f \in MCFields |-> IF f = "name_import" THEN "name" ELSE f]
=============================================================================
