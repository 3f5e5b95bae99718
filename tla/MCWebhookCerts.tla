--------------------------- MODULE MCWebhookCerts ---------------------------
(* Two managers that start together, or one whose wait for readiness is    *)
(* followed and which is disturbed twice, or runs of cert-generator.       *)
EXTENDS WebhookCerts

CONSTANTS m1, m2, m3, g

MCManager == {m1, m2, m3}
MCProcess == MCManager \cup {g}
MCGroups == {{m1, m2}, {m3}, {g}}
MCEvents == [x \in MCGroups |-> IF x = {m3} THEN 2 ELSE 1]
MCStamp == 1 .. 4
MCDisturbance == {"fail", "file", "crash", "expire", "delete", "reset"}
=============================================================================
