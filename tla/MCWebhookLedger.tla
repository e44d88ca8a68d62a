-------------------------- MODULE MCWebhookLedger --------------------------
(* Instances of WebhookLedger for TLC.                                      *)
EXTENDS WebhookLedger

=============================================================================
