------------------------------ MODULE ApiClients ------------------------------
(***************************************************************************)
(* Who uses the monitor's REST API: what the parts of                      *)
(* packages/monitor/src/api have in common.                                *)
(***************************************************************************)
CONSTANT Client   \* API keys, or the one default client

=============================================================================
