----------------------------- MODULE MCMonitorBot -----------------------------
(***************************************************************************)
(* The monitor bot, for TLC: the claims and streams of its REST API behind *)
(* the rate limiter, the API's watches with their webhooks, and the claim  *)
(* monitor that finds the claims.  A behaviour runs one of them, `part`,   *)
(* and the rest stays as it starts.                                        *)
(***************************************************************************)
EXTENDS ApiClaims, ApiWatches, MonitorClaims

\* One program, which every transaction mentions.
TouchedByAll == <<Sig>>

VARIABLE part

allVars == <<part, vars, apiWatchVars, monitorVars>>

BotInit == /\ part \in {"claims", "watches", "monitor"}
           /\ Init /\ WatchesInit /\ MonitorInit

BotNext == /\ UNCHANGED part
           /\ \/ part = "claims" /\ Next /\ UNCHANGED <<apiWatchVars, monitorVars>>
              \/ part = "watches" /\ WatchesNext /\ UNCHANGED <<vars, monitorVars>>
              \/ part = "monitor" /\ MonitorNext /\ UNCHANGED <<vars, apiWatchVars>>

BotSpec == BotInit /\ [][BotNext]_allVars

=============================================================================
