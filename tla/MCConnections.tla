----------------------------- MODULE MCConnections -----------------------------
(***************************************************************************)
(* What asks nodes and keeps connections alive, for TLC: the request       *)
(* queue, the core package's monitors, the claim bot's relay client, the   *)
(* dashboard's feed, and the two RPC connection managers, the core         *)
(* package's and the bots' copy.  A behaviour runs one of them, `part`,    *)
(* and the rest stays as it starts.                                        *)
(***************************************************************************)
EXTENDS RpcQueue, WebFeed, CoreRpcFallback

CONSTANTS CoreSig, SEEN_MAX, SEEN_DROP, MaxListeners, MaxReconnects,
          Healthy, Fatal,
          BotCaller   \* callers of the bots' manager

VARIABLES part,
          claims, active, listeners, owned, reconnects, pollTimer, seen,
          alive, relay, retry,
          botCurrent, botFails, cooled, call, healthy

Monitors == INSTANCE CoreMonitors WITH running <- active
Relay == INSTANCE RelayClient
Bot == INSTANCE RpcFallback WITH Caller <- BotCaller, current <- botCurrent, fails <- botFails

monitorVars == <<claims, active, listeners, owned, reconnects, pollTimer, seen>>
relayVars == <<alive, relay, retry>>
botVars == <<botCurrent, botFails, cooled, call, healthy>>
allVars == <<part, vars, monitorVars, relayVars, webVars, coreVars, botVars>>

ConnectionsInit == /\ part \in {"queue", "monitors", "relay", "web", "core", "bot"}
                   /\ Init /\ Monitors!CoreInit /\ Relay!RelayInit /\ WebInit
                   /\ CoreInit /\ Bot!Init
                   /\ part # "monitors" => ~claims
                   /\ part # "web" => enabled
                   /\ part # "bot" => healthy = {}

ConnectionsNext ==
    /\ UNCHANGED part
    /\ \/ /\ part = "queue" /\ Next
          /\ UNCHANGED <<monitorVars, relayVars, webVars, coreVars, botVars>>
       \/ /\ part = "monitors" /\ Monitors!CoreNext
          /\ UNCHANGED <<vars, relayVars, webVars, coreVars, botVars>>
       \/ /\ part = "relay" /\ Relay!RelayNext
          /\ UNCHANGED <<vars, monitorVars, webVars, coreVars, botVars>>
       \/ /\ part = "web" /\ WebNext
          /\ UNCHANGED <<vars, monitorVars, relayVars, coreVars, botVars>>
       \/ /\ part = "core" /\ CoreNext
          /\ UNCHANGED <<vars, monitorVars, relayVars, webVars, botVars>>
       \/ /\ part = "bot" /\ Bot!Next
          /\ UNCHANGED <<vars, monitorVars, relayVars, webVars, coreVars>>

\* WebFairness for the behaviours that run it: its effect can run from the start.
FairWeb ==
    /\ WF_webVars(part = "web" /\ (Connect \/ ConnectThrows))
    /\ SF_webVars(part = "web" /\ Connect)
    /\ WF_webVars(TimerFires)
    /\ WF_webVars(Opened \/ Closed) /\ SF_webVars(Opened)

\* Bot!Fairness, for the behaviours that run it: a call is possible from the start.
BotFairness == \A c \in BotCaller : /\ WF_botVars(part = "bot" /\ Bot!Call(c))
                                    /\ WF_botVars(part = "bot" /\ Bot!Settle(c))

ConnectionsSpec == /\ ConnectionsInit /\ [][ConnectionsNext]_allVars
                   /\ Fairness /\ Monitors!CoreFairness /\ Relay!RelayFairness /\ FairWeb
                   /\ BotFairness

------------------------------------------------------------------------------
\* The properties of the parts, stated in their modules.

\* A running monitor of the core package is subscribed in the end.
GetsSubscribed == Monitors!GetsSubscribed
\* The claim bot gets its connection to the relay back.
RelayReturns == Relay!RelayReturns
\* An enabled feed is live in the end.
DashboardReturns == part = "web" => FeedReturns
\* A call of withFallback() on failing endpoints is rejected in the end.
BotCallsSettle == Bot!CallsSettle
\* The bot turns to an endpoint in cooldown only when every endpoint is.
CooldownNeedsAll == Bot!CooldownNeedsAll
\* While one endpoint answers, the bot gets away from the dead ones.
Failover == part = "bot" => Bot!Failover

=============================================================================
