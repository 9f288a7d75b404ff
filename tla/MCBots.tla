-------------------------------- MODULE MCBots --------------------------------
(***************************************************************************)
(* What the bots remember and tell their chats, for TLC: the channel bot's *)
(* first claims, the claim bot's tracked items, the monitor bot's watches  *)
(* and its broadcasts.  These share no state, so a behaviour runs one of   *)
(* them, `part`, and the rest stays as it starts.  The first claims have   *)
(* two parts: "feed", with transactions of up to BATCH claims, two running *)
(* handlers, lost replies, and no restart or failing save; and "restarts", *)
(* with both of these, transactions of one claim of one amount, and no     *)
(* lost reply.                                                             *)
(***************************************************************************)
EXTENDS ClaimFeed

CONSTANTS w1, Chat, Token, Handle, MaxItems, MaxClaims, None, Torn,
          Wallet, LeadingNumber, MaxWatches, MaxEvents,
          Kind, MaxBroadcasts

\* A wallet whose text begins with a 2.
BeginsWithTwo == [w \in Wallet |-> IF w = w1 THEN 2 ELSE 0]

VARIABLES part,
          tracked, adding, notifier, notices, since,
          watches, alerter, alerts, interested,
          monitors, broadcast, sent, wanting,
          idCounter, file

Items == INSTANCE ClaimAlerts
Watching == INSTANCE WatchAlerts
Casts == INSTANCE MonitorBroadcasts

feedVars == <<chainVars, linked, seen, handler, memory, disk, saveFailed, shown>>
itemVars == <<tracked, adding, notifier, notices, since>>
watchVars == <<watches, alerter, alerts, interested>>
castVars == <<monitors, broadcast, sent, wanting>>
storeVars == <<idCounter, file>>
allVars == <<part, feedVars, itemVars, watchVars, castVars, storeVars, restarts>>

\* Bounds of the two parts of the first claims.
Uninterrupted == restarts' = 0 /\ ~saveFailed' /\ Cardinality(DOMAIN handler') <= 2
Plain == /\ \A t \in DOMAIN chain' : chain'[t].n = 1 /\ chain'[t].event.amount = 1
         /\ \A h \in DOMAIN handler' : handler'[h].stage # "lost"

BotsInit == /\ part \in {"feed", "restarts", "items", "watches", "casts"}
            /\ Init /\ Items!Init /\ Watching!Init /\ Casts!Init

BotsNext ==
    /\ UNCHANGED part
    /\ \/ /\ Next
          /\ \/ part = "feed" /\ Uninterrupted
             \/ part = "restarts" /\ Plain
          /\ UNCHANGED <<itemVars, watchVars, castVars, storeVars>>
       \/ /\ part = "items" /\ Items!Next
          /\ UNCHANGED <<feedVars, watchVars, castVars>>
       \/ /\ part = "watches" /\ Watching!Next
          /\ UNCHANGED <<feedVars, itemVars, castVars>>
       \/ /\ part = "casts" /\ Casts!Next
          /\ UNCHANGED <<feedVars, itemVars, watchVars, storeVars, restarts>>

BotsSpec == BotsInit /\ [][BotsNext]_allVars /\ Fairness

------------------------------------------------------------------------------
\* The properties of the parts, stated in their modules.

\* The claim bot notifies the chats whose items match a claim, once each.
TrackersHear == Items!TrackersHear
\* The monitor bot notifies the chats that watch a wallet of an event.
WatchersHear == Watching!WatchersHear
\* A broadcast reaches the chats that are active and let it through.
BroadcastReaches == Casts!BroadcastReaches

=============================================================================
