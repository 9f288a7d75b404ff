----------------------------- MODULE CoreMonitors -----------------------------
(***************************************************************************)
(* The monitors of the core package (packages/core/src/monitor): Launch,   *)
(* Whale, Graduation, CTO and FeeDist monitors, which retry a subscription *)
(* that fails, and the ClaimMonitor, which polls instead and, since every  *)
(* poll fails (it asks for the signatures of a URL), retries at each poll. *)
(* No timer of a reconnection is ever cleared.  Delays are left open.      *)
(***************************************************************************)
EXTENDS Naturals, Sequences, Functions

CONSTANTS CoreSig,        \* signatures of transactions
          SEEN_MAX,       \* 10_000 in the code
          SEEN_DROP,      \* entries a full set drops, 5_000 in the code
          MaxListeners,   \* bound: subscriptions at a time
          MaxReconnects   \* bound: reconnections pending at a time

VARIABLES claims,       \* is it the ClaimMonitor?
          running,
          listeners,    \* log subscriptions of this monitor
          owned,        \* subscriptionId is set, to the last of them
          reconnects,   \* timers of scheduleReconnect() that have not fired
          pollTimer,
          seen          \* in insertion order

coreVars == <<claims, running, listeners, owned, reconnects, pollTimer, seen>>

CoreInit == /\ claims \in BOOLEAN /\ running = FALSE /\ listeners = 0 /\ owned = FALSE
            /\ reconnects = 0 /\ pollTimer = FALSE /\ seen = <<>>

\* subscribe() with `pending` reconnections: onLogs() subscribes, or throws, for
\* which the ClaimMonitor polls and the others try again.
Subscribes(pending) == /\ listeners < MaxListeners /\ listeners' = listeners + 1
                       /\ owned' = TRUE
                       /\ reconnects' = pending
                       /\ UNCHANGED pollTimer
SubscribeThrows(pending) ==
    /\ reconnects' = IF claims THEN pending ELSE pending + 1
    /\ reconnects' <= MaxReconnects
    /\ pollTimer' = (pollTimer \/ claims)
    /\ UNCHANGED <<listeners, owned>>

Start == /\ ~running /\ running' = TRUE
         /\ Subscribes(reconnects) \/ SubscribeThrows(reconnects)
         /\ UNCHANGED <<claims, seen>>

\* stop() removes the last subscription, which is the only one that it knows.
Stop == /\ running' = FALSE
        /\ listeners' = IF owned THEN listeners - 1 ELSE listeners
        /\ owned' = FALSE /\ pollTimer' = FALSE
        /\ UNCHANGED <<claims, reconnects, seen>>

\* A timer of scheduleReconnect() fires, perhaps after a stop() and a start().
Reconnects == /\ reconnects > 0 /\ running
              /\ Subscribes(reconnects - 1)
              /\ UNCHANGED <<claims, running, seen>>
ReconnectFails_GivesUp == /\ reconnects > 0 /\ running /\ reconnects' = reconnects - 1
                          /\ pollTimer' = (pollTimer \/ claims)
                          /\ UNCHANGED <<claims, running, listeners, owned, seen>>
ReconnectFails == /\ reconnects > 0 /\ running
                  /\ SubscribeThrows(reconnects - 1)
                  /\ UNCHANGED <<claims, running, seen>>
ReconnectLate == /\ reconnects > 0 /\ ~running
                 /\ reconnects' = reconnects - 1
                 /\ UNCHANGED <<claims, running, listeners, owned, pollTimer, seen>>

\* The interval of startPolling() fires: poll() fails and schedules a reconnection.
Poll == /\ pollTimer
        /\ reconnects' = IF running /\ reconnects < MaxReconnects
                         THEN reconnects + 1 ELSE reconnects
        /\ UNCHANGED <<claims, running, listeners, owned, pollTimer, seen>>

\* A log notification reaches a subscription: a signature not seen is remembered,
\* and the oldest are dropped from a set that is too large.
LogEvent(s) == /\ listeners > 0 /\ s \notin Range(seen)
               /\ LET all == Append(seen, s)
                  IN seen' = IF Len(all) > SEEN_MAX
                             THEN SubSeq(all, SEEN_DROP + 1, Len(all)) ELSE all
               /\ UNCHANGED <<claims, running, listeners, owned, reconnects, pollTimer>>

CoreNext == \/ Start \/ Stop \/ Poll
            \/ Reconnects \/ ReconnectFails \/ ReconnectLate
            \/ \E s \in CoreSig : LogEvent(s)

\* Timers fire, and a subscription asked for again and again is taken some time.
CoreFairness == /\ WF_coreVars(Poll)
                /\ WF_coreVars(Reconnects \/ ReconnectFails \/ ReconnectLate)
                /\ SF_coreVars(Reconnects)

CoreSpec == CoreInit /\ [][CoreNext]_coreVars
CoreFairSpec == CoreSpec /\ CoreFairness

------------------------------------------------------------------------------
\* A running monitor is subscribed in the end, however often onLogs() throws and
\* whatever starts, stops and late timers came before.
GetsSubscribed == running ~> (owned \/ ~running)

=============================================================================
