------------------------------- MODULE WebFeed -------------------------------
(***************************************************************************)
(* usePumpPortalFeed(), the dashboard's hook on the PumpPortal socket      *)
(* (packages/web/src/hooks/usePumpPortalFeed.ts).  React runs the connect  *)
(* effect some time after `enabled` or the nonce changed, first cleaning   *)
(* up after its last run.  Delays are left open; the feed of events, which *)
(* only the page shows, is left out.                                       *)
(***************************************************************************)
EXTENDS Naturals, Sequences, Functions

CONSTANTS Mint,
          TRADE_WINDOW,   \* 40 in the code
          MaxTimers       \* bound: retry timers at a time

ASSUME WebAssumption == TRADE_WINDOW \in Nat

VARIABLES enabled,
          effect,     \* the connect effect is to run
          socket,     \* of its last run: "none", "connecting", "open" or "closed"
          timers,     \* retry timers that have not fired
          inRef,      \* retryTimerRef is one of them
          window,     \* tradeWindowRef, the mints whose trades are followed
          meta,       \* tokenMetaRef, the mints with a name
          server      \* external: mints this connection is subscribed to

webVars == <<enabled, effect, socket, timers, inRef, window, meta, server>>

WebInit == /\ enabled \in BOOLEAN /\ effect = TRUE /\ socket = "none"
           /\ timers = 0 /\ inRef = FALSE
           /\ window = <<>> /\ meta = {} /\ server = {}

\* The caller turns the feed on or off.
Toggle == /\ enabled' = ~enabled /\ effect' = TRUE
          /\ UNCHANGED <<socket, timers, inRef, window, meta, server>>

\* clearTimeout(retryTimerRef.current)
Cleared == timers' = (IF inRef THEN timers - 1 ELSE timers) /\ inRef' = FALSE

\* reconnect(), a button.
Reconnect == /\ Cleared /\ effect' = TRUE
             /\ UNCHANGED <<enabled, socket, window, meta, server>>

\* The clean-up of the last run, if that got a socket, and the effect: no socket
\* when disabled, else a new one.
Connect == /\ effect /\ effect' = FALSE
           /\ IF socket # "none" THEN Cleared ELSE UNCHANGED <<timers, inRef>>
           /\ socket' = IF enabled THEN "connecting" ELSE "none"
           /\ server' = {}
           /\ UNCHANGED <<enabled, window, meta>>

\* The constructor throws: a timer is set, and nothing to clean up is returned.
ConnectThrows == /\ effect /\ effect' = FALSE /\ enabled
                 /\ timers' = (IF socket # "none" /\ inRef THEN timers ELSE timers + 1)
                 /\ timers' <= MaxTimers
                 /\ inRef' = TRUE
                 /\ socket' = "none" /\ server' = {}
                 /\ UNCHANGED <<enabled, window, meta>>

\* onopen: a fresh connection has no subscriptions.
Opened_NewOnly == /\ socket = "connecting" /\ socket' = "open"
                  /\ UNCHANGED <<enabled, effect, timers, inRef, window, meta, server>>
Opened == /\ socket = "connecting" /\ socket' = "open"
          /\ server' = Range(window)
          /\ UNCHANGED <<enabled, effect, timers, inRef, window, meta>>

\* onclose: a retry timer, in the reference from now on.
Closed_OnlyIfOpen == /\ socket \in {"connecting", "open"} /\ socket' = "closed"
                     /\ timers < MaxTimers
                     /\ timers' = IF socket = "open" THEN timers + 1 ELSE timers
                     /\ inRef' = (inRef \/ socket = "open")
                     /\ server' = {}
                     /\ UNCHANGED <<enabled, effect, window, meta>>
Closed == /\ socket \in {"connecting", "open"} /\ socket' = "closed"
          /\ timers < MaxTimers /\ timers' = timers + 1 /\ inRef' = TRUE
          /\ server' = {}
          /\ UNCHANGED <<enabled, effect, window, meta>>

\* A retry timer fires.  The one in the reference stays there, with no effect.
TimerFires == /\ timers > 0 /\ timers' = timers - 1
              /\ inRef' \in {FALSE, inRef /\ timers > 1}
              /\ effect' = TRUE
              /\ UNCHANGED <<enabled, socket, window, meta, server>>

\* A launch: trackMint() follows its trades and drops the oldest beyond the window.
Launch(mint) ==
    /\ socket = "open"
    /\ IF mint \in Range(window)
       THEN meta' = meta \cup {mint} /\ UNCHANGED <<window, server>>
       ELSE LET all == Append(window, mint)
                gone == IF Len(all) > TRADE_WINDOW THEN {Head(all)} ELSE {}
            IN /\ window' = IF gone = {} THEN all ELSE Tail(all)
               /\ meta' = (meta \cup {mint}) \ gone
               /\ server' = (server \cup {mint}) \ gone
    /\ UNCHANGED <<enabled, effect, socket, timers, inRef>>

WebNext == \/ Toggle \/ Reconnect \/ Connect \/ ConnectThrows
           \/ Opened \/ Closed \/ TimerFires
           \/ \E m \in Mint : Launch(m)

\* React runs effects, timers fire, sockets open or close; a service asked again
\* and again takes the connection some time.
WebFairness == /\ WF_webVars(Connect \/ ConnectThrows) /\ WF_webVars(TimerFires)
               /\ WF_webVars(Opened \/ Closed) /\ SF_webVars(Connect) /\ SF_webVars(Opened)

WebSpec == WebInit /\ [][WebNext]_webVars
WebFairSpec == WebSpec /\ WebFairness

------------------------------------------------------------------------------
\* An open connection is subscribed to the mints of the window and to no others,
\* whatever reconnections, launches and evictions came before, and these are the
\* mints with a name.
SubscribedToWindow == /\ socket = "open" => server = Range(window)
                      /\ meta = Range(window) /\ Len(window) <= TRADE_WINDOW

\* An enabled feed is live in the end, although connections are refused and timers
\* of earlier runs fire late.
FeedReturns == enabled ~> (socket = "open" \/ ~enabled)

=============================================================================
