------------------------------ MODULE RelayClient ------------------------------
(***************************************************************************)
(* The claim bot's client of the relay (packages/claim/src/monitor.ts): a  *)
(* socket that is opened again whenever it closes.  A message has no       *)
(* effect here but a run of the claim handler, which is not awaited.       *)
(* Delays are left open.                                                   *)
(***************************************************************************)
VARIABLES alive,    \* "new" before start(), "yes", "no" after stop()
          relay,    \* the socket: "none", "connecting", "open" or "closing"
          retry     \* reconnectTimer is pending

relayVars == <<alive, relay, retry>>

RelayInit == alive = "new" /\ relay = "none" /\ retry = FALSE

\* start() and the connect() it calls.
RelayStart == /\ alive = "new" /\ alive' = "yes"
              /\ relay' = "connecting"
              /\ UNCHANGED retry

Open == /\ relay = "connecting" /\ relay' = "open"
        /\ UNCHANGED <<alive, retry>>

\* The socket closes, open or not yet: 'error' is followed by 'close'.
Close_IfOpen == /\ relay \in {"connecting", "open", "closing"}
                /\ relay' = "none"
                /\ retry' = (retry \/ (alive = "yes" /\ relay = "open"))
                /\ UNCHANGED alive
Close == /\ relay \in {"connecting", "open", "closing"}
         /\ relay' = "none"
         /\ retry' = (retry \/ alive = "yes")
         /\ UNCHANGED alive

\* The timer: connect().
Retry == /\ retry /\ retry' = FALSE
         /\ relay' = IF alive = "yes" THEN "connecting" ELSE relay
         /\ UNCHANGED alive

\* stop() on a signal, before the process ends.
RelayStop == /\ alive = "yes" /\ alive' = "no"
             /\ retry' = FALSE
             /\ relay' = IF relay = "none" THEN relay ELSE "closing"

RelayNext == RelayStart \/ Open \/ Close \/ Retry \/ RelayStop

\* Timers fire, sockets open or close, and a relay asked again and again takes the
\* connection some time.
RelayFairness == WF_relayVars(Retry) /\ WF_relayVars(Open \/ Close) /\ SF_relayVars(Open)

RelaySpec == RelayInit /\ [][RelayNext]_relayVars

------------------------------------------------------------------------------
\* The bot gets its connection back, also when a connection is refused, until it
\* is stopped; then it keeps no socket.
RelayReturns == /\ alive = "yes" ~> (relay = "open" \/ alive = "no")
                /\ alive = "no" ~> relay = "none"

=============================================================================
