----------------------------- MODULE EventMonitors -----------------------------
(***************************************************************************)
(* The three monitors of events of the Pump program: EventMonitor of the   *)
(* channel bot (channel/src/event-monitor.ts), TokenLaunchMonitor and      *)
(* PumpEventMonitor of the monitor bot (monitor/src/token-launch-monitor.ts*)
(* and pump-event-monitor.ts).  They share their shape, a log subscription *)
(* or polling, a cursor and a cache of signatures, and differ in the order *)
(* of marking, fetching and dispatching; kind says which one runs.         *)
(***************************************************************************)
EXTENDS Integers, Sequences, FiniteSets, Functions

CONSTANTS Sig,        \* signatures of the transactions that may appear
          Carrying,   \* those whose logs carry an event of the monitor's
          Relevant,   \* those of them whose event is announced: without a GitHub link a
                      \* launch is dropped under githubOnlyFilter
          Failed,     \* transactions with an error
          Kinds,      \* monitors to consider, of {"channel", "launch", "pump"}
          LIMIT,      \* signatures per page: 20 (channel) or 50 in the code
          CACHE_MAX,  \* MAX_PROCESSED_CACHE, 10_000 in the code
          KEEP,       \* entries trimCache() keeps, 5_000 in the code
          EVICT,      \* entries markProcessed() evicts, 1_000 in the code
          Slots,      \* bound: polls told apart, overlapping or chained
          MaxCredit,  \* bound: unannounced residencies told apart
          NoSig

ASSUME EventMonitorsAssumption ==
    /\ Relevant \subseteq Carrying /\ Carrying \subseteq Sig
    /\ Failed \subseteq Sig \ Carrying /\ NoSig \notin Sig
    /\ Kinds \subseteq {"channel", "launch", "pump"}
    /\ LIMIT \in Nat \ {0} /\ CACHE_MAX \in Nat \ {0}
    /\ KEEP \in 1..CACHE_MAX /\ EVICT \in 1..CACHE_MAX
    /\ IsFiniteSet(Slots) /\ MaxCredit \in Nat /\ MaxCredit > Cardinality(Slots)

VARIABLES kind,
          ledger,       \* confirmed transactions of the program, oldest first (the node's)
          state,        \* "new", "running" or "stopped"
          subscribed,   \* wsSubscriptionId of a live connection
          quiet,        \* no log event for longer than the timeout
          heartbeats,   \* intervals set by startWebSocket(), 2 stands for more
          tracked,      \* wsHeartbeatTimer refers to one of them
          delivered,    \* signatures whose log notification was delivered
          interval,     \* the interval of the monitor bot's startPolling()
          poll,         \* runs of poll(), by slot
          lastSignature,
          processed,    \* processedSignatures, in insertion order
          fetching,     \* log handlers that await their transaction
          credit,       \* history: insertions less announcements, per signature
          taken,        \* history: signatures that were ever processed
          told,         \* history: signatures announced
          lost,         \* history: signatures whose transaction was not found
          polled,       \* history: signatures that a poll marked
          skipped       \* history: signatures cut off by the limit of a page

wsVars == <<subscribed, quiet, heartbeats, tracked>>
history == <<credit, taken, told, lost, polled>>
vars == <<kind, ledger, state, wsVars, delivered, interval, poll, lastSignature,
          processed, fetching, history, skipped>>

At(where, until, page, sig) == [at |-> where, until |-> until, page |-> page, sig |-> sig]
Off == At("off", NoSig, <<>>, NoSig)
Timer == At("timer", NoSig, <<>>, NoSig)

TypeOK ==
    /\ kind \in Kinds /\ state \in {"new", "running", "stopped"}
    /\ ledger \in Seq(Sig) /\ IsInjective(ledger)
    /\ subscribed \in BOOLEAN /\ quiet \in BOOLEAN /\ interval \in BOOLEAN
    /\ heartbeats \in 0..2 /\ tracked \in BOOLEAN /\ (tracked => heartbeats > 0)
    /\ \A i \in Slots :
           /\ poll[i].at \in {"off", "timer", "asked", "answered", "fetch"}
           /\ poll[i].until \in Sig \cup {NoSig} /\ poll[i].sig \in Sig \cup {NoSig}
           /\ poll[i].page \in Seq(Sig) /\ Len(poll[i].page) <= LIMIT
    /\ lastSignature \in Sig \cup {NoSig}
    /\ processed \in Seq(Sig) /\ IsInjective(processed)
    /\ delivered \subseteq Sig /\ fetching \subseteq Carrying
    /\ credit \in [Sig -> Int] /\ \A s \in Sig : credit[s] <= MaxCredit
    /\ taken \subseteq Sig /\ told \subseteq taken /\ lost \subseteq taken
    /\ polled \subseteq taken /\ skipped \subseteq Sig

Init == /\ kind \in Kinds /\ ledger = <<>> /\ state = "new"
        /\ subscribed = FALSE /\ quiet = FALSE /\ heartbeats = 0 /\ tracked = FALSE
        /\ delivered = {} /\ interval = FALSE /\ poll = [i \in Slots |-> Off]
        /\ lastSignature = NoSig /\ processed = <<>> /\ fetching = {}
        /\ credit = [s \in Sig |-> 0]
        /\ taken = {} /\ told = {} /\ lost = {} /\ polled = {} /\ skipped = {}

Channel == kind = "channel"

------------------------------------------------------------------------------
(* The cache, and what is counted of it *)

\* trimCache() of the channel bot.
Trimmed(cache) ==
    IF Len(cache) > CACHE_MAX THEN SubSeq(cache, Len(cache) - KEEP + 1, Len(cache)) ELSE cache

\* markProcessed() of the monitor bot.
Evicted(cache) == IF Len(cache) > CACHE_MAX THEN SubSeq(cache, EVICT + 1, Len(cache)) ELSE cache

\* The cache after s was added. The polls of the channel bot trim it at the end
\* of the page only.
Added(cache, s, byPoll) ==
    LET all == IF s \in Range(cache) THEN cache ELSE Append(cache, s)
    IN IF ~Channel THEN Evicted(all) ELSE IF byPoll THEN all ELSE Trimmed(all)

\* Credits after a residency of the signatures in new begins and the
\* announcements of the signatures in out, in this order.
Credits(new, out) ==
    [s \in Sig |->
        LET up == IF s \in new /\ credit[s] < MaxCredit THEN credit[s] + 1 ELSE credit[s]
        IN IF s \in out THEN up - 1 ELSE up]

\* The bookkeeping of a step that marks new, those of byPoll in a poll, announces
\* out and misses gone.
Account(new, out, gone, byPoll) ==
    /\ credit' = Credits(new, out)
    /\ taken' = taken \cup new
    /\ told' = told \cup out
    /\ lost' = lost \cup gone
    /\ polled' = polled \cup byPoll

------------------------------------------------------------------------------
(* start() and stop() *)

\* startWebSocket(): subscribes; the channel bot sets one more interval.
WebSocketUp ==
    /\ subscribed' = TRUE /\ quiet' = FALSE
    /\ heartbeats' = IF Channel /\ heartbeats < 2 THEN heartbeats + 1 ELSE heartbeats
    /\ tracked' = Channel

\* startPolling(): asks at once; the monitor bot sets an interval, the channel
\* bot's poll schedules its successor itself.
StartPolling ==
    /\ interval' = ~Channel
    /\ IF \A i \in Slots : poll[i].at # "off" THEN UNCHANGED poll
       ELSE LET i == CHOOSE i \in Slots : poll[i].at = "off"
            IN poll' = [poll EXCEPT ![i] = At("asked", lastSignature, <<>>, NoSig)]

Start == /\ state = "new" /\ state' = "running"
         /\ \/ WebSocketUp /\ UNCHANGED <<interval, poll>>
            \/ StartPolling /\ UNCHANGED wsVars
         /\ UNCHANGED <<kind, ledger, delivered, lastSignature, processed, fetching, history,
                        skipped>>

\* stop(): clears the timers it knows; polls and handlers under way go on.
Stop == /\ state = "running" /\ state' = "stopped"
        /\ subscribed' = FALSE /\ tracked' = FALSE
        /\ heartbeats' = IF tracked /\ heartbeats = 1 THEN 0 ELSE heartbeats
        /\ interval' = FALSE
        /\ UNCHANGED <<kind, ledger, quiet, delivered, poll, lastSignature, processed, fetching,
                       history, skipped>>

------------------------------------------------------------------------------
(* The log subscription *)

\* A transaction is confirmed (the environment).
Confirm(s) == /\ s \notin Range(ledger)
              /\ ledger' = Append(ledger, s)
              /\ UNCHANGED <<kind, state, wsVars, delivered, interval, poll, lastSignature,
                             processed, fetching, history, skipped>>

\* No log event arrives for longer than the timeout.
Silence == /\ subscribed /\ ~quiet /\ quiet' = TRUE
           /\ UNCHANGED <<kind, ledger, state, subscribed, heartbeats, tracked, delivered,
                          interval, poll, lastSignature, processed, fetching, history, skipped>>

\* A heartbeat of the channel bot finds the socket silent: reconnectWebSocket()
\* replaces it, or, when startWebSocket() throws, clears the newest interval
\* and starts polling. Older intervals go on.
Heartbeat ==
    /\ state = "running" /\ heartbeats > 0 /\ quiet
    /\ \/ WebSocketUp /\ UNCHANGED <<interval, poll>>
       \/ /\ subscribed' = FALSE /\ tracked' = FALSE /\ UNCHANGED quiet
          /\ \/ tracked /\ heartbeats' = heartbeats - 1
             \/ (tracked => heartbeats = 2) /\ UNCHANGED heartbeats
          /\ StartPolling
    /\ UNCHANGED <<kind, ledger, state, delivered, lastSignature, processed, fetching, history,
                   skipped>>

\* handleLogEvent(), up to its first await. The channel bot marks whatever it
\* sees and dispatches from the logs; the others mark and fetch only what
\* carries an event.
LogEvent(s) ==
    /\ subscribed /\ s \in Range(ledger) \ delivered
    /\ delivered' = delivered \cup {s} /\ quiet' = FALSE
    /\ IF s \in Failed \cup Range(processed) \/ (~Channel /\ s \notin Carrying)
       THEN UNCHANGED <<processed, fetching, history>>
       ELSE /\ processed' = Added(processed, s, FALSE)
            /\ fetching' = IF Channel THEN fetching ELSE fetching \cup {s}
            /\ Account({s}, IF Channel THEN {s} \cap Relevant ELSE {}, {}, {})
    /\ UNCHANGED <<kind, ledger, state, subscribed, heartbeats, tracked, interval, poll,
                   lastSignature, skipped>>

\* The transaction a log handler fetches arrives or the request fails. The
\* launch monitor needs it, and its filter may drop the launch;
\* PumpEventMonitor dispatches either way.
LogFetched_NeedsTx(s, found) ==
    /\ s \in fetching /\ fetching' = fetching \ {s}
    /\ Account({}, IF found THEN {s} \cap Relevant ELSE {},
               IF found \/ kind = "pump" THEN {} ELSE {s}, {})
    /\ UNCHANGED <<kind, ledger, state, wsVars, delivered, interval, poll, lastSignature,
                   processed, skipped>>
LogFetched(s, found) ==
    /\ s \in fetching /\ fetching' = fetching \ {s}
    /\ LET heard == found \/ kind = "pump"
       IN Account({}, IF heard THEN {s} \cap Relevant ELSE {}, IF heard THEN {} ELSE {s}, {})
    /\ UNCHANGED <<kind, ledger, state, wsVars, delivered, interval, poll, lastSignature,
                   processed, skipped>>

------------------------------------------------------------------------------
(* Polling *)

pollRest == <<kind, ledger, state, wsVars, delivered, interval, fetching>>

\* A timer fires: the interval of the monitor bot, whatever polls are under way
\* (bound: while a slot is free), or the timer of a chain of the channel bot,
\* which ends when the monitor has stopped.
PollStart(i) ==
    /\ \/ interval /\ poll[i].at = "off"
       \/ poll[i].at = "timer"
    /\ poll' = [poll EXCEPT ![i] =
                    IF Channel /\ state = "stopped" THEN Off
                    ELSE At("asked", lastSignature, <<>>, NoSig)]
    /\ UNCHANGED <<pollRest, lastSignature, processed, history, skipped>>

\* The node answers: the newest LIMIT signatures after until, newest first.
Newer(until) ==
    LET from == IF until \in Range(ledger) THEN CHOOSE k \in DOMAIN ledger : ledger[k] = until
                ELSE 0
    IN SubSeq(ledger, from + 1, Len(ledger))
Answer(i) ==
    /\ poll[i].at = "asked"
    /\ LET new == Newer(poll[i].until)
           n == IF Len(new) < LIMIT THEN Len(new) ELSE LIMIT
       IN poll' = [poll EXCEPT ![i].at = "answered",
                               ![i].page = [k \in 1..n |-> new[Len(new) - k + 1]]]
    /\ UNCHANGED <<pollRest, lastSignature, processed, history, skipped>>

\* What a poll that is done does: the channel bot's schedules the next one.
AfterPoll == IF Channel /\ state = "running" THEN Timer ELSE Off

\* The request fails: logged.
PollError_Ends(i) == /\ poll[i].at = "asked"
                     /\ poll' = [poll EXCEPT ![i] = Off]
                     /\ UNCHANGED <<pollRest, lastSignature, processed, history, skipped>>
PollError(i) == /\ poll[i].at = "asked"
                /\ poll' = [poll EXCEPT ![i] = AfterPoll]
                /\ UNCHANGED <<pollRest, lastSignature, processed, history, skipped>>

\* The places in rest, the signatures of a page that are left, to be taken.
Open_Again(rest, cache) == {k \in DOMAIN rest : rest[k] \notin Failed}
Open(rest, cache) == {k \in DOMAIN rest : rest[k] \notin Failed \cup Range(cache)}

\* poll() goes on with rest: it skips those it need not take, marks the next one
\* and fetches it, or ends.
GoOn(i, rest, cache, new, out, gone) ==
    LET open == Open(rest, cache)
    IN IF open = {}
       THEN /\ poll' = [poll EXCEPT ![i] = AfterPoll]
            /\ processed' = IF Channel THEN Trimmed(cache) ELSE cache
            /\ Account(new, out, gone, {})
       ELSE LET k == CHOOSE k \in open : \A j \in open : k <= j
            IN /\ poll' = [poll EXCEPT ![i] =
                              At("fetch", NoSig, SubSeq(rest, k + 1, Len(rest)), rest[k])]
               /\ processed' = Added(cache, rest[k], TRUE)
               /\ Account(new \cup ({rest[k]} \ Range(cache)), out, gone, {rest[k]})

\* poll() after the page arrived. The monitor bot reverses it in place, so the
\* element it stores as the newest is the oldest.
Oldest(page) == [k \in DOMAIN page |-> page[Len(page) - k + 1]]
Continue(i) ==
    /\ poll[i].at = "answered"
    /\ LET page == IF Channel THEN poll[i].page ELSE Oldest(poll[i].page)
       IN /\ lastSignature' = IF page = <<>> THEN lastSignature ELSE page[1]
          /\ skipped' = IF page = <<>> THEN skipped
                        ELSE skipped \cup (Range(Newer(poll[i].until))
                                 \ (Range(page) \cup Range(Newer(poll[i].page[Len(page)]))))
          /\ GoOn(i, page, processed, {}, {}, {})
    /\ UNCHANGED pollRest

\* The transaction a poll fetches arrives, or not. The monitor bot announces it.
\* The channel bot hands its logs to handleLogEvent(), which returns at once
\* unless the mark this poll has set was trimmed away meanwhile.
Fetched(i, found) ==
    /\ poll[i].at = "fetch"
    /\ LET s == poll[i].sig
           again == found /\ Channel /\ s \notin Range(processed)
           out == IF found /\ (Channel => again) THEN {s} \cap Relevant ELSE {}
       IN GoOn(i, poll[i].page, IF again THEN Added(processed, s, FALSE) ELSE processed,
               IF again THEN {s} ELSE {}, out, IF found THEN {} ELSE {s})
    /\ UNCHANGED <<pollRest, lastSignature, skipped>>

Settles(i) == Answer(i) \/ PollError(i) \/ Continue(i) \/ \E found \in BOOLEAN : Fetched(i, found)

Next == \/ Start \/ Stop \/ Silence \/ Heartbeat
        \/ \E s \in Sig : Confirm(s) \/ LogEvent(s)
        \/ \E s \in fetching, found \in BOOLEAN : LogFetched(s, found)
        \/ \E i \in Slots : PollStart(i) \/ Settles(i)

\* Timers fire and requests settle; a request that is made again and again is
\* answered some time.
Fairness ==
    /\ \A i \in Slots : WF_vars(PollStart(i)) /\ WF_vars(Settles(i)) /\ SF_vars(Answer(i))
    /\ \A s \in Sig : WF_vars(\E found \in BOOLEAN : LogFetched(s, found))

Spec == Init /\ [][Next]_vars
FairSpec == Spec /\ Fairness

------------------------------------------------------------------------------
\* No event is announced more often than its transaction entered the cache,
\* although polls overlap each other and the log handlers.
AnnouncedPerResidency == \A s \in Sig : credit[s] >= 0

InFlight == fetching \cup {poll[i].sig : i \in {j \in Slots : poll[j].at = "fetch"}}

\* A marked transaction with an event was announced, is being fetched, or could
\* not be fetched. The exception is the channel bot's poll, whose marks keep
\* handleLogEvent() from announcing it.
MarkedIsAnnounced ==
    \A s \in taken \cap Relevant :
        s \in told \cup InFlight \cup lost \/ (Channel /\ s \in polled)

\* While the monitor polls, each transaction is taken up in the end, unless a
\* page limit cut it off.
PollingSees ==
    \A s \in Sig \ Failed :
        s \in Range(ledger) /\ (interval \/ \E i \in Slots : poll[i].at = "timer")
            ~> s \in taken \cup skipped \/ state = "stopped"

\* "Two modes: WebSocket (real-time) or HTTP polling (fallback)" (the header of
\* channel/src/event-monitor.ts).
PolledIsAnnounced == \A s \in taken \cap Relevant : s \in told \cup InFlight \cup lost

=============================================================================
