----------------------------- MODULE ChannelClaims -----------------------------
(***************************************************************************)
(* The claim monitor of the channel bot (packages/channel/src/             *)
(* claim-monitor.ts): log subscriptions watched by heartbeat timers, which *)
(* replace a silent socket or fall back to polling, and poll loops.  Both  *)
(* feed one request queue, of which only the promise is used here          *)
(* (TaskQueue; RpcQueue implements it).  The rest of a round of polling    *)
(* after an answer runs without an await up to the next request: while a   *)
(* loop is at "page" nothing else runs.                                    *)
(***************************************************************************)
EXTENDS Integers, Sequences, FiniteSets, Functions

CONSTANTS Sig,           \* signatures of the transactions that may appear
          NumPrograms,   \* the number of programPubkeys
          Touches,       \* Touches[p]: the transactions that mention program p
          Failed,        \* transactions with an error
          Social,        \* transactions whose logs show ClaimSocialFeePda
          LIMIT,         \* signatures per page, 20 in the code
          CACHE_MAX,     \* MAX_PROCESSED_CACHE, 10_000 in the code
          KEEP,          \* entries trimProcessedCache() keeps, 5_000 in the code
          MaxLoops,      \* bound: poll loops told apart
          MAX_QUEUE_SIZE, MAX_CONCURRENCY, NoSig

Program == 1..NumPrograms
Loop == 1..MaxLoops

ASSUME ChannelClaimsAssumption ==
    /\ NumPrograms \in Nat \ {0} /\ MaxLoops \in Nat \ {0}
    /\ Touches \in [Program -> SUBSET Sig] /\ Failed \subseteq Sig /\ Social \subseteq Sig
    /\ NoSig \notin Sig /\ LIMIT \in Nat \ {0} /\ CACHE_MAX \in Nat /\ KEEP \in 0..CACHE_MAX
    /\ MAX_QUEUE_SIZE \in Nat \ {0} /\ MAX_CONCURRENCY \in Nat \ {0}

VARIABLES ledger,      \* per program, its confirmed transactions, oldest first (the node's)
          isRunning,
          subscribed,  \* wsSubscriptionIds is not empty
          heartbeats,  \* heartbeat intervals set and not cleared; 2 means two or more
          tracked,     \* wsHeartbeatTimer is set: the newest of them can be cleared
          wsQuiet,     \* the last WebSocket event is more than the timeout ago
          delivered,   \* log notifications delivered: program and signature
          loop,        \* the poll loops
          lastSig,     \* lastSignatures
          processed,   \* processedSignatures, in insertion order
          asked,       \* the signature behind each ticket of the queue
          credit,      \* history: insertions of each signature into processed, less
                       \* the times that its claims were announced
          passedOver,  \* history: signatures refused by a full queue, cut off by the
                       \* limit of a page, or whose logs showed no claim
          accepted, started, running

Tasks == INSTANCE TaskQueue WITH started <- started, running <- running

wsVars == <<subscribed, heartbeats, tracked, wsQuiet, delivered>>
seenVars == <<processed, credit>>
taskVars == <<asked, accepted, started, running>>
vars == <<ledger, isRunning, wsVars, loop, lastSig, seenVars, passedOver, taskVars>>

At(where, p, until, page) == [at |-> where, prog |-> p, until |-> until, page |-> page]
Off == At("off", 1, NoSig, <<>>)
Timer == At("timer", 1, NoSig, <<>>)

TypeOK ==
    /\ ledger \in [Program -> Seq(Sig)]
    /\ isRunning \in BOOLEAN /\ subscribed \in BOOLEAN /\ wsQuiet \in BOOLEAN
    /\ heartbeats \in 0..2 /\ tracked \in BOOLEAN /\ (tracked => heartbeats > 0)
    /\ delivered \subseteq Program \X Sig
    /\ \A l \in Loop :
           /\ loop[l].at \in {"off", "timer", "asked", "answered", "page"}
           /\ loop[l].prog \in Program /\ loop[l].until \in Sig \cup {NoSig}
           /\ loop[l].page \in Seq(Sig) /\ Len(loop[l].page) <= LIMIT
    /\ lastSig \in [Program -> Sig \cup {NoSig}]
    /\ processed \in Seq(Sig) /\ IsInjective(processed)
    /\ asked \in Seq(Sig) /\ Len(asked) = accepted
    /\ running \subseteq 1..started /\ Cardinality(running) <= MAX_CONCURRENCY
    /\ started <= accepted /\ accepted <= started + MAX_QUEUE_SIZE
    /\ credit \in [Sig -> Int] /\ passedOver \subseteq Sig

Init == /\ ledger = [p \in Program |-> <<>>] /\ isRunning = FALSE
        /\ subscribed = FALSE /\ heartbeats = 0 /\ tracked = FALSE /\ wsQuiet = FALSE
        /\ delivered = {}
        /\ loop = [l \in Loop |-> Off] /\ lastSig = [p \in Program |-> NoSig]
        /\ processed = <<>> /\ asked = <<>>
        /\ credit = [s \in Sig |-> 0] /\ passedOver = {}
        /\ Tasks!TaskInit

Free == \A l \in Loop : loop[l].at # "page"
Polling == \E l \in Loop : loop[l].at # "off"

------------------------------------------------------------------------------
(* The request queue and the cache of processed signatures *)

\* rpcQueue.enqueue(s); a full queue refuses it.
Enqueue(s) ==
    IF accepted - started < MAX_QUEUE_SIZE
    THEN Tasks!Accept /\ asked' = Append(asked, s) /\ UNCHANGED passedOver
    ELSE passedOver' = passedOver \cup {s} /\ UNCHANGED taskVars

\* trimProcessedCache() on the cache `cache`.
Trimmed(cache) ==
    IF Len(cache) > CACHE_MAX THEN SubSeq(cache, Len(cache) - KEEP + 1, Len(cache)) ELSE cache

\* The signature s becomes processed; each insertion begins a residency.
Mark(s) == credit' = [credit EXCEPT ![s] = @ + 1]

\* The queue starts a waiting request: the throttle sleep of drain() ends.
StartTask ==
    /\ Free
    /\ Tasks!Start
    /\ started' > started
    /\ UNCHANGED <<ledger, isRunning, wsVars, loop, lastSig, seenVars, passedOver, asked>>

\* processTransaction() ends: with the transaction, whose claims are announced,
\* or without, because the request failed or there is no claim in it.
FinishTask(t, found) ==
    /\ Free
    /\ Tasks!Complete(t)
    /\ credit' = IF found THEN [credit EXCEPT ![asked[t]] = @ - 1] ELSE credit
    /\ UNCHANGED <<ledger, isRunning, wsVars, loop, lastSig, processed, passedOver, asked>>

------------------------------------------------------------------------------
(* start(), the log subscriptions and their heartbeat *)

\* startWebSocket(): subscribes to every program and sets one more interval.
WebSocketUp_NoTimer == /\ subscribed' = TRUE /\ wsQuiet' = FALSE
                       /\ UNCHANGED <<heartbeats, tracked>>
WebSocketUp == /\ subscribed' = TRUE /\ wsQuiet' = FALSE
               /\ heartbeats' = IF heartbeats < 2 THEN heartbeats + 1 ELSE 2
               /\ tracked' = TRUE

\* startPolling(): one more loop, which asks for the first program at once.
StartPolling ==
    IF \A l \in Loop : loop[l].at # "off" THEN UNCHANGED loop
    ELSE LET l == CHOOSE l \in Loop : loop[l].at = "off"
         IN loop' = [loop EXCEPT ![l] = At("asked", 1, lastSig[1], <<>>)]

\* start(): WebSocket mode, or polling when none is configured or it fails.
Start == /\ ~isRunning /\ isRunning' = TRUE
         /\ \/ WebSocketUp /\ UNCHANGED loop
            \/ StartPolling /\ UNCHANGED <<subscribed, heartbeats, tracked, wsQuiet>>
         /\ UNCHANGED <<ledger, delivered, lastSig, seenVars, passedOver, taskVars>>

\* A heartbeat finds no event within the timeout: reconnectWebSocket().
Reconnect ==
    /\ Free /\ isRunning /\ heartbeats > 0 /\ wsQuiet
    /\ WebSocketUp
    /\ UNCHANGED <<ledger, isRunning, delivered, loop, lastSig, seenVars, passedOver, taskVars>>

\* The same when startWebSocket() fails: the old listeners are gone, the newest
\* interval is cleared and polling takes over; older intervals try again.
ReconnectFails_NoPolling ==
    /\ Free /\ isRunning /\ heartbeats > 0 /\ wsQuiet
    /\ subscribed' = FALSE /\ tracked' = FALSE
    /\ heartbeats' = IF tracked THEN heartbeats - 1 ELSE heartbeats
    /\ UNCHANGED <<ledger, isRunning, wsQuiet, delivered, loop, lastSig, seenVars, passedOver,
                   taskVars>>
ReconnectFails ==
    /\ Free /\ isRunning /\ heartbeats > 0 /\ wsQuiet
    /\ subscribed' = FALSE /\ tracked' = FALSE
    /\ \/ tracked /\ heartbeats' = heartbeats - 1
       \/ (tracked => heartbeats = 2) /\ UNCHANGED heartbeats
    /\ StartPolling
    /\ UNCHANGED <<ledger, isRunning, wsQuiet, delivered, lastSig, seenVars, passedOver, taskVars>>

\* No log event has arrived for longer than the timeout.
Silence == /\ Free /\ subscribed /\ ~wsQuiet
           /\ wsQuiet' = TRUE
           /\ UNCHANGED <<ledger, isRunning, subscribed, heartbeats, tracked, delivered, loop,
                          lastSig, seenVars, passedOver, taskVars>>

\* A transaction is confirmed (the environment).
Confirm(s) ==
    /\ Free
    /\ \A p \in Program : s \notin Range(ledger[p])
    /\ ledger' = [p \in Program |-> IF s \in Touches[p] THEN Append(ledger[p], s) ELSE ledger[p]]
    /\ UNCHANGED <<isRunning, wsVars, loop, lastSig, seenVars, passedOver, taskVars>>

\* handleLogEvent(): only social fee claims are enqueued, everything is marked.
LogEvent(p, s) ==
    /\ Free /\ subscribed
    /\ s \in Range(ledger[p]) /\ <<p, s>> \notin delivered
    /\ delivered' = delivered \cup {<<p, s>>} /\ wsQuiet' = FALSE
    /\ IF s \in Failed \cup Range(processed)
       THEN UNCHANGED <<seenVars, passedOver, taskVars>>
       ELSE /\ processed' = Trimmed(Append(processed, s))
            /\ Mark(s)
            /\ IF s \in Social THEN Enqueue(s)
               ELSE passedOver' = passedOver \cup {s} /\ UNCHANGED taskVars
    /\ UNCHANGED <<ledger, isRunning, subscribed, heartbeats, tracked, loop, lastSig>>

------------------------------------------------------------------------------
(* Polling *)

pollRest == <<ledger, isRunning, wsVars>>

Ask(l, p) == loop' = [loop EXCEPT ![l] = At("asked", p, lastSig[p], <<>>)]

\* The timer of a loop fires.
PollStart(l) ==
    /\ Free /\ loop[l].at = "timer"
    /\ Ask(l, 1)
    /\ UNCHANGED <<pollRest, lastSig, seenVars, passedOver, taskVars>>

\* The node answers: the newest LIMIT signatures after until, newest first.
Newer(p, until) ==
    LET h == ledger[p]
        from == IF until \in Range(h) THEN CHOOSE k \in DOMAIN h : h[k] = until ELSE 0
    IN SubSeq(h, from + 1, Len(h))
Answer(l, p) ==
    /\ Free /\ loop[l].at = "asked" /\ loop[l].prog = p
    /\ LET new == Newer(p, loop[l].until)
           n == IF Len(new) < LIMIT THEN Len(new) ELSE LIMIT
       IN loop' = [loop EXCEPT ![l].at = "answered",
                               ![l].page = [k \in 1..n |-> new[Len(new) - k + 1]]]
    /\ UNCHANGED <<pollRest, lastSig, seenVars, passedOver, taskVars>>

\* pollAllPrograms() after its await: the cursor becomes the newest signature.
Continue(l) ==
    /\ Free /\ loop[l].at = "answered"
    /\ LET p == loop[l].prog
           page == loop[l].page
       IN IF page = <<>> THEN UNCHANGED <<lastSig, passedOver>>
          ELSE /\ lastSig' = [lastSig EXCEPT ![p] = page[1]]
               /\ passedOver' = passedOver \cup (Range(Newer(p, loop[l].until))
                                             \ (Range(page) \cup Range(Newer(p, page[1]))))
    /\ loop' = [loop EXCEPT ![l].at = "page"]
    /\ UNCHANGED <<pollRest, seenVars, taskVars>>

\* The next signature of the page: marked and enqueued unless it failed or was
\* processed.
Fresh_SkipsWaiting(s) == s \notin Failed \cup Range(processed) /\ accepted = started
Fresh(s) == s \notin Failed \cup Range(processed)
PageNext_Unmarked(l) ==
    /\ loop[l].at = "page" /\ loop[l].page # <<>>
    /\ LET s == Head(loop[l].page)
       IN IF Fresh(s) THEN Enqueue(s) ELSE UNCHANGED <<taskVars, passedOver>>
    /\ loop' = [loop EXCEPT ![l].page = Tail(@)]
    /\ UNCHANGED <<pollRest, seenVars, lastSig>>
PageNext(l) ==
    /\ loop[l].at = "page" /\ loop[l].page # <<>>
    /\ LET s == Head(loop[l].page)
       IN IF Fresh(s)
          THEN processed' = Append(processed, s) /\ Mark(s) /\ Enqueue(s)
          ELSE UNCHANGED <<seenVars, passedOver, taskVars>>
    /\ loop' = [loop EXCEPT ![l].page = Tail(@)]
    /\ UNCHANGED <<pollRest, lastSig>>

\* A round is over: the loop sets its timer again.
Rearm(l) == loop' = [loop EXCEPT ![l] = Timer]

\* The page is done: on with the next program, or the round ends.
PageEnd(l) ==
    /\ loop[l].at = "page" /\ loop[l].page = <<>>
    /\ IF loop[l].prog < NumPrograms
       THEN Ask(l, loop[l].prog + 1) /\ UNCHANGED processed
       ELSE Rearm(l) /\ processed' = Trimmed(processed)
    /\ UNCHANGED <<pollRest, credit, lastSig, passedOver, taskVars>>

\* The request fails: the whole round is given up, without trimming the cache.
PollError_EndsLoop(l) ==
    /\ Free /\ loop[l].at = "asked"
    /\ loop' = [loop EXCEPT ![l] = Off]
    /\ UNCHANGED <<pollRest, lastSig, seenVars, passedOver, taskVars>>
PollError(l) ==
    /\ Free /\ loop[l].at = "asked"
    /\ Rearm(l)
    /\ UNCHANGED <<pollRest, lastSig, seenVars, passedOver, taskVars>>

PollStep(l) == \/ PollStart(l) \/ Continue(l) \/ PageNext(l) \/ PageEnd(l) \/ PollError(l)
               \/ \E p \in Program : Answer(l, p)

Next == \/ Start \/ Reconnect \/ ReconnectFails \/ Silence \/ StartTask
        \/ \E s \in Sig : Confirm(s)
        \/ \E p \in Program, s \in Sig : LogEvent(p, s)
        \/ \E l \in Loop : PollStep(l)
        \/ \E t \in running, found \in BOOLEAN : FinishTask(t, found)

\* Timers fire, code between awaits runs on, requests settle, and a program that
\* is asked about again and again is answered some time.
Fairness ==
    /\ WF_vars(Reconnect \/ ReconnectFails)
    /\ \A l \in Loop : /\ WF_vars(PollStep(l))
                       /\ \A p \in Program : SF_vars(Answer(l, p))

Spec == Init /\ [][Next]_vars
FairSpec == Spec /\ Fairness

------------------------------------------------------------------------------
\* A running monitor has a feed: subscriptions with a heartbeat that would
\* notice their silence, or a poll loop, whatever reconnections failed before.
FeedAlive == isRunning => (subscribed /\ heartbeats > 0) \/ Polling

\* Subscriptions, repeated fallbacks and overlapping loops find one transaction
\* through several programs; it is announced at most once for each time its
\* signature entered processedSignatures.
AnnouncedPerResidency == \A s \in Sig : credit[s] >= 0

\* The cursor of a program never passes a transaction without a reason: each one
\* up to it failed, was given to the queue or refused by it when full, was seen
\* in the logs without a claim, was cut off by the page limit, or is in a page
\* that is being worked off.
CursorCoverage ==
    \A p \in Program : \A k \in DOMAIN ledger[p] :
        \/ lastSig[p] \in Range(SubSeq(ledger[p], 1, k - 1)) \cup {NoSig}
        \/ ledger[p][k] \in Failed \cup Range(asked) \cup passedOver
        \/ \E l \in Loop : loop[l].at = "page" /\ ledger[p][k] \in Range(loop[l].page)

\* A silent socket is replaced, by a new one or by polling.
QuietSocketReplaced == wsQuiet ~> ~wsQuiet \/ Polling

\* While the node answers now and then, polling reaches every transaction that
\* the page limit does not cut off, although one error gives up a whole round.
PollingSees ==
    \A p \in Program, s \in Sig :
        (s \in Range(ledger[p]) /\ Polling)
            ~> s \in Failed \cup Range(asked) \cup passedOver

=============================================================================
