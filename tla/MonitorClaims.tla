----------------------------- MODULE MonitorClaims -----------------------------
(***************************************************************************)
(* The claim monitor of the monitor bot (packages/monitor/src/monitor.ts): *)
(* poll loops or log subscriptions find signatures and enqueue them in the *)
(* request queue of RpcQueue, whose tasks are processTransactionThrottled. *)
(* The /monitor and /stopmonitor commands start and stop it at any time.   *)
(* A page of signatures is enqueued without an await in between: while     *)
(* burst is not empty nothing else runs.                                   *)
(***************************************************************************)
EXTENDS Naturals, Sequences, FiniteSets, Functions

CONSTANTS Sig,           \* signatures of the transactions that may appear
          NumPrograms,   \* MONITORED_PROGRAM_IDS.length
          Touches,       \* Touches[p]: the transactions that mention program p
          Failed,        \* transactions with an error
          Ws,            \* SOLANA_WS_URL is set
          LIMIT,         \* signatures per page, 10 in the code
          CACHE_MAX,     \* MAX_PROCESSED_CACHE, 10_000 in the code
          EVICT,         \* entries evicted at a time, 1000 in the code
          MAX_ATTEMPTS,  \* 3 in the code
          MaxStarts,     \* bound: calls of start()
          MaxPolls,      \* bound: polls started by a running monitor
          MAX_QUEUE_SIZE, MAX_CONCURRENCY, MaxTickets, NoSig

Program == 1..NumPrograms
Loop == (1..MaxStarts) \X {"initial", "loop"}

ASSUME MonitorClaimsAssumption ==
    /\ NumPrograms \in Nat \ {0} /\ Touches \in [Program -> SUBSET Sig]
    /\ Failed \subseteq Sig /\ NoSig \notin Sig
    /\ LIMIT \in Nat \ {0} /\ CACHE_MAX \in Nat /\ EVICT \in 1..CACHE_MAX
    /\ MAX_ATTEMPTS \in Nat \ {0} /\ MaxStarts \in Nat /\ MaxTickets \in Nat

VARIABLES ledger,      \* per program, its confirmed transactions, oldest first (the node's)
          isRunning, starts, polls,
          subs,        \* programs with a log subscription
          delivered,   \* log notifications delivered: program and signature
          pollTimer,   \* the start whose loop armed pollTimer last, 0 if none
          act,         \* the poll loops: one per start and one initial poll each
          lastSig,     \* lastSignatures
          burst,       \* signatures of the page at hand, not enqueued yet
          asked,       \* the signature behind each ticket of the queue
          attempt,     \* per ticket, getParsedTransaction attempts so far
          processed,   \* processedSignatures, in insertion order
          notified,    \* history: calls of onClaim() per signature
          handled,     \* history: signatures that were ever in processedSignatures
          dropped,     \* history: signatures refused by a full queue
          skipped,     \* history: signatures cut off by the limit of a page
          queue, accepted, running, inFlight, processing, sleepers

Queue == INSTANCE RpcQueue

queueVars == <<queue, accepted, running, inFlight, processing, sleepers>>
runVars == <<isRunning, starts, polls, subs, pollTimer, act>>
seenVars == <<attempt, processed, notified, handled>>
monitorVars == <<ledger, runVars, delivered, lastSig, burst, asked, seenVars, dropped,
                 skipped, queueVars>>

At(where, p, until) == [at |-> where, prog |-> p, until |-> until, page |-> <<>>]
Off == At("off", 1, NoSig)
Timer == At("timer", 1, NoSig)

MonitorTypeOK ==
    /\ ledger \in [Program -> Seq(Sig)] /\ isRunning \in BOOLEAN
    /\ starts \in 0..MaxStarts /\ polls \in Nat
    /\ subs \subseteq Program /\ delivered \subseteq Program \X Sig
    /\ pollTimer \in 0..starts
    /\ \A a \in Loop :
           /\ act[a].at \in {"off", "timer", "asked", "answered", "pause"}
           /\ act[a].prog \in Program /\ act[a].until \in Sig \cup {NoSig}
           /\ act[a].page \in Seq(Sig) /\ Len(act[a].page) <= LIMIT
    /\ lastSig \in [Program -> Sig \cup {NoSig}] /\ burst \in Seq(Sig)
    /\ asked \in Seq(Sig) /\ Len(asked) = accepted
    /\ attempt \in [1..MaxTickets -> 0..MAX_ATTEMPTS]
    /\ processed \in Seq(Sig) /\ IsInjective(processed) /\ Len(processed) <= CACHE_MAX
    /\ notified \in [Sig -> Nat]
    /\ Queue!TypeOK

MonitorInit == /\ ledger = [p \in Program |-> <<>>] /\ isRunning = FALSE /\ starts = 0 /\ polls = 0
               /\ subs = {} /\ delivered = {} /\ pollTimer = 0
               /\ act = [a \in Loop |-> Off] /\ lastSig = [p \in Program |-> NoSig]
               /\ burst = <<>> /\ asked = <<>>
               /\ attempt = [t \in 1..MaxTickets |-> 0]
               /\ processed = <<>> /\ notified = [s \in Sig |-> 0]
               /\ handled = {} /\ dropped = {} /\ skipped = {}
               /\ Queue!Init

------------------------------------------------------------------------------
(* The queue and its tasks *)

\* markProcessed(): adds the signature, evicts the oldest when the cache is full.
Remember(s) ==
    LET all == IF s \in Range(processed) THEN processed ELSE Append(processed, s)
    IN processed' = IF Len(all) > CACHE_MAX THEN SubSeq(all, EVICT + 1, Len(all)) ELSE all

\* A task the queue starts in this step runs to its first await.
MarkStarted ==
    /\ IF running' \subseteq running THEN UNCHANGED <<processed, handled>>
       ELSE \E t \in running' \ running :
                Remember(asked'[t]) /\ handled' = handled \cup {asked'[t]}
    /\ UNCHANGED <<attempt, notified>>

\* rpcQueue.enqueue(s)
Enqueue(s) ==
    IF Len(queue) < MAX_QUEUE_SIZE
    THEN /\ Queue!Enqueue
         /\ asked' = Append(asked, s)
         /\ MarkStarted
         /\ UNCHANGED dropped
    ELSE dropped' = dropped \cup {s} /\ UNCHANGED <<queueVars, asked, seenVars>>

\* The throttle sleep of the queue ends.
Wake == /\ burst = <<>>
        /\ Queue!Wake
        /\ UNCHANGED asked
        /\ MarkStarted
        /\ UNCHANGED <<ledger, runVars, delivered, lastSig, burst, dropped, skipped>>

\* getParsedTransaction() was refused with a 429: sleep and try again.
RetryFetch_Unlimited(t) ==
    /\ burst = <<>> /\ t \in running
    /\ UNCHANGED <<ledger, runVars, delivered, lastSig, burst, asked, processed, notified,
                   handled, dropped, skipped, queueVars>>
    /\ attempt' = [attempt EXCEPT ![t] = 1 - @]
RetryFetch(t) ==
    /\ burst = <<>> /\ t \in running
    /\ attempt[t] + 1 < MAX_ATTEMPTS
    /\ attempt' = [attempt EXCEPT ![t] = @ + 1]
    /\ UNCHANGED <<ledger, runVars, delivered, lastSig, burst, asked, processed, notified,
                   handled, dropped, skipped, queueVars>>

\* The task ends: with the transaction, whose claims are announced, or without.
Finish(t, found) ==
    /\ burst = <<>>
    /\ Queue!Settle(t)
    /\ UNCHANGED asked
    /\ IF running' \subseteq running THEN UNCHANGED <<processed, handled>>
       ELSE \E u \in running' \ running :
                Remember(asked[u]) /\ handled' = handled \cup {asked[u]}
    /\ notified' = IF found THEN [notified EXCEPT ![asked[t]] = @ + 1] ELSE notified
    /\ UNCHANGED <<ledger, runVars, delivered, lastSig, burst, attempt, dropped, skipped>>

------------------------------------------------------------------------------
(* start(), stop() and the log subscriptions *)

\* start() subscribes when SOLANA_WS_URL is set; when it is not, or
\* startWebSocket() throws, it polls.
Start == /\ burst = <<>> /\ ~isRunning /\ starts < MaxStarts
         /\ isRunning' = TRUE /\ starts' = starts + 1
         /\ \/ Ws /\ subs' = Program /\ UNCHANGED <<pollTimer, act>>
            \/ /\ pollTimer' = starts'
               /\ act' = [act EXCEPT ![<<starts', "initial">>] = Timer,
                                     ![<<starts', "loop">>] = Timer]
               /\ UNCHANGED subs
         /\ UNCHANGED <<ledger, polls, delivered, lastSig, burst, asked, seenVars, dropped,
                        skipped, queueVars>>

\* stop(): clears pollTimer; a poll under way, the initial one among them, goes on.
Stop == /\ burst = <<>> /\ isRunning
        /\ isRunning' = FALSE /\ subs' = {} /\ pollTimer' = 0
        /\ act' = [a \in Loop |-> IF a = <<pollTimer, "loop">> /\ act[a].at = "timer"
                                  THEN Off ELSE act[a]]
        /\ UNCHANGED <<ledger, starts, polls, delivered, lastSig, burst, asked, seenVars,
                       dropped, skipped, queueVars>>

\* A transaction is confirmed (the environment).
Confirm(s) == /\ burst = <<>>
              /\ \A p \in Program : s \notin Range(ledger[p])
              /\ ledger' = [p \in Program |-> IF s \in Touches[p] THEN Append(ledger[p], s)
                                                                 ELSE ledger[p]]
              /\ UNCHANGED <<runVars, delivered, lastSig, burst, asked, seenVars, dropped,
                             skipped, queueVars>>

\* handleLogEvent() for a transaction whose logs look like a claim.
LogEvent(p, s) ==
    /\ burst = <<>> /\ p \in subs
    /\ s \in Range(ledger[p]) /\ <<p, s>> \notin delivered
    /\ delivered' = delivered \cup {<<p, s>>}
    /\ IF s \in Failed \cup Range(processed)
       THEN UNCHANGED <<queueVars, asked, seenVars, dropped>> ELSE Enqueue(s)
    /\ UNCHANGED <<ledger, runVars, lastSig, burst, skipped>>

------------------------------------------------------------------------------
(* Polling *)

pollRest == <<ledger, isRunning, starts, subs, delivered, asked, seenVars, dropped,
              queueVars>>

Ask(a, p) == act' = [act EXCEPT ![a] = At("asked", p, lastSig[p])]

\* A timer fires: poll() asks for the signatures of the first program.
PollStart(a) ==
    /\ burst = <<>> /\ act[a].at = "timer"
    /\ isRunning => polls < MaxPolls
    /\ polls' = IF isRunning THEN polls + 1 ELSE polls
    /\ Ask(a, 1)
    /\ UNCHANGED <<pollRest, pollTimer, lastSig, burst, skipped>>

\* The node answers: the newest LIMIT signatures after until, newest first.
Newer(p, until) ==
    LET h == ledger[p]
        from == IF until \in Range(h) THEN CHOOSE k \in DOMAIN h : h[k] = until ELSE 0
    IN SubSeq(h, from + 1, Len(h))
Answer(a) ==
    /\ burst = <<>> /\ act[a].at = "asked"
    /\ LET new == Newer(act[a].prog, act[a].until)
           n == IF Len(new) < LIMIT THEN Len(new) ELSE LIMIT
       IN act' = [act EXCEPT ![a].at = "answered",
                             ![a].page = [k \in 1..n |-> new[Len(new) - k + 1]]]
    /\ UNCHANGED <<pollRest, polls, pollTimer, lastSig, burst, skipped>>

\* The cursor of pollProgram(): reverse() works in place, so that the element
\* signatures[0] it stores is the oldest of the page.
Cursor(page) == page[Len(page)]
Oldest(page) == [k \in DOMAIN page |-> page[Len(page) - k + 1]]

\* pollProgram() after its await.
Continue(a) ==
    /\ burst = <<>> /\ act[a].at = "answered"
    /\ LET p == act[a].prog
           page == act[a].page
       IN IF page = <<>> THEN UNCHANGED <<lastSig, burst, skipped>>
          ELSE /\ lastSig' = [lastSig EXCEPT ![p] = Cursor(page)]
               /\ burst' = Oldest(page)
               /\ skipped' = skipped \cup
                      (Range(Newer(p, act[a].until))
                           \ (Range(page) \cup Range(Newer(p, page[Len(page)]))))
    /\ act' = [act EXCEPT ![a] = At("pause", act[a].prog, NoSig)]
    /\ UNCHANGED <<pollRest, polls, pollTimer>>

\* The next signature of the page: enqueued unless it failed or was processed.
EnqueueNext_SkipsQueued ==
    /\ burst # <<>>
    /\ burst' = Tail(burst)
    /\ IF Head(burst) \in Failed \cup Range(processed) \/ queue # <<>>
       THEN UNCHANGED <<queueVars, asked, seenVars, dropped>> ELSE Enqueue(Head(burst))
    /\ UNCHANGED <<ledger, runVars, delivered, lastSig, skipped>>
EnqueueNext ==
    /\ burst # <<>>
    /\ burst' = Tail(burst)
    /\ IF Head(burst) \in Failed \cup Range(processed)
       THEN UNCHANGED <<queueVars, asked, seenVars, dropped>> ELSE Enqueue(Head(burst))
    /\ UNCHANGED <<ledger, runVars, delivered, lastSig, skipped>>

\* The request fails: logged, and on with the next program.
PollError(a) ==
    /\ burst = <<>> /\ act[a].at = "asked"
    /\ act' = [act EXCEPT ![a] = At("pause", act[a].prog, NoSig)]
    /\ UNCHANGED <<pollRest, polls, pollTimer, lastSig, burst, skipped>>

PollNext(a) ==
    /\ burst = <<>> /\ act[a].at = "pause" /\ act[a].prog < NumPrograms
    /\ Ask(a, act[a].prog + 1)
    /\ UNCHANGED <<pollRest, polls, pollTimer, lastSig, burst, skipped>>

\* poll() returns: a loop schedules itself again while the monitor is running.
PollEnd_Always(a) ==
    /\ burst = <<>> /\ act[a].at = "pause" /\ act[a].prog = NumPrograms
    /\ act' = [act EXCEPT ![a] = IF a[2] = "loop" THEN Timer ELSE Off]
    /\ pollTimer' = IF a[2] = "loop" THEN a[1] ELSE pollTimer
    /\ UNCHANGED <<pollRest, polls, lastSig, burst, skipped>>
PollEnd(a) ==
    /\ burst = <<>> /\ act[a].at = "pause" /\ act[a].prog = NumPrograms
    /\ IF isRunning /\ a[2] = "loop"
       THEN act' = [act EXCEPT ![a] = Timer] /\ pollTimer' = a[1]
       ELSE act' = [act EXCEPT ![a] = Off] /\ UNCHANGED pollTimer
    /\ UNCHANGED <<pollRest, polls, lastSig, burst, skipped>>

PollStep(a) == PollStart(a) \/ Answer(a) \/ Continue(a) \/ PollError(a)
               \/ PollNext(a) \/ PollEnd(a)

MonitorNext == \/ Start \/ Stop \/ EnqueueNext \/ Wake
               \/ \E s \in Sig : Confirm(s)
               \/ \E p \in Program, s \in Sig : LogEvent(p, s)
               \/ \E a \in Loop : PollStep(a)
               \/ \E t \in running : RetryFetch(t) \/ \E found \in BOOLEAN : Finish(t, found)

\* Code between awaits runs on; timers fire; requests settle.
MonitorFairness ==
    /\ WF_monitorVars(EnqueueNext) /\ WF_monitorVars(Wake)
    /\ \A a \in Loop : WF_monitorVars(PollStep(a))
    /\ \A t \in 1..MaxTickets :
           WF_monitorVars(/\ t \in running
                          /\ RetryFetch(t) \/ \E found \in BOOLEAN : Finish(t, found))

MonitorSpec == MonitorInit /\ [][MonitorNext]_monitorVars
MonitorFairSpec == MonitorSpec /\ MonitorFairness

------------------------------------------------------------------------------
\* The cursor of a program never passes a transaction without a reason: each one
\* up to it failed, was processed once, waits in the queue or in the page at
\* hand, was refused by a full queue, or was cut off by the page limit.
CursorCoverage ==
    \A p \in Program : \A k \in DOMAIN ledger[p] :
        \/ lastSig[p] \in Range(SubSeq(ledger[p], 1, k - 1)) \cup {NoSig}
        \/ ledger[p][k] \in Failed \cup handled \cup dropped \cup skipped \cup Range(burst)
                              \cup {asked[t] : t \in Range(queue)}

\* A stopped monitor falls silent: the polls under way end and no loop goes on,
\* whatever start() and stop() calls came before.
StopEnds ==
    ~isRunning ~> isRunning \/ \A a \in Loop : act[a].at = "off"

\* Whatever is queued is processed and its task ends, after a bounded number of
\* retries.
QueuedIsFinished ==
    \A t \in 1..MaxTickets : accepted >= t ~> t \notin running \cup Range(queue)

\* "Track processed signatures to avoid duplicate notifications" (the comment of
\* processedSignatures).
NotifiedOnce == \A s \in Sig : notified[s] <= 1

=============================================================================
