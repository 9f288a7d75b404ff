------------------------------- MODULE RpcQueue -------------------------------
(***************************************************************************)
(* The rate-limited request queue of the channel bot's claim monitor       *)
(* (packages/channel/src/claim-monitor.ts; packages/monitor/src/monitor.ts *)
(* holds a copy of the class).  enqueue() pushes and calls drain(), an     *)
(* async loop that suspends only in its throttling sleep; the tasks it     *)
(* starts are not awaited, and each one, when it settles, calls drain()    *)
(* again.  Everything between two suspensions is one step here.            *)
(***************************************************************************)
EXTENDS Naturals, Sequences, FiniteSets

CONSTANTS MAX_QUEUE_SIZE,   \* 50 in the code
          MAX_CONCURRENCY,  \* 1 in both bots
          MaxTickets        \* bound: how many requests callers enqueue

ASSUME QueueAssumption == /\ MAX_QUEUE_SIZE \in Nat \ {0}
                          /\ MAX_CONCURRENCY \in Nat \ {0}
                          /\ MaxTickets \in Nat

VARIABLES queue,       \* tickets waiting, oldest first
          accepted,    \* history: number of tickets accepted
          running,     \* tasks started and not settled
          inFlight,    \* the code's counter of them
          processing,  \* the flag that keeps drain() from running twice
          sleepers     \* drain() activations suspended in the throttle sleep

vars == <<queue, accepted, running, inFlight, processing, sleepers>>

Ticket == Nat \ {0}

TypeOK == /\ queue \in Seq(Ticket)
          /\ accepted \in Nat
          /\ running \in SUBSET Ticket
          /\ inFlight \in Nat
          /\ processing \in BOOLEAN
          /\ sleepers \in Nat

Init == /\ queue = <<>>
        /\ accepted = 0
        /\ running = {}
        /\ inFlight = 0
        /\ processing = FALSE
        /\ sleepers = 0

------------------------------------------------------------------------------
\* The test of the while loop, on the queue q and the counter n.
MayStart(q, n) == q # <<>> /\ n < MAX_CONCURRENCY

\* The loop goes to sleep when there is more to start, and ends otherwise;
\* asleep is the number of activations suspended besides this one.
SleepOrEnd_KeepsFlag(q, n, asleep) ==
    /\ sleepers' = IF MayStart(q, n) THEN asleep + 1 ELSE asleep
    /\ processing' = TRUE
SleepOrEnd(q, n, asleep) ==
    IF MayStart(q, n)
    THEN sleepers' = asleep + 1 /\ processing' = TRUE
    ELSE sleepers' = asleep /\ processing' = FALSE

\* queue.shift(), inFlight++, processFn(sig), then the next test of the loop:
\* a second start in the same step would be within the minimum interval.
Shift(q, n, tasks, asleep) ==
    /\ queue' = Tail(q)
    /\ inFlight' = n + 1
    /\ running' = tasks \cup {Head(q)}
    /\ SleepOrEnd(Tail(q), n + 1, asleep)

\* A call of drain() with the queue q, the counter n and the running tasks.
\* When the minimum interval has passed the first task starts at once.
Drain(q, n, tasks) ==
    \/ /\ processing
       /\ queue' = q /\ inFlight' = n /\ running' = tasks
       /\ UNCHANGED <<processing, sleepers>>
    \/ /\ ~processing
       /\ MayStart(q, n)
       /\ Shift(q, n, tasks, sleepers)
    \/ /\ ~processing
       /\ SleepOrEnd(q, n, sleepers)
       /\ queue' = q /\ inFlight' = n /\ running' = tasks

------------------------------------------------------------------------------
\* enqueue() when there is room; a full queue returns false and changes nothing.
Enqueue_Unbounded ==
    /\ accepted < MaxTickets
    /\ accepted' = accepted + 1
    /\ Drain(Append(queue, accepted + 1), inFlight, running)
Enqueue ==
    /\ accepted < MaxTickets
    /\ Len(queue) < MAX_QUEUE_SIZE
    /\ accepted' = accepted + 1
    /\ Drain(Append(queue, accepted + 1), inFlight, running)

\* The sleep of a drain() activation is over: it takes the next request
\* without testing the loop condition again.
Wake ==
    /\ sleepers > 0
    /\ IF queue = <<>>
       THEN /\ processing' = FALSE
            /\ sleepers' = sleepers - 1
            /\ UNCHANGED <<queue, inFlight, running>>
       ELSE Shift(queue, inFlight, running, sleepers - 1)
    /\ UNCHANGED accepted

\* A task settles, resolved or rejected: the finally() handler counts it out
\* and calls drain().
Settle_NoRedrain(t) ==
    /\ t \in running
    /\ running' = running \ {t}
    /\ inFlight' = inFlight - 1
    /\ UNCHANGED <<queue, accepted, processing, sleepers>>
Settle(t) ==
    /\ t \in running
    /\ Drain(queue, inFlight - 1, running \ {t})
    /\ UNCHANGED accepted

Next == Enqueue \/ Wake \/ \E t \in running : Settle(t)

\* Timers fire, and every request the RPC node was sent settles.
Fairness == WF_vars(Wake) /\ \A t \in 1..MaxTickets : WF_vars(Settle(t))

Spec == Init /\ [][Next]_vars
FairSpec == Spec /\ Fairness

------------------------------------------------------------------------------
\* Tickets leave the queue in the order they were accepted: the n-th to start
\* is ticket n, whatever the interleaving of drain() activations.
started == accepted - Len(queue)

\* The request queue starts accepted requests in order, each once, at most
\* MAX_CONCURRENCY at a time: rpcQueue.enqueue(), drain() and the finally()
\* handlers together implement the queue of TaskQueue.
Tasks == INSTANCE TaskQueue WITH started <- started
ImplementsTaskQueue == Tasks!TaskSpec

\* drain() may be called from enqueue() and from every finally() handler while
\* another activation sleeps; still no more than MAX_CONCURRENCY requests are
\* out at a time, and the counter inFlight counts them.
ConcurrencyBound == /\ inFlight = Cardinality(running)
                    /\ inFlight <= MAX_CONCURRENCY

\* A request is never left waiting with nobody to take it: when the queue is
\* not empty an activation of drain() is suspended, or every slot is taken by
\* a task whose finally() handler will call drain().
NoLostWakeup == queue # <<>> => sleepers = 1 \/ inFlight = MAX_CONCURRENCY

\* Every accepted request is started and settles, however enqueue() calls,
\* sleeps and settlements interleave.
EveryAcceptedSettles ==
    \A t \in 1..MaxTickets : accepted >= t ~> started >= t /\ t \notin running

=============================================================================
