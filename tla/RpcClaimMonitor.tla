---------------------------- MODULE RpcClaimMonitor ----------------------------
(***************************************************************************)
(* The claim bot's direct RPC monitor (packages/claim/src/rpc-monitor.ts): *)
(* overlapping pollAll() activations or log subscriptions find signatures, *)
(* a bounded queue hands them one by one to processTransaction(), and a    *)
(* claim is announced with onClaim().                                      *)
(***************************************************************************)
EXTENDS Naturals, Sequences, Functions

CONSTANTS Sig,           \* signatures of the transactions that may appear
          NumPrograms,   \* length of MONITORED_PROGRAM_IDS
          Touches,       \* Touches[p]: the transactions that mention program p
          Failed,        \* transactions with an error
          Claims,        \* transactions with a claim instruction
          Poller,        \* bound: pollAll() activations alive at a time
          WsConfigured,  \* config.solanaWsUrl is set
          MAX_QUEUE,     \* 50 in the code
          POLL_LIMIT,    \* 20
          CACHE_MAX,     \* 10_000: size of processedSigs that triggers eviction
          CACHE_KEEP,    \* 5000: entries kept then
          MaxStarts,     \* bound: calls of start()
          NoSig

Program == 1..NumPrograms

ASSUME MonitorAssumption ==
    /\ NumPrograms \in Nat \ {0} /\ MAX_QUEUE \in Nat /\ POLL_LIMIT \in Nat \ {0}
    /\ CACHE_MAX \in Nat /\ CACHE_KEEP \in 1..CACHE_MAX
    /\ Touches \in [Program -> SUBSET Sig]
    /\ Failed \in SUBSET Sig /\ Claims \in SUBSET Sig
    /\ NoSig \notin Sig
    /\ WsConfigured \in BOOLEAN /\ MaxStarts \in Nat

VARIABLES chain,      \* per program, its confirmed transactions, oldest first (the node's)
          alive, starts,
          interval,   \* pollTimer is set
          initial,    \* 2-second timeouts pending: stop() does not clear them
          wsSubs,     \* log subscriptions per program: stop() does not end them
          delivered,  \* log notifications delivered, per program and signature
          poll,       \* the pollAll() activations
          lastSig,    \* lastSignatures
          queue,      \* TxQueue.queue
          drain,      \* where TxQueue.drain() is
          current,    \* the signature being fetched
          processed,  \* processedSigs, in insertion order
          notified,   \* history: announcements (onClaim()) per signature
          evicted,    \* history: evictions per signature
          dropped,    \* history: signatures refused by a full queue
          skipped     \* history: signatures cut off by the limit of a page

feedVars  == <<chain, alive, starts, interval, initial, wsSubs, delivered, poll, lastSig>>
drainVars == <<queue, drain, current, processed, notified, evicted, dropped>>
vars == <<feedVars, drainVars, skipped>>

At(where, p, until) ==
    [at |-> where, prog |-> p, until |-> until, page |-> <<>>, cut |-> {}]
Idle == At("idle", 1, NoSig)

Activation == [at : {"idle", "asked", "answered", "pause"}, prog : Program,
               until : Sig \cup {NoSig}, page : Seq(Sig), cut : SUBSET Sig]

TypeOK == /\ chain \in [Program -> Seq(Sig)] /\ alive \in BOOLEAN /\ starts \in Nat
          /\ interval \in BOOLEAN /\ initial \in Nat /\ wsSubs \in Nat
          /\ delivered \in [Program \X Sig -> Nat]
          /\ poll \in [Poller -> Activation]
          /\ lastSig \in [Program -> Sig \cup {NoSig}]
          /\ queue \in Seq(Sig) /\ processed \in Seq(Sig)
          /\ drain \in {"idle", "sleep", "fetch"} /\ current \in Sig \cup {NoSig}
          /\ notified \in [Sig -> Nat] /\ evicted \in [Sig -> Nat]
          /\ dropped \in SUBSET Sig /\ skipped \in SUBSET Sig

Init == /\ chain = [p \in Program |-> <<>>] /\ alive = FALSE /\ starts = 0
        /\ interval = FALSE /\ initial = 0 /\ wsSubs = 0
        /\ delivered = [e \in Program \X Sig |-> 0]
        /\ poll = [i \in Poller |-> Idle]
        /\ lastSig = [p \in Program |-> NoSig]
        /\ queue = <<>> /\ drain = "idle" /\ current = NoSig /\ processed = <<>>
        /\ notified = [s \in Sig |-> 0] /\ evicted = [s \in Sig |-> 0]
        /\ dropped = {} /\ skipped = {}

------------------------------------------------------------------------------
(* TxQueue and processTransaction() *)

\* processedSigs.has(s), the test that opens processTransaction().
Seen(s) == s \in Range(processed)

\* processedSigs.add(s) and the eviction of all but the CACHE_KEEP newest.
Remember(s) ==
    LET all == Append(processed, s)
        old == Len(all) - CACHE_KEEP
    IN IF Len(all) > CACHE_MAX
       THEN /\ processed' = SubSeq(all, old + 1, Len(all))
            /\ evicted' = [x \in Sig |-> evicted[x]
                             + (IF \E k \in 1..old : all[k] = x THEN 1 ELSE 0)]
       ELSE processed' = all /\ UNCHANGED evicted

\* drain() shifts s; rest is what the queue holds when the loop goes on. A
\* signature already seen returns at once, another one is remembered first and
\* fetched then.
Process_Unmarked(s, rest) ==
    /\ queue' = rest
    /\ drain' = "fetch" /\ current' = s /\ UNCHANGED <<processed, evicted>>
Process(s, rest) ==
    /\ queue' = rest
    /\ IF Seen(s)
       THEN /\ drain' = IF rest = <<>> THEN "idle" ELSE "sleep"
            /\ current' = NoSig /\ UNCHANGED <<processed, evicted>>
       ELSE drain' = "fetch" /\ current' = s /\ Remember(s)

\* enqueue() called for each of news in turn: what q holds then.
Lesser(m, n) == IF m < n THEN m ELSE n
Room(q) == MAX_QUEUE - Lesser(MAX_QUEUE, Len(q))
AcceptAll(q, news) == q \o SubSeq(news, 1, Lesser(Room(q), Len(news)))
Refused(q, news) == {news[k] : k \in (Room(q) + 1)..Len(news)}

\* A synchronous run of enqueue() calls. The first one on an idle queue starts
\* drain(), which shifts at once unless it has to wait out the interval.
EnqueueAll(news) ==
    \/ /\ drain # "idle" \/ news = <<>>
       /\ queue' = AcceptAll(queue, news)
       /\ dropped' = dropped \cup Refused(queue, news)
       /\ UNCHANGED <<drain, current, processed, notified, evicted>>
    \/ /\ drain = "idle" /\ AcceptAll(queue, news) # <<>>
       /\ queue' = AcceptAll(queue, news)
       /\ dropped' = dropped \cup Refused(queue, news)
       /\ drain' = "sleep"
       /\ UNCHANGED <<current, processed, notified, evicted>>
    \/ /\ drain = "idle" /\ news # <<>> /\ Room(queue) > 0
       /\ LET q == Append(queue, news[1])
          IN /\ Process(q[1], AcceptAll(Tail(q), Tail(news)))
             /\ dropped' = dropped \cup Refused(Tail(q), Tail(news))
       /\ UNCHANGED notified

\* The throttle sleep of drain() ends.
Take == /\ drain = "sleep"
        /\ Process(queue[1], Tail(queue))
        /\ UNCHANGED <<feedVars, notified, dropped, skipped>>

\* getTransaction() settles: found, so each claim is announced, or rejected,
\* null or failed on chain, in which case drain() carries on with the next one.
Fetched_Uncaught(found) ==
    /\ drain = "fetch"
    /\ notified' = [notified EXCEPT ![current] =
                      @ + (IF found /\ current \in Claims \ Failed THEN 1 ELSE 0)]
    /\ drain' = IF ~found THEN "dead" ELSE IF queue = <<>> THEN "idle" ELSE "sleep"
    /\ current' = NoSig
    /\ UNCHANGED <<feedVars, queue, processed, evicted, dropped, skipped>>
Fetched(found) ==
    /\ drain = "fetch"
    /\ notified' = [notified EXCEPT ![current] =
                      @ + (IF found /\ current \in Claims \ Failed THEN 1 ELSE 0)]
    /\ drain' = IF queue = <<>> THEN "idle" ELSE "sleep"
    /\ current' = NoSig
    /\ UNCHANGED <<feedVars, queue, processed, evicted, dropped, skipped>>

------------------------------------------------------------------------------
(* start(), stop(), the WebSocket callbacks and the pollers *)

Start == /\ ~alive /\ starts < MaxStarts
         /\ alive' = TRUE /\ starts' = starts + 1
         /\ \/ /\ WsConfigured
               /\ wsSubs' = wsSubs + 1 /\ UNCHANGED <<interval, initial>>
            \/ \* no WebSocket URL, or startWebSocket() threw
               /\ interval' = TRUE /\ initial' = initial + 1 /\ UNCHANGED wsSubs
         /\ UNCHANGED <<chain, delivered, poll, lastSig, drainVars, skipped>>

\* The listeners are removed from this.connection, which does not hold them.
Stop == /\ alive
        /\ alive' = FALSE /\ interval' = FALSE
        /\ UNCHANGED <<chain, starts, initial, wsSubs, delivered, poll, lastSig,
                       drainVars, skipped>>

\* A transaction is confirmed (the environment).
Confirm(s) == /\ \A p \in Program : s \notin Range(chain[p])
              /\ chain' = [p \in Program |-> IF s \in Touches[p] THEN Append(chain[p], s)
                                                               ELSE chain[p]]
              /\ UNCHANGED <<alive, starts, interval, initial, wsSubs, delivered,
                             poll, lastSig, drainVars, skipped>>

\* A subscription of program p delivers the logs of s.
WsLogs(p, s) ==
    /\ s \in Range(chain[p])
    /\ delivered[<<p, s>>] < wsSubs
    /\ delivered' = [delivered EXCEPT ![<<p, s>>] = @ + 1]
    /\ IF s \in Failed \/ Seen(s) \/ s \notin Claims
       THEN UNCHANGED drainVars
       ELSE EnqueueAll(<<s>>)
    /\ UNCHANGED <<chain, alive, starts, interval, initial, wsSubs, poll, lastSig, skipped>>

\* pollProgram() up to its await: the cursor is read when the request is sent.
Ask(i, p) ==
    /\ poll' = [poll EXCEPT ![i] = At("asked", p, lastSig[p])]
    /\ UNCHANGED <<chain, alive, starts, interval, wsSubs, delivered, lastSig,
                   drainVars, skipped>>

\* The interval or an initial timeout fires, whether or not earlier activations
\* of pollAll() are done; pollAll() does not look at alive.
PollStart(i) ==
    /\ poll[i].at = "idle"
    /\ \/ interval /\ UNCHANGED initial
       \/ initial > 0 /\ initial' = initial - 1
    /\ Ask(i, 1)

PollNext(i) == /\ poll[i].at = "pause" /\ poll[i].prog < NumPrograms
               /\ Ask(i, poll[i].prog + 1)
               /\ UNCHANGED initial

PollEnd(i) == /\ poll[i].at = "pause" /\ poll[i].prog = NumPrograms
              /\ poll' = [poll EXCEPT ![i] = Idle]
              /\ UNCHANGED <<chain, alive, starts, interval, initial, wsSubs, delivered,
                             lastSig, drainVars, skipped>>

\* The RPC node answers getSignaturesForAddress: the newest POLL_LIMIT of the
\* program's signatures that came after until, newest first.
Newer(p, until) ==
    LET h == chain[p]
        from == IF until \in Range(h) THEN CHOOSE k \in 1..Len(h) : h[k] = until ELSE 0
    IN SubSeq(h, from + 1, Len(h))
PageOf(new) == [k \in 1..Lesser(Len(new), POLL_LIMIT) |-> new[Len(new) - k + 1]]

Answer(i) ==
    /\ poll[i].at = "asked"
    /\ LET new == Newer(poll[i].prog, poll[i].until) IN
       poll' = [poll EXCEPT ![i].at = "answered", ![i].page = PageOf(new),
                            ![i].cut = Range(new) \ Range(PageOf(new))]
    /\ UNCHANGED <<chain, alive, starts, interval, initial, wsSubs, delivered, lastSig,
                   drainVars, skipped>>

\* news lists what list holds at the positions `kept`, in order.
Lists(news, list, kept) ==
    \E at \in [DOMAIN news -> kept] :
        /\ kept = Range(at)
        /\ \A j, k \in DOMAIN news : j < k => at[j] < at[k]
        /\ \A k \in DOMAIN news : news[k] = list[at[k]]

\* news are the signatures of a page that pollProgram() hands to the queue.
Wanted(s) == s \notin Failed /\ ~Seen(s)
IsFresh_SkipsNewest(news, page) ==
    Lists(news, page, {k \in DOMAIN page : k > 1 /\ Wanted(page[k])})
IsFresh(news, page) == Lists(news, page, {k \in DOMAIN page : Wanted(page[k])})

\* pollProgram() after its await: the cursor moves to the newest of the page
\* before anything is enqueued, and whatever another activation set meanwhile.
PollContinue(i) ==
    /\ poll[i].at = "answered"
    /\ poll' = [poll EXCEPT ![i] = At("pause", poll[i].prog, NoSig)]
    /\ IF poll[i].page = <<>>
       THEN UNCHANGED <<lastSig, drainVars, skipped>>
       ELSE /\ lastSig' = [lastSig EXCEPT ![poll[i].prog] = poll[i].page[1]]
            /\ skipped' = skipped \cup poll[i].cut
            /\ \E n \in 0..Len(poll[i].page) :
                 \E news \in [1..n -> Range(poll[i].page)] :
                     IsFresh(news, poll[i].page) /\ EnqueueAll(news)
    /\ UNCHANGED <<chain, alive, starts, interval, initial, wsSubs, delivered>>

\* The request is rejected: pollAll() swallows it and goes to the next program.
PollError(i) ==
    /\ poll[i].at = "asked"
    /\ poll' = [poll EXCEPT ![i] = At("pause", poll[i].prog, NoSig)]
    /\ UNCHANGED <<chain, alive, starts, interval, initial, wsSubs, delivered, lastSig,
                   drainVars, skipped>>

Next == \/ Start \/ Stop \/ Take
        \/ \E found \in BOOLEAN : Fetched(found)
        \/ \E s \in Sig : Confirm(s)
        \/ \E p \in Program, s \in Sig : WsLogs(p, s)
        \/ \E i \in Poller : \/ PollStart(i) \/ PollNext(i) \/ PollEnd(i)
                             \/ Answer(i) \/ PollContinue(i) \/ PollError(i)

\* Sleeps end and RPC requests settle.
Fairness == WF_vars(Take) /\ WF_vars(\E found \in BOOLEAN : Fetched(found))

Spec == Init /\ [][Next]_vars
FairSpec == Spec /\ Fairness

------------------------------------------------------------------------------
\* A claim is announced at most once for each time its signature enters
\* processedSigs: never twice as long as it is remembered, however many
\* subscriptions, pages and overlapping polls deliver it.
OncePerResidency == \A s \in Sig : notified[s] <= evicted[s] + (IF Seen(s) THEN 1 ELSE 0)

\* The cursor of a program never passes a transaction without a reason: each
\* one up to it failed, was taken up, waits in the queue, was refused by a full
\* queue, or was cut off by the page limit; overlapping polls that move the
\* cursor back and forth lose no other.
CursorCoverage ==
    \A p \in Program : \A k \in 1..Len(chain[p]) :
        \/ lastSig[p] \in Range(SubSeq(chain[p], 1, k - 1)) \cup {NoSig}
        \/ LET s == chain[p][k] IN
           \/ Seen(s) \/ evicted[s] > 0
           \/ s \in Failed \cup Range(queue) \cup dropped \cup skipped

\* A signature that is waiting in the queue is taken up, whatever fails before.
QueuedIsTakenUp == \A s \in Sig : s \in Range(queue) ~> s \notin Range(queue)

=============================================================================
