-------------------------- MODULE MonitorClaimsProofs --------------------------
(***************************************************************************)
(* Proofs about the claim monitor of the monitor bot, for every number of  *)
(* programs, page limit, cache size and queue size: its types, and that    *)
(* its cursors pass no transaction without a reason.                       *)
(***************************************************************************)
EXTENDS MonitorClaims, FiniteSetTheorems, TLAPS

Ticket == Nat \ {0}

------------------------------------------------------------------------------
(* The request queue.  Tickets are consecutive and leave the queue at its      *)
(* head, so that the one taken next is not running yet: a step that starts a   *)
(* task remembers exactly the signature of the ticket that left the queue.     *)

\* A queue q of consecutive tickets ending with the last one accepted, and n
\* running tasks, all of tickets that left the queue.
Fifo(q, acc, tasks, n) ==
    /\ q \in Seq(Ticket) /\ acc \in Nat /\ Len(q) <= acc
    /\ \A k \in 1..Len(q) : q[k] = acc - Len(q) + k
    /\ tasks \subseteq 1..(acc - Len(q))
    /\ IsFiniteSet(tasks) /\ n = Cardinality(tasks)

\* The ticket at the head is not running; it may start.
LEMMA HeadStarts ==
  ASSUME NEW q, NEW acc, NEW tasks, NEW n, Fifo(q, acc, tasks, n), q # <<>>
  PROVE  /\ Head(q) \notin tasks /\ Head(q) \in 1..acc
         /\ Fifo(Tail(q), acc, tasks \cup {Head(q)}, n + 1)
         /\ Range(q) \subseteq {Head(q)} \cup Range(Tail(q))
  <1>1. /\ q \in Seq(Ticket) /\ Len(q) \in Nat /\ Len(q) > 0 /\ DOMAIN q = 1..Len(q)
        /\ Head(q) = q[1] /\ Tail(q) \in Seq(Ticket) /\ Len(Tail(q)) = Len(q) - 1
        /\ DOMAIN Tail(q) = 1..(Len(q) - 1)
        /\ \A k \in 1..(Len(q) - 1) : Tail(q)[k] = q[k + 1]
    BY DEF Fifo
  <1>2. acc \in Nat /\ Len(q) <= acc /\ Head(q) = acc - Len(q) + 1
    BY <1>1 DEF Fifo
  <1>3. Head(q) \notin tasks
    BY <1>1, <1>2 DEF Fifo
  <1>4. /\ IsFiniteSet(tasks \cup {Head(q)})
        /\ Cardinality(tasks \cup {Head(q)}) = n + 1
    <2>1. IsFiniteSet(tasks) /\ n = Cardinality(tasks)
      BY DEF Fifo
    <2> QED BY <1>3, <2>1, FS_AddElement
  <1>5. \A k \in 1..Len(Tail(q)) : Tail(q)[k] = acc - Len(Tail(q)) + k
    BY <1>1, <1>2 DEF Fifo
  <1>6. tasks \cup {Head(q)} \subseteq 1..(acc - Len(Tail(q)))
    <2>1. acc - Len(Tail(q)) = (acc - Len(q)) + 1 /\ acc - Len(q) \in Nat
      BY <1>1, <1>2
    <2>2. tasks \subseteq 1..(acc - Len(q))
      BY DEF Fifo
    <2>3. PICK m \in Nat : m = acc - Len(q)
      BY <2>1
    <2>4. Head(q) = m + 1 /\ acc - Len(Tail(q)) = m + 1
      BY <1>2, <2>1, <2>3
    <2>5. tasks \cup {m + 1} \subseteq 1..(m + 1)
      <3>1. \A t \in tasks : t \in 1..(m + 1)
        BY <2>2, <2>3
      <3>2. m + 1 \in 1..(m + 1)
        BY <2>3
      <3> QED BY <3>1, <3>2
    <2> QED BY <2>4, <2>5
  <1>7. Range(q) \subseteq {Head(q)} \cup Range(Tail(q))
    <2>1. ASSUME NEW k \in 1..Len(q), k # 1 PROVE q[k] \in Range(Tail(q))
      <3>1. k - 1 \in 1..(Len(q) - 1) /\ Tail(q)[k - 1] = q[k]
        BY <1>1, <2>1
      <3> QED BY <1>1, <3>1 DEF Range
    <2> QED BY <1>1, <2>1 DEF Range
  <1>8. Len(Tail(q)) <= acc
    BY <1>1, <1>2
  <1> QED BY <1>1, <1>2, <1>3, <1>4, <1>5, <1>6, <1>7, <1>8 DEF Fifo

\* enqueue() appends the next ticket.
LEMMA AppendNext ==
  ASSUME NEW q, NEW acc, NEW tasks, NEW n, Fifo(q, acc, tasks, n)
  PROVE  /\ Fifo(Append(q, acc + 1), acc + 1, tasks, n)
         /\ Range(Append(q, acc + 1)) = Range(q) \cup {acc + 1}
  <1> DEFINE r == Append(q, acc + 1)
  <1>1. /\ acc \in Nat /\ q \in Seq(Ticket) /\ Len(q) \in Nat /\ Len(q) <= acc
        /\ DOMAIN q = 1..Len(q) /\ acc + 1 \in Ticket
    BY DEF Fifo, Ticket
  <1>2. /\ r \in Seq(Ticket) /\ Len(r) = Len(q) + 1 /\ DOMAIN r = 1..(Len(q) + 1)
        /\ \A k \in 1..Len(q) : r[k] = q[k]
        /\ r[Len(q) + 1] = acc + 1
    BY <1>1
  <1> HIDE DEF r
  <1>3. \A k \in 1..Len(r) : r[k] = (acc + 1) - Len(r) + k
    BY <1>1, <1>2 DEF Fifo
  <1>4. tasks \subseteq 1..((acc + 1) - Len(r)) /\ Len(r) <= acc + 1 /\ acc + 1 \in Nat
    <2>1. (acc + 1) - Len(r) = acc - Len(q)
      BY <1>1, <1>2
    <2> QED BY <1>1, <1>2, <2>1 DEF Fifo
  <1>5. Fifo(r, acc + 1, tasks, n)
    BY <1>2, <1>3, <1>4 DEF Fifo
  <1>6. Range(r) = Range(q) \cup {acc + 1}
    BY <1>1, <1>2 DEF Range
  <1> QED BY <1>5, <1>6 DEF r

\* A task that settles is counted out.
LEMMA SettleCounts ==
  ASSUME NEW q, NEW acc, NEW tasks, NEW n, Fifo(q, acc, tasks, n), NEW t \in tasks
  PROVE  Fifo(q, acc, tasks \ {t}, n - 1)
  <1>1. IsFiniteSet(tasks) /\ n = Cardinality(tasks)
    BY DEF Fifo
  <1>2. IsFiniteSet(tasks \ {t}) /\ Cardinality(tasks \ {t}) = n - 1
    BY <1>1, FS_RemoveElement
  <1> QED BY <1>2 DEF Fifo

\* The ticket at the head of q starts; it was not running.
Started(q, tasks) ==
    /\ q # <<>> /\ Head(q) \notin tasks /\ running' = tasks \cup {Head(q)}
    /\ Range(q) \subseteq {Head(q)} \cup Range(queue')

\* A call of drain() starts the ticket at the head or nothing.
LEMMA DrainStarts ==
  ASSUME NEW q, NEW acc, NEW tasks, NEW n, Fifo(q, acc, tasks, n), Queue!Drain(q, n, tasks)
  PROVE  /\ Fifo(queue', acc, running', inFlight')
         /\ (queue' = q /\ running' = tasks) \/ Started(q, tasks)
  <1>1. CASE queue' = q /\ inFlight' = n /\ running' = tasks
    BY <1>1
  <1>2. CASE Queue!MayStart(q, n) /\ Queue!Shift(q, n, tasks, sleepers)
    <2>1. /\ q # <<>> /\ queue' = Tail(q) /\ inFlight' = n + 1
          /\ running' = tasks \cup {Head(q)}
      BY <1>2 DEF Queue!MayStart, Queue!Shift
    <2> QED BY <2>1, HeadStarts DEF Started
  <1> QED BY <1>1, <1>2 DEF Queue!Drain

\* The types of the flag and of the number of sleeping activations.
Awake == processing \in BOOLEAN /\ sleepers \in Nat

\* drain() keeps them.
LEMMA DrainTypes ==
  ASSUME Awake, NEW q, NEW tasks, NEW n, Queue!Drain(q, n, tasks)
  PROVE  Awake'
  <1>1. ASSUME NEW r, NEW m, Queue!SleepOrEnd(r, m, sleepers) PROVE Awake'
    <2>1. CASE Queue!MayStart(r, m)
      <3>1. sleepers' = sleepers + 1 /\ processing' = TRUE
        BY <1>1, <2>1 DEF Queue!SleepOrEnd
      <3> QED BY <3>1 DEF Awake
    <2>2. CASE ~Queue!MayStart(r, m)
      <3>1. sleepers' = sleepers /\ processing' = FALSE
        BY <1>1, <2>2 DEF Queue!SleepOrEnd
      <3> QED BY <3>1 DEF Awake
    <2> QED BY <2>1, <2>2
  <1>2. CASE UNCHANGED <<processing, sleepers>>
    BY <1>2 DEF Awake
  <1>3. CASE Queue!Shift(q, n, tasks, sleepers)
    BY <1>1, <1>3 DEF Queue!Shift
  <1>4. CASE Queue!SleepOrEnd(q, n, sleepers)
    BY <1>1, <1>4
  <1> QED BY <1>2, <1>3, <1>4 DEF Queue!Drain

------------------------------------------------------------------------------
(* The memory of signatures: what markProcessed() adds is remembered at once,  *)
(* and whatever is evicted was handled.                                        *)

Memory == /\ processed \in Seq(Sig) /\ IsInjective(processed) /\ Len(processed) <= CACHE_MAX
          /\ notified \in [Sig -> Nat] /\ handled \subseteq Sig
          /\ Range(processed) \subseteq handled

\* What is left of a list without its first e elements.
LEMMA SuffixOf ==
  ASSUME NEW S, NEW r \in Seq(S), NEW e \in Nat, e <= Len(r)
  PROVE  /\ SubSeq(r, e + 1, Len(r)) \in Seq(S)
         /\ Len(SubSeq(r, e + 1, Len(r))) = Len(r) - e
         /\ DOMAIN SubSeq(r, e + 1, Len(r)) = 1..(Len(r) - e)
         /\ \A k \in 1..(Len(r) - e) : SubSeq(r, e + 1, Len(r))[k] = r[e + k]
  <1>1. Len(r) \in Nat
    OBVIOUS
  <1>2. SubSeq(r, e + 1, Len(r)) \in Seq(S)
    BY <1>1
  <1>3. Len(SubSeq(r, e + 1, Len(r))) = Len(r) - e
    BY <1>1
  <1>4. DOMAIN SubSeq(r, e + 1, Len(r)) = 1..(Len(r) - e)
    BY <1>1, <1>2, <1>3
  <1>5. \A k \in 1..(Len(r) - e) : SubSeq(r, e + 1, Len(r))[k] = r[e + k]
    BY <1>1
  <1> QED BY <1>1, <1>2, <1>3, <1>4, <1>5

\* markProcessed() keeps the cache a list without repetitions within its limit,
\* made of what it held and the signature added.
LEMMA RememberKeeps ==
  ASSUME Memory, NEW s \in Sig, Remember(s)
  PROVE  /\ processed' \in Seq(Sig) /\ IsInjective(processed') /\ Len(processed') <= CACHE_MAX
         /\ Range(processed') \subseteq Range(processed) \cup {s}
  <1>1. PICK all : /\ all = IF s \in Range(processed) THEN processed ELSE Append(processed, s)
                   /\ processed' = IF Len(all) > CACHE_MAX THEN SubSeq(all, EVICT + 1, Len(all))
                                   ELSE all
    BY DEF Remember
  <1>2. /\ processed \in Seq(Sig) /\ Len(processed) \in Nat /\ Len(processed) <= CACHE_MAX
        /\ DOMAIN processed = 1..Len(processed)
        /\ \A j, k \in 1..Len(processed) : processed[j] = processed[k] => j = k
        /\ CACHE_MAX \in Nat /\ EVICT \in 1..CACHE_MAX
    BY MonitorClaimsAssumption DEF Memory, IsInjective
  <1>3. /\ all \in Seq(Sig) /\ Len(all) \in Nat /\ Len(all) <= CACHE_MAX + 1
        /\ DOMAIN all = 1..Len(all) /\ IsInjective(all)
        /\ Range(all) \subseteq Range(processed) \cup {s}
    <2>1. CASE s \in Range(processed)
      BY <1>1, <1>2, <2>1 DEF Memory
    <2>2. CASE s \notin Range(processed)
      <3>1. /\ all \in Seq(Sig) /\ Len(all) = Len(processed) + 1
            /\ DOMAIN all = 1..(Len(processed) + 1)
            /\ \A k \in 1..Len(processed) : all[k] = processed[k]
            /\ all[Len(processed) + 1] = s
        BY <1>1, <1>2, <2>2
      <3>2. \A k \in 1..Len(processed) : processed[k] # s
        BY <1>2, <2>2 DEF Range
      <3>3. \A j, k \in 1..(Len(processed) + 1) : all[j] = all[k] => j = k
        BY <1>2, <3>1, <3>2
      <3>4. IsInjective(all)
        BY <3>1, <3>3 DEF IsInjective
      <3>5. Range(all) \subseteq Range(processed) \cup {s}
        BY <1>2, <3>1 DEF Range
      <3> QED BY <1>2, <3>1, <3>4, <3>5
    <2> QED BY <2>1, <2>2
  <1>4. CASE ~(Len(all) > CACHE_MAX)
    BY <1>1, <1>2, <1>3, <1>4
  <1>5. CASE Len(all) > CACHE_MAX
    <2>1. EVICT \in Nat /\ EVICT < Len(all) /\ Len(all) - EVICT <= CACHE_MAX
      BY <1>2, <1>3, <1>5
    <2>2. processed' = SubSeq(all, EVICT + 1, Len(all))
      BY <1>1, <1>5
    <2>3. /\ processed' \in Seq(Sig) /\ Len(processed') = Len(all) - EVICT
          /\ DOMAIN processed' = 1..(Len(all) - EVICT)
          /\ \A k \in 1..(Len(all) - EVICT) : processed'[k] = all[EVICT + k]
      <3>1. EVICT <= Len(all)
        BY <1>3, <2>1
      <3>2. /\ SubSeq(all, EVICT + 1, Len(all)) \in Seq(Sig)
            /\ Len(SubSeq(all, EVICT + 1, Len(all))) = Len(all) - EVICT
            /\ DOMAIN SubSeq(all, EVICT + 1, Len(all)) = 1..(Len(all) - EVICT)
            /\ \A k \in 1..(Len(all) - EVICT) :
                   SubSeq(all, EVICT + 1, Len(all))[k] = all[EVICT + k]
        BY <1>3, <2>1, <3>1, SuffixOf
      <3> QED BY <2>2, <3>2
    <2>4. \A k \in 1..(Len(all) - EVICT) : EVICT + k \in 1..Len(all)
      BY <1>3, <2>1
    <2>5. IsInjective(processed')
      <3>1. ASSUME NEW j \in 1..(Len(all) - EVICT), NEW k \in 1..(Len(all) - EVICT),
                   processed'[j] = processed'[k]
            PROVE  j = k
        <4>1. EVICT + j = EVICT + k
          BY <1>3, <2>3, <2>4, <3>1 DEF IsInjective
        <4> QED BY <2>1, <4>1
      <3> QED BY <2>3, <3>1 DEF IsInjective
    <2>6. Range(processed') \subseteq Range(all)
      BY <1>3, <2>3, <2>4 DEF Range
    <2> QED BY <1>3, <2>1, <2>3, <2>5, <2>6
  <1> QED BY <1>4, <1>5

\* The signature of the task a step starts, if it starts one, is remembered.
Marks == IF running' \subseteq running THEN UNCHANGED <<processed, handled>>
         ELSE \E t \in running' \ running :
                  Remember(asked'[t]) /\ handled' = handled \cup {asked'[t]}

Tickets == /\ Fifo(queue, accepted, running, inFlight) /\ Awake
           /\ asked \in Seq(Sig) /\ Len(asked) = accepted

\* Nothing is forgotten of what waited in the queue or was handled.
Keeps == /\ handled \subseteq handled'
         /\ \A t \in Range(queue) : /\ asked'[t] = asked[t]
                                    /\ t \in Range(queue') \/ asked[t] \in handled'

\* A step of the queue on the waiting tickets q, while `tasks` keep running.
LEMMA QueueMoves ==
  ASSUME Memory, NEW q, NEW acc, NEW tasks, NEW n, Fifo(q, acc, tasks, n),
         (queue' = q /\ running' = tasks) \/ Started(q, tasks), tasks \subseteq running,
         q # <<>> => Head(q) \notin running,
         asked' \in Seq(Sig), Len(asked') = acc, Marks,
         notified' \in [Sig -> Nat]
  PROVE  /\ Memory' /\ handled \subseteq handled'
         /\ \A t \in Range(q) : t \in Range(queue') \/ asked'[t] \in handled'
  <1>1. CASE queue' = q /\ running' = tasks
    <2>1. UNCHANGED <<processed, handled>>
      BY <1>1 DEF Marks
    <2>2. Memory'
      BY <2>1 DEF Memory
    <2> QED BY <1>1, <2>1, <2>2
  <1>2. CASE Started(q, tasks)
    <2>1. /\ ~(running' \subseteq running)
          /\ \A t \in running' \ running : t = Head(q)
      BY <1>2 DEF Started
    <2>2. Remember(asked'[Head(q)]) /\ handled' = handled \cup {asked'[Head(q)]}
      BY <2>1 DEF Marks
    <2>3. asked'[Head(q)] \in Sig
      <3>1. Head(q) \in 1..acc
        BY <1>2, HeadStarts DEF Started
      <3> QED BY <3>1
    <2>4. Memory'
      BY <2>2, <2>3, RememberKeeps DEF Memory
    <2>5. \A t \in Range(q) : t \in Range(queue') \/ asked'[t] \in handled'
      BY <1>2, <2>2 DEF Started
    <2> QED BY <2>2, <2>4, <2>5
  <1> QED BY <1>1, <1>2

\* The head of the queue is not running, nor is the next ticket.
LEMMA HeadWaits ==
  ASSUME Tickets
  PROVE  /\ queue # <<>> => Head(queue) \notin running
         /\ \A t \in Range(queue) : t \in 1..accepted
         /\ accepted \in Nat /\ accepted + 1 \notin running
         /\ queue = <<>> => Head(Append(queue, accepted + 1)) = accepted + 1
         /\ queue # <<>> => Head(Append(queue, accepted + 1)) = Head(queue)
  <1>1. queue # <<>> => Head(queue) \notin running
    BY HeadStarts DEF Tickets
  <1>2. /\ queue \in Seq(Ticket) /\ accepted \in Nat /\ Len(queue) \in Nat /\ Len(queue) <= accepted
        /\ DOMAIN queue = 1..Len(queue)
        /\ \A k \in 1..Len(queue) : queue[k] = accepted - Len(queue) + k
        /\ running \subseteq 1..(accepted - Len(queue))
    BY DEF Tickets, Fifo
  <1>3. \A k \in 1..Len(queue) : queue[k] \in 1..accepted
    BY <1>2
  <1>4. \A t \in Range(queue) : t \in 1..accepted
    BY <1>2, <1>3 DEF Range
  <1>5. accepted + 1 \notin running
    BY <1>2
  <1>6. /\ queue = <<>> => Head(Append(queue, accepted + 1)) = accepted + 1
        /\ queue # <<>> => Head(Append(queue, accepted + 1)) = Head(queue)
    BY <1>2
  <1> QED BY <1>1, <1>2, <1>4, <1>5, <1>6

\* rpcQueue.enqueue(s): the signature waits, was taken up at once, or was refused.
LEMMA EnqueueKeeps ==
  ASSUME Tickets, Memory, NEW s \in Sig, Enqueue(s)
  PROVE  /\ Tickets' /\ Memory' /\ Keeps /\ UNCHANGED attempt /\ dropped \subseteq dropped'
         /\ s \in dropped' \cup handled' \cup {asked'[t] : t \in Range(queue')}
  <1>1. CASE /\ Queue!Enqueue /\ asked' = Append(asked, s) /\ MarkStarted /\ UNCHANGED dropped
    <2>1. PICK q, acc : q = Append(queue, accepted + 1) /\ acc = accepted + 1
      OBVIOUS
    <2>2. Queue!Drain(q, inFlight, running) /\ accepted' = acc
      BY <1>1, <2>1 DEF Queue!Enqueue
    <2>3. Fifo(q, acc, running, inFlight) /\ Range(q) = Range(queue) \cup {acc}
      BY <2>1, AppendNext DEF Tickets
    <2>4. /\ Fifo(queue', acc, running', inFlight') /\ Awake'
          /\ (queue' = q /\ running' = running) \/ Started(q, running)
      BY <2>2, <2>3, DrainStarts, DrainTypes DEF Tickets
    <2>5. /\ asked' \in Seq(Sig) /\ Len(asked') = acc /\ asked'[acc] = s
          /\ \A t \in 1..accepted : asked'[t] = asked[t]
      BY <1>1, <2>1 DEF Tickets
    <2>6. q # <<>> => Head(q) \notin running
      BY <2>1, HeadWaits
    <2>7. Marks /\ notified' \in [Sig -> Nat] /\ UNCHANGED attempt
      BY <1>1 DEF MarkStarted, Marks, Memory
    <2>8. /\ Memory' /\ handled \subseteq handled'
          /\ \A t \in Range(q) : t \in Range(queue') \/ asked'[t] \in handled'
      BY <2>3, <2>4, <2>5, <2>6, <2>7, QueueMoves
    <2>9. Tickets'
      BY <2>2, <2>4, <2>5 DEF Tickets
    <2>10. Keeps
      BY <2>3, <2>5, <2>8, HeadWaits DEF Keeps
    <2> QED BY <1>1, <2>3, <2>5, <2>7, <2>8, <2>9, <2>10
  <1>2. CASE dropped' = dropped \cup {s} /\ UNCHANGED <<queueVars, asked, seenVars>>
    <2>1. UNCHANGED <<queue, accepted, running, inFlight, processing, sleepers, asked, attempt,
                      processed, notified, handled>>
      BY <1>2 DEF queueVars, seenVars
    <2>2. Tickets' /\ Memory' /\ Keeps
      BY <2>1 DEF Tickets, Awake, Memory, Keeps
    <2> QED BY <1>2, <2>1, <2>2
  <1> QED BY <1>1, <1>2 DEF Enqueue

\* The throttle sleep ends: the oldest ticket is taken up, if one waits.
LEMMA WakeKeeps ==
  ASSUME Tickets, Memory, Wake
  PROVE  Tickets' /\ Memory' /\ Keeps /\ UNCHANGED attempt
  <1>1. /\ asked' \in Seq(Sig) /\ Len(asked') = accepted /\ UNCHANGED <<asked, accepted>>
        /\ Marks /\ notified' \in [Sig -> Nat] /\ UNCHANGED attempt
    BY DEF Wake, Queue!Wake, MarkStarted, Marks, Memory, Tickets
  <1>2. /\ Fifo(queue', accepted, running', inFlight') /\ Awake'
        /\ (queue' = queue /\ running' = running) \/ Started(queue, running)
    <2>1. CASE queue = <<>>
      <3>1. /\ UNCHANGED <<queue, inFlight, running>> /\ sleepers > 0
            /\ processing' = FALSE /\ sleepers' = sleepers - 1
        BY <2>1 DEF Wake, Queue!Wake
      <3>2. Awake'
        <4>1. sleepers - 1 \in Nat
          BY <3>1 DEF Tickets, Awake
        <4> QED BY <3>1, <4>1 DEF Awake
      <3> QED BY <3>1, <3>2 DEF Tickets
    <2>2. CASE queue # <<>>
      <3>1. sleepers > 0 /\ Queue!Shift(queue, inFlight, running, sleepers - 1)
        BY <2>2 DEF Wake, Queue!Wake
      <3>2. /\ queue' = Tail(queue) /\ inFlight' = inFlight + 1
            /\ running' = running \cup {Head(queue)}
            /\ Queue!SleepOrEnd(Tail(queue), inFlight + 1, sleepers - 1)
        BY <3>1 DEF Queue!Shift
      <3>3. Awake'
        <4>0. sleepers - 1 \in Nat /\ (sleepers - 1) + 1 \in Nat
          BY <3>1 DEF Tickets, Awake
        <4>1. CASE Queue!MayStart(Tail(queue), inFlight + 1)
          <5>1. sleepers' = (sleepers - 1) + 1 /\ processing' = TRUE
            BY <3>2, <4>1 DEF Queue!SleepOrEnd
          <5> QED BY <4>0, <5>1 DEF Awake
        <4>2. CASE ~Queue!MayStart(Tail(queue), inFlight + 1)
          <5>1. sleepers' = sleepers - 1 /\ processing' = FALSE
            BY <3>2, <4>2 DEF Queue!SleepOrEnd
          <5> QED BY <4>0, <5>1 DEF Awake
        <4> QED BY <4>1, <4>2
      <3> QED BY <2>2, <3>2, <3>3, HeadStarts DEF Tickets, Started
    <2> QED BY <2>1, <2>2
  <1>3. /\ Memory' /\ handled \subseteq handled'
        /\ \A t \in Range(queue) : t \in Range(queue') \/ asked'[t] \in handled'
    BY <1>1, <1>2, HeadWaits, QueueMoves DEF Tickets
  <1>4. Tickets'
    BY <1>1, <1>2 DEF Tickets
  <1> QED BY <1>1, <1>3, <1>4 DEF Keeps

\* A task ends, and drain() may take up the next ticket.
LEMMA FinishKeeps ==
  ASSUME Tickets, Memory, NEW t \in running, NEW found \in BOOLEAN, Finish(t, found)
  PROVE  Tickets' /\ Memory' /\ Keeps /\ UNCHANGED attempt
  <1>1. /\ asked' \in Seq(Sig) /\ Len(asked') = accepted /\ UNCHANGED <<asked, accepted>>
        /\ Queue!Drain(queue, inFlight - 1, running \ {t}) /\ UNCHANGED attempt
    BY DEF Finish, Queue!Settle, Tickets
  <1>2. Marks
    BY <1>1 DEF Finish, Marks
  <1>3. notified' \in [Sig -> Nat]
    <2>1. notified' = IF found THEN [notified EXCEPT ![asked[t]] = @ + 1] ELSE notified
      BY DEF Finish
    <2>2. notified \in [Sig -> Nat]
      BY DEF Memory
    <2>3. t \in 1..accepted
      <3>1. /\ accepted \in Nat /\ Len(queue) \in Nat /\ Len(queue) <= accepted
            /\ running \subseteq 1..(accepted - Len(queue))
        BY DEF Tickets, Fifo
      <3> QED BY <3>1
    <2>4. PICK s \in Sig : s = asked[t]
      BY <2>3 DEF Tickets
    <2> QED BY <2>1, <2>2, <2>4
  <1>4. Fifo(queue, accepted, running \ {t}, inFlight - 1)
    BY SettleCounts DEF Tickets
  <1>5. /\ Fifo(queue', accepted, running', inFlight') /\ Awake'
        /\ (queue' = queue /\ running' = running \ {t}) \/ Started(queue, running \ {t})
    BY <1>1, <1>4, DrainStarts, DrainTypes DEF Tickets
  <1>6. /\ Memory' /\ handled \subseteq handled'
        /\ \A u \in Range(queue) : u \in Range(queue') \/ asked'[u] \in handled'
    <2>1. running \ {t} \subseteq running
      OBVIOUS
    <2> QED BY <1>1, <1>2, <1>3, <1>4, <1>5, <2>1, HeadWaits, QueueMoves
  <1>7. Tickets'
    BY <1>1, <1>5 DEF Tickets
  <1> QED BY <1>1, <1>6, <1>7 DEF Keeps

\* A step that leaves the queue and the memory alone.
LEMMA QueueRests ==
  ASSUME Tickets, Memory,
         UNCHANGED <<queueVars, asked, processed, notified, handled>>
  PROVE  Tickets' /\ Memory' /\ Keeps
  <1>1. UNCHANGED <<queue, accepted, running, inFlight, processing, sleepers, asked,
                    processed, notified, handled>>
    BY DEF queueVars
  <1> QED BY <1>1 DEF Tickets, Awake, Memory, Keeps

------------------------------------------------------------------------------
(* The cursors.  Everything up to the cursor of a program was dealt with, and  *)
(* so was everything up to the signature a request asks with, from the moment  *)
(* it is sent until its answer is used; the transactions of a page come from   *)
(* the history of its program.                                                 *)

Handled(s) == s \in Failed \cup handled \cup dropped \cup skipped \cup Range(burst)
                       \cup {asked[t] : t \in Range(queue)}

\* Position k of the history of p lies after the signature c.
After(p, c, k) == c = NoSig \/ \E i \in 1..(k - 1) : ledger[p][i] = c

Reached(p, c) == /\ c \in Range(ledger[p]) \cup {NoSig}
                 /\ \A k \in 1..Len(ledger[p]) : After(p, c, k) \/ Handled(ledger[p][k])

StateKnown(st) ==
    /\ st.at \in {"asked", "answered"} => Reached(st.prog, st.until)
    /\ st.at = "answered" => Range(st.page) \subseteq Range(ledger[st.prog])

LedgerInv == \A p \in Program : IsInjective(ledger[p])
LastInv == \A p \in Program : Reached(p, lastSig[p])
TurnsInv == \A a \in Loop : StateKnown(act[a])

Cursors == LedgerInv /\ LastInv /\ TurnsInv

Activation == [at : {"off", "timer", "asked", "answered", "pause"}, prog : Program,
               until : Sig \cup {NoSig}, page : Seq(Sig)]

Basics == /\ ledger \in [Program -> Seq(Sig)] /\ isRunning \in BOOLEAN
          /\ starts \in 0..MaxStarts /\ polls \in Nat
          /\ subs \subseteq Program /\ delivered \subseteq Program \X Sig
          /\ pollTimer \in 0..starts
          /\ lastSig \in [Program -> Sig \cup {NoSig}] /\ burst \in Seq(Sig)
          /\ attempt \in [1..MaxTickets -> 0..MAX_ATTEMPTS]

\* Only the loops of a start() that was made are ever on.
Acts == /\ act \in [Loop -> Activation]
        /\ \A a \in Loop : /\ Len(act[a].page) <= LIMIT
                           /\ act[a].at # "off" => a[1] <= starts

\* Nothing that was dealt with is forgotten.
Grows == \A s \in Sig : Handled(s) => Handled(s)'

\* What the queue keeps and the page at hand are enough for that.
LEMMA KeepsGrows ==
  ASSUME Keeps, dropped \subseteq dropped', skipped \subseteq skipped',
         \A s \in Range(burst) : Handled(s)'
  PROVE  Grows
  <1>1. ASSUME NEW t \in Range(queue) PROVE Handled(asked[t])'
    BY DEF Keeps, Handled
  <1>2. ASSUME NEW s, s \in {asked[t] : t \in Range(queue)}
        PROVE  s \in handled' \cup {asked'[t] : t \in Range(queue')}
    BY <1>2 DEF Keeps
  <1>3. ASSUME NEW s \in Sig, Handled(s) PROVE Handled(s)'
    <2>1. CASE s \in Range(burst)
      BY <2>1
    <2>2. CASE s \in {asked[t] : t \in Range(queue)}
      BY <1>2, <2>2 DEF Handled
    <2>3. CASE s \in Failed \cup handled \cup dropped \cup skipped
      BY <2>3 DEF Handled, Keeps
    <2> QED BY <1>3, <2>1, <2>2, <2>3 DEF Handled
  <1> QED BY <1>3 DEF Grows

\* A cursor that was reached stays reached.
LEMMA ReachedStays ==
  ASSUME Basics, Grows, UNCHANGED ledger, NEW p \in Program, NEW c, Reached(p, c)
  PROVE  Reached(p, c)'
  <1>1. \A k \in 1..Len(ledger[p]) : ledger[p][k] \in Sig
    BY DEF Basics
  <1>2. ASSUME NEW k \in 1..Len(ledger[p]), NEW s, s = ledger[p][k], Handled(s)
        PROVE  Handled(s)'
    BY <1>1, <1>2 DEF Grows
  <1>3. ASSUME NEW k \in 1..Len(ledger[p]), NEW s, s = ledger[p][k]
        PROVE  After(p, c, k)' \/ Handled(s)'
    BY <1>2, <1>3 DEF Reached, After
  <1>4. \A k \in 1..Len(ledger[p]) : \A s : s = ledger'[p][k] =>
            After(p, c, k)' \/ Handled(s)'
    BY <1>3
  <1> QED BY <1>4 DEF Reached, After, Handled

\* A state that was known stays known.
LEMMA KnownStays ==
  ASSUME Basics, Grows, UNCHANGED ledger, NEW st \in Activation, StateKnown(st)
  PROVE  StateKnown(st)'
  <1>1. PICK p, c : p \in Program /\ p = st.prog /\ c = st.until
    BY DEF Activation
  <1>2. Reached(p, c) => Reached(p, c)'
    BY <1>1, ReachedStays
  <1> QED BY <1>1, <1>2 DEF StateKnown

\* A step that moves cursors to reached places and loops to known states.
LEMMA CursorsStay ==
  ASSUME Basics, Acts, Cursors, Grows, UNCHANGED ledger,
         \A p \in Program : \A c : c = lastSig'[p] => c = lastSig[p] \/ Reached(p, c)',
         \A a \in Loop : \A st : st = act'[a] =>
             st = act[a] \/ (st \in Activation /\ StateKnown(st))
  PROVE  Cursors'
  <1>1. LedgerInv'
    BY DEF Cursors, LedgerInv
  <1>2. LastInv'
    <2>1. ASSUME NEW p \in Program, NEW c, c = lastSig'[p] PROVE Reached(p, c)'
      <3>1. c = lastSig[p] => Reached(p, c)
        BY DEF Cursors, LastInv
      <3> QED BY <2>1, <3>1, ReachedStays
    <2> QED BY <2>1 DEF LastInv, Reached, After, Handled
  <1>3. TurnsInv'
    <2>1. ASSUME NEW a \in Loop, NEW st, st = act'[a] PROVE StateKnown(st)'
      <3>1. st = act[a] => st \in Activation /\ StateKnown(st)
        BY DEF Cursors, TurnsInv, Acts
      <3> QED BY <2>1, <3>1, KnownStays
    <2> QED BY <2>1 DEF TurnsInv, StateKnown, Reached, After, Handled
  <1> QED BY <1>1, <1>2, <1>3 DEF Cursors

\* One loop goes on, to a known state.
LEMMA OneTurn ==
  ASSUME Basics, Acts, Cursors, Grows, UNCHANGED <<ledger, lastSig, starts>>,
         NEW a \in Loop, NEW st \in Activation, Len(st.page) <= LIMIT, StateKnown(st),
         st.at # "off" => a[1] <= starts, act' = [act EXCEPT ![a] = st]
  PROVE  Acts' /\ Cursors'
  <1>1. /\ act' \in [Loop -> Activation] /\ act'[a] = st
        /\ \A b \in Loop \ {a} : act'[b] = act[b]
    BY DEF Acts
  <1>2. Acts'
    BY <1>1 DEF Acts
  <1>3. \A b \in Loop : \A x : x = act'[b] => x = act[b] \/ (x \in Activation /\ StateKnown(x))
    BY <1>1
  <1>4. Cursors'
    BY <1>3, CursorsStay
  <1> QED BY <1>2, <1>4

\* No loop goes on.
LEMMA NoTurn ==
  ASSUME Basics, Acts, Cursors, Grows, UNCHANGED <<ledger, lastSig, starts, act>>
  PROVE  Acts' /\ Cursors'
  <1>1. Cursors'
    BY CursorsStay
  <1> QED BY <1>1 DEF Acts

\* States without a request are known, and so is one that asks with the cursor.
LEMMA StatesKnown ==
  ASSUME Basics, Cursors, NEW p \in Program
  PROVE  /\ At("asked", p, lastSig[p]) \in Activation /\ StateKnown(At("asked", p, lastSig[p]))
         /\ At("pause", p, NoSig) \in Activation /\ StateKnown(At("pause", p, NoSig))
         /\ Off \in Activation /\ StateKnown(Off)
         /\ Timer \in Activation /\ StateKnown(Timer)
         /\ At("asked", p, lastSig[p]).page = <<>> /\ At("pause", p, NoSig).page = <<>>
         /\ Off.page = <<>> /\ Timer.page = <<>> /\ Off.at = "off"
  <1>1. 1 \in Program /\ lastSig[p] \in Sig \cup {NoSig} /\ Reached(p, lastSig[p])
    BY MonitorClaimsAssumption DEF Program, Basics, Cursors, LastInv
  <1> QED BY <1>1 DEF At, Off, Timer, Activation, StateKnown

\* The node returns what came after the signature asked with, and nothing else.
LEMMA NewerIs ==
  ASSUME Basics, LedgerInv, NEW p \in Program, NEW c, c \in Range(ledger[p]) \cup {NoSig}
  PROVE  /\ Newer(p, c) \in Seq(Sig) /\ Range(Newer(p, c)) \subseteq Range(ledger[p])
         /\ \A k \in 1..Len(ledger[p]) : After(p, c, k) <=> ledger[p][k] \in Range(Newer(p, c))
  <1>1. PICK h, new : h = ledger[p] /\ new = Newer(p, c)
    OBVIOUS
  <1>2. h \in Seq(Sig) /\ Len(h) \in Nat /\ DOMAIN h = 1..Len(h)
    BY <1>1 DEF Basics
  <1>3. \A i, k \in 1..Len(h) : h[i] = h[k] => i = k
    BY <1>1, <1>2 DEF LedgerInv, IsInjective
  <1>4. PICK from : /\ from \in Nat /\ from <= Len(h) /\ new = SubSeq(h, from + 1, Len(h))
                    /\ c = NoSig => from = 0
                    /\ c # NoSig => from \in 1..Len(h) /\ h[from] = c
    <2>1. CASE c = NoSig
      <3>1. c \notin Range(h)
        BY <1>2, <2>1, MonitorClaimsAssumption DEF Range
      <3> QED BY <1>1, <1>2, <2>1, <3>1 DEF Newer
    <2>2. CASE c # NoSig
      <3>1. c \in Range(h)
        BY <1>1, <2>2
      <3>2. \E k \in DOMAIN h : h[k] = c
        BY <3>1 DEF Range
      <3>3. PICK from : from = CHOOSE k \in DOMAIN h : h[k] = c
        OBVIOUS
      <3>4. from \in 1..Len(h) /\ h[from] = c
        BY <1>2, <3>2, <3>3
      <3>5. new = SubSeq(h, from + 1, Len(h))
        BY <1>1, <3>1, <3>3 DEF Newer
      <3>6. from \in Nat /\ from <= Len(h)
        BY <1>2, <3>4
      <3> QED BY <2>2, <3>4, <3>5, <3>6
    <2> QED BY <2>1, <2>2
  <1>5. /\ new \in Seq(Sig) /\ Len(new) = Len(h) - from /\ DOMAIN new = 1..(Len(h) - from)
        /\ \A k \in 1..(Len(h) - from) : new[k] = h[from + k]
    BY <1>2, <1>4, SuffixOf
  <1>6. \A k \in 1..(Len(h) - from) : from + k \in 1..Len(h)
    BY <1>2, <1>4
  <1>7. Range(new) \subseteq Range(h)
    BY <1>2, <1>5, <1>6 DEF Range
  <1>8. ASSUME NEW k \in 1..Len(h) PROVE k > from <=> h[k] \in Range(new)
    <2>1. ASSUME k > from PROVE h[k] \in Range(new)
      <3>1. k - from \in 1..(Len(h) - from) /\ from + (k - from) = k
        BY <1>2, <1>4, <2>1
      <3>2. new[k - from] = h[k]
        BY <1>5, <3>1
      <3> QED BY <1>5, <3>1, <3>2 DEF Range
    <2>2. ASSUME h[k] \in Range(new) PROVE k > from
      <3>1. PICK j \in 1..(Len(h) - from) : new[j] = h[k]
        BY <1>5, <2>2 DEF Range
      <3>2. from + j = k
        BY <1>3, <1>5, <1>6, <3>1
      <3> QED BY <1>2, <1>4, <3>1, <3>2
    <2> QED BY <2>1, <2>2
  <1>9. ASSUME NEW k \in 1..Len(h) PROVE k > from <=> After(p, c, k)
    <2>1. CASE c = NoSig
      BY <1>2, <1>4, <2>1 DEF After
    <2>2. CASE c # NoSig
      <3>1. ASSUME k > from PROVE After(p, c, k)
        <4>1. from \in 1..(k - 1)
          BY <1>2, <1>4, <2>2, <3>1
        <4> QED BY <1>1, <1>4, <2>2, <4>1 DEF After
      <3>2. ASSUME After(p, c, k) PROVE k > from
        <4>1. PICK i \in 1..(k - 1) : h[i] = c
          BY <1>1, <2>2, <3>2 DEF After
        <4>2. i \in 1..Len(h)
          BY <1>2, <4>1
        <4>3. i = from
          BY <1>3, <1>4, <2>2, <4>1, <4>2
        <4> QED BY <1>2, <4>1, <4>3
      <3> QED BY <3>1, <3>2
    <2> QED BY <2>1, <2>2
  <1> QED BY <1>1, <1>5, <1>7, <1>8, <1>9

\* The answer of the node is a page of the program's history.
LEMMA AnswerKeeps ==
  ASSUME Basics, Acts, Cursors, NEW a \in Loop, Answer(a)
  PROVE  /\ Basics' /\ Acts' /\ Cursors'
         /\ UNCHANGED <<queueVars, asked, processed, notified, handled>>
  <1>1. PICK p, c, new, n, page, st :
          /\ p = act[a].prog /\ c = act[a].until /\ new = Newer(p, c)
          /\ n = IF Len(new) < LIMIT THEN Len(new) ELSE LIMIT
          /\ page = [k \in 1..n |-> new[Len(new) - k + 1]]
          /\ st = [act[a] EXCEPT !.at = "answered", !.page = page]
    OBVIOUS
  <1>2. /\ act[a] \in Activation /\ p \in Program /\ act[a].at = "asked" /\ a[1] <= starts
        /\ burst = <<>> /\ Reached(p, c)
    BY <1>1 DEF Acts, Activation, Answer, Cursors, TurnsInv, StateKnown
  <1>3. new \in Seq(Sig) /\ Range(new) \subseteq Range(ledger[p]) /\ Len(new) \in Nat
        /\ DOMAIN new = 1..Len(new)
    <2>1. c \in Range(ledger[p]) \cup {NoSig}
      BY <1>2 DEF Reached
    <2> QED BY <1>1, <1>2, <2>1, NewerIs DEF Cursors
  <1>4. n \in Nat /\ n <= LIMIT /\ n <= Len(new)
    BY <1>1, <1>3, MonitorClaimsAssumption
  <1>5. \A k \in 1..n : Len(new) - k + 1 \in 1..Len(new)
    BY <1>3, <1>4
  <1>6. page \in Seq(Sig) /\ Len(page) = n /\ Range(page) \subseteq Range(new)
    <2>1. \A k \in 1..n : page[k] \in Range(new) /\ page[k] \in Sig
      BY <1>1, <1>3, <1>5 DEF Range
    <2>2. page \in [1..n -> Sig]
      BY <1>1, <2>1
    <2>3. page \in Seq(Sig) /\ Len(page) = n
      BY <1>4, <2>2
    <2> QED BY <2>1, <2>2, <2>3 DEF Range
  <1>7. /\ st \in Activation /\ st.at = "answered" /\ st.page = page /\ st.prog = p
        /\ st.until = c
    BY <1>1, <1>2, <1>6 DEF Activation
  <1>8. StateKnown(st)
    BY <1>2, <1>3, <1>6, <1>7 DEF StateKnown
  <1>9. act' = [act EXCEPT ![a] = st]
    BY <1>1, <1>2 DEF Answer, Acts
  <1>10. /\ UNCHANGED <<ledger, isRunning, starts, polls, subs, delivered, pollTimer, lastSig,
                        burst, attempt, dropped, skipped, asked, processed, notified, handled>>
         /\ UNCHANGED queueVars
    BY DEF Answer, pollRest, seenVars
  <1>11. Grows
    BY <1>10 DEF Grows, Handled, queueVars
  <1>12. Acts' /\ Cursors'
    BY <1>2, <1>4, <1>6, <1>7, <1>8, <1>9, <1>10, <1>11, OneTurn
  <1>13. Basics'
    BY <1>10 DEF Basics
  <1> QED BY <1>10, <1>12, <1>13

\* pollProgram() moves the cursor to the oldest of the page: what came after the
\* signature asked with is on the page, after the new cursor, or cut off.
LEMMA ContinueKeeps ==
  ASSUME Basics, Acts, Cursors, NEW a \in Loop, Continue(a)
  PROVE  /\ Basics' /\ Acts' /\ Cursors'
         /\ UNCHANGED <<queueVars, asked, processed, notified, handled>>
  <1>1. PICK p, c, page, st : /\ p = act[a].prog /\ c = act[a].until /\ page = act[a].page
                              /\ st = At("pause", p, NoSig)
    OBVIOUS
  <1>2. /\ act[a] \in Activation /\ p \in Program /\ act[a].at = "answered" /\ a[1] <= starts
        /\ burst = <<>> /\ Reached(p, c) /\ page \in Seq(Sig)
        /\ Range(page) \subseteq Range(ledger[p])
    BY <1>1 DEF Acts, Activation, Continue, Cursors, TurnsInv, StateKnown
  <1>3. /\ UNCHANGED <<ledger, isRunning, starts, polls, subs, delivered, pollTimer,
                       attempt, dropped, asked, processed, notified, handled>>
        /\ UNCHANGED queueVars /\ UNCHANGED queue
    BY DEF Continue, pollRest, seenVars, queueVars
  <1>4. /\ st \in Activation /\ StateKnown(st) /\ Len(st.page) <= LIMIT
        /\ act' = [act EXCEPT ![a] = st]
    <2>1. st \in Activation /\ StateKnown(st) /\ st.page = <<>>
      BY <1>1, <1>2, StatesKnown
    <2>2. Len(st.page) <= LIMIT
      BY <2>1, MonitorClaimsAssumption
    <2> QED BY <1>1, <2>1, <2>2 DEF Continue
  <1>5. CASE page = <<>>
    <2>1. UNCHANGED <<lastSig, burst, skipped>>
      BY <1>1, <1>5 DEF Continue
    <2>2. Grows
      BY <1>3, <2>1 DEF Grows, Handled
    <2>3. Acts' /\ Cursors'
      BY <1>2, <1>3, <1>4, <2>1, <2>2, OneTurn
    <2>4. Basics'
      BY <1>3, <2>1 DEF Basics
    <2> QED BY <1>3, <2>3, <2>4
  <1>6. CASE page # <<>>
    <2>1. PICK d, rest : d = page[Len(page)] /\ rest = Newer(p, d)
      OBVIOUS
    <2>2. /\ lastSig' = [lastSig EXCEPT ![p] = d] /\ burst' = Oldest(page)
          /\ skipped' = skipped \cup (Range(Newer(p, c)) \ (Range(page) \cup Range(rest)))
      BY <1>1, <1>6, <2>1 DEF Continue, Cursor
    <2>3. Len(page) \in Nat /\ Len(page) > 0 /\ DOMAIN page = 1..Len(page)
      BY <1>2, <1>6
    <2>4. d \in Range(page) /\ d \in Sig /\ d \in Range(ledger[p])
      <3>1. Len(page) \in DOMAIN page
        BY <2>3
      <3> QED BY <1>2, <2>1, <3>1 DEF Range
    <2>5. burst' \in Seq(Sig) /\ Range(burst') = Range(page)
      <3>1. \A k \in 1..Len(page) : Len(page) - k + 1 \in 1..Len(page)
        BY <2>3
      <3>2. burst' = [k \in 1..Len(page) |-> page[Len(page) - k + 1]]
        BY <2>2, <2>3 DEF Oldest
      <3>3. burst' \in [1..Len(page) -> Sig]
        BY <1>2, <3>1, <3>2
      <3>4. burst' \in Seq(Sig)
        BY <2>3, <3>3
      <3>5. ASSUME NEW k \in 1..Len(page) PROVE page[k] \in Range(burst')
        <4>1. /\ Len(page) - k + 1 \in 1..Len(page)
              /\ Len(page) - (Len(page) - k + 1) + 1 = k
          BY <2>3
        <4>2. burst'[Len(page) - k + 1] = page[k]
          BY <3>2, <4>1
        <4> QED BY <3>3, <4>1, <4>2 DEF Range
      <3>6. Range(burst') \subseteq Range(page)
        BY <2>3, <3>1, <3>2, <3>3 DEF Range
      <3> QED BY <2>3, <3>4, <3>5, <3>6 DEF Range
    <2>6. Grows
      BY <1>2, <1>3, <2>2 DEF Grows, Handled, Range
    <2>7. Reached(p, d)'
      <3>1. /\ \A k \in 1..Len(ledger[p]) :
                   After(p, c, k) <=> ledger[p][k] \in Range(Newer(p, c))
            /\ \A k \in 1..Len(ledger[p]) : After(p, d, k) <=> ledger[p][k] \in Range(rest)
        <4>1. c \in Range(ledger[p]) \cup {NoSig} /\ LedgerInv
          BY <1>2 DEF Reached, Cursors
        <4> QED BY <1>2, <2>1, <2>4, <4>1, NewerIs
      <3>2. ASSUME NEW k \in 1..Len(ledger[p]), NEW s, s = ledger[p][k]
            PROVE  After(p, d, k) \/ Handled(s)'
        <4>1. s \in Sig
          BY <1>2, <3>2 DEF Basics
        <4>2. CASE After(p, c, k)
          <5>1. s \in Range(burst') \cup skipped' \cup Range(rest)
            BY <2>2, <2>5, <3>1, <3>2, <4>2
          <5> QED BY <3>1, <3>2, <5>1 DEF Handled
        <4>3. CASE ~After(p, c, k)
          <5>1. Handled(s)
            BY <1>2, <3>2, <4>3 DEF Reached
          <5> QED BY <2>6, <4>1, <5>1 DEF Grows
        <4> QED BY <4>2, <4>3
      <3>3. \A k \in 1..Len(ledger[p]) : \A s : s = ledger[p][k] => After(p, d, k) \/ Handled(s)'
        BY <3>2
      <3> QED BY <1>3, <2>4, <3>3 DEF Reached, After, Handled
    <2>8. \A q \in Program : \A x : x = lastSig'[q] => x = lastSig[q] \/ Reached(q, x)'
      <3>1. \A q \in Program : lastSig'[q] = IF q = p THEN d ELSE lastSig[q]
        BY <1>2, <2>2 DEF Basics
      <3> QED BY <2>7, <3>1
    <2>9. /\ act' \in [Loop -> Activation] /\ act'[a] = st
          /\ \A b \in Loop \ {a} : act'[b] = act[b]
      BY <1>4 DEF Acts
    <2>10. \A b \in Loop : \A x : x = act'[b] =>
               x = act[b] \/ (x \in Activation /\ StateKnown(x))
      BY <1>4, <2>9
    <2>11. Cursors'
      BY <1>3, <2>6, <2>8, <2>10, CursorsStay
    <2>12. Acts'
      BY <1>2, <1>3, <1>4, <2>9 DEF Acts
    <2>13. Basics'
      <3>1. lastSig' \in [Program -> Sig \cup {NoSig}]
        BY <1>2, <2>2, <2>4 DEF Basics
      <3> QED BY <1>3, <2>5, <3>1 DEF Basics
    <2> QED BY <1>3, <2>11, <2>12, <2>13
  <1> QED BY <1>5, <1>6

\* A confirmed transaction comes after every cursor.
LEMMA ConfirmKeeps ==
  ASSUME Basics, Acts, Cursors, NEW s \in Sig, Confirm(s)
  PROVE  /\ Basics' /\ Acts' /\ Cursors'
         /\ UNCHANGED <<queueVars, asked, processed, notified, handled>>
  <1>1. /\ UNCHANGED <<isRunning, starts, polls, subs, delivered, pollTimer, act, lastSig, burst,
                       attempt, dropped, skipped, asked, processed, notified, handled>>
        /\ UNCHANGED queueVars /\ UNCHANGED queue
    BY DEF Confirm, runVars, seenVars, queueVars
  <1>2. ASSUME NEW p \in Program
        PROVE  /\ ledger'[p] \in Seq(Sig) /\ Range(ledger[p]) \subseteq Range(ledger'[p])
               /\ \A k \in 1..Len(ledger[p]) : ledger'[p][k] = ledger[p][k]
               /\ IsInjective(ledger'[p])
               /\ \A k \in 1..Len(ledger'[p]) : k \notin 1..Len(ledger[p]) =>
                      \A c \in Range(ledger[p]) : \E i \in 1..(k - 1) : ledger'[p][i] = c
    <2>1. PICK h, new : /\ h = ledger[p] /\ new = ledger'[p]
                        /\ h \in Seq(Sig) /\ IsInjective(h) /\ s \notin Range(h)
                        /\ new = IF s \in Touches[p] THEN Append(h, s) ELSE h
      BY DEF Basics, Cursors, LedgerInv, Confirm
    <2>2. CASE s \in Touches[p]
      <3>1. /\ new \in Seq(Sig) /\ DOMAIN new = 1..(Len(h) + 1) /\ DOMAIN h = 1..Len(h)
            /\ Len(h) \in Nat /\ Len(new) = Len(h) + 1
            /\ \A k \in 1..Len(h) : new[k] = h[k]
            /\ new[Len(h) + 1] = s
        BY <2>1, <2>2
      <3>2. IsInjective(new)
        BY <2>1, <3>1 DEF IsInjective, Range
      <3>3. ASSUME NEW k \in 1..Len(new), k \notin 1..Len(h), NEW c \in Range(h)
            PROVE  \E i \in 1..(k - 1) : new[i] = c
        <4>1. PICK i \in 1..Len(h) : h[i] = c
          BY <3>1 DEF Range
        <4>2. k = Len(h) + 1
          BY <3>1, <3>3
        <4> QED BY <3>1, <4>1, <4>2
      <3>4. Range(h) \subseteq Range(new)
        BY <3>1 DEF Range
      <3> QED BY <2>1, <3>1, <3>2, <3>3, <3>4
    <2>3. CASE s \notin Touches[p]
      BY <2>1, <2>3
    <2> QED BY <2>2, <2>3
  <1>3. \A x : Handled(x)' <=> Handled(x)
    BY <1>1 DEF Handled
  <1>4. ASSUME NEW p \in Program, NEW c, Reached(p, c) PROVE Reached(p, c)'
    <2>0. /\ c \in Range(ledger[p]) \cup {NoSig} /\ Len(ledger[p]) \in Nat
          /\ \A k \in 1..Len(ledger[p]) : After(p, c, k) \/ Handled(ledger[p][k])
      BY <1>4 DEF Reached, Basics
    <2>1. c \in Range(ledger'[p]) \cup {NoSig}
      BY <1>2, <2>0
    <2>2. ASSUME NEW k \in 1..Len(ledger'[p]), NEW x, x = ledger'[p][k]
          PROVE  After(p, c, k)' \/ Handled(x)'
      <3>1. CASE k \in 1..Len(ledger[p])
        <4>1. CASE After(p, c, k)
          <5>1. \A i \in 1..(k - 1) : i \in 1..Len(ledger[p])
            BY <2>0, <3>1
          <5> QED BY <1>2, <4>1, <5>1 DEF After
        <4>2. CASE Handled(ledger[p][k])
          BY <1>2, <1>3, <2>2, <3>1, <4>2
        <4> QED BY <2>0, <3>1, <4>1, <4>2
      <3>2. CASE k \notin 1..Len(ledger[p])
        <4>1. c # NoSig => \E i \in 1..(k - 1) : ledger'[p][i] = c
          BY <1>2, <2>0, <3>2
        <4> QED BY <4>1 DEF After
      <3> QED BY <3>1, <3>2
    <2>3. \A k \in 1..Len(ledger'[p]) : \A x : x = ledger'[p][k] => After(p, c, k)' \/ Handled(x)'
      BY <2>2
    <2> QED BY <2>1, <2>3 DEF Reached, After, Handled
  <1>5. ledger' \in [Program -> Seq(Sig)]
    <2>1. ledger' = [p \in Program |-> IF s \in Touches[p] THEN Append(ledger[p], s)
                                                          ELSE ledger[p]]
      BY DEF Confirm
    <2> QED BY <2>1 DEF Basics
  <1>6. LedgerInv'
    BY <1>2 DEF LedgerInv
  <1>7. LastInv'
    <2>1. ASSUME NEW p \in Program, NEW c, c = lastSig[p] PROVE Reached(p, c)'
      BY <1>4, <2>1 DEF Cursors, LastInv
    <2> QED BY <1>1, <2>1 DEF LastInv, Reached, After, Handled
  <1>8. TurnsInv'
    <2>1. ASSUME NEW a \in Loop, NEW st, st = act[a] PROVE StateKnown(st)'
      <3>1. st \in Activation /\ StateKnown(st)
        BY <2>1 DEF Acts, Cursors, TurnsInv
      <3>2. PICK p, c : p \in Program /\ p = st.prog /\ c = st.until
        BY <3>1 DEF Activation
      <3>3. /\ Reached(p, c) => Reached(p, c)'
            /\ Range(ledger[p]) \subseteq Range(ledger'[p])
        BY <1>2, <1>4, <3>2
      <3> QED BY <3>1, <3>2, <3>3 DEF StateKnown
    <2> QED BY <1>1, <2>1 DEF TurnsInv, StateKnown, Reached, After, Handled
  <1>9. Basics' /\ Acts'
    BY <1>1, <1>5 DEF Basics, Acts
  <1> QED BY <1>1, <1>6, <1>7, <1>8, <1>9 DEF Cursors

\* The other steps of the poll loops.
LEMMA PollsKeep ==
  ASSUME Basics, Acts, Cursors, NEW a \in Loop,
         PollStart(a) \/ PollError(a) \/ PollNext(a) \/ PollEnd(a)
  PROVE  /\ Basics' /\ Acts' /\ Cursors'
         /\ UNCHANGED <<queueVars, asked, processed, notified, handled>>
  <1>1. /\ act[a] \in Activation /\ act[a].prog \in Program /\ act[a].at # "off"
        /\ a[1] <= starts /\ a[1] \in 1..MaxStarts
    <2>1. act[a].at # "off" /\ a[1] \in 1..MaxStarts
      BY DEF PollStart, PollError, PollNext, PollEnd, Loop
    <2> QED BY <2>1 DEF Acts, Activation
  <1>2. /\ UNCHANGED <<ledger, isRunning, starts, subs, delivered, lastSig, burst, attempt,
                       dropped, skipped, asked, processed, notified, handled>>
        /\ UNCHANGED queueVars
    BY DEF PollStart, PollError, PollNext, PollEnd, pollRest, seenVars
  <1>3. Grows
    BY <1>2 DEF Grows, Handled, queueVars
  <1>4. PICK st : /\ st \in Activation /\ StateKnown(st) /\ st.page = <<>>
                  /\ act' = [act EXCEPT ![a] = st]
    <2>1. CASE PollStart(a)
      <3>1. 1 \in Program
        BY MonitorClaimsAssumption DEF Program
      <3> QED BY <2>1, <3>1, StatesKnown DEF PollStart, Ask
    <2>2. CASE PollNext(a)
      <3>1. act[a].prog + 1 \in Program
        BY <1>1, <2>2, MonitorClaimsAssumption DEF PollNext, Program
      <3> QED BY <2>2, <3>1, StatesKnown DEF PollNext, Ask
    <2>3. CASE PollError(a)
      BY <1>1, <2>3, StatesKnown DEF PollError
    <2>4. CASE PollEnd(a)
      BY <1>1, <2>4, StatesKnown DEF PollEnd
    <2> QED BY <2>1, <2>2, <2>3, <2>4
  <1>5. Acts' /\ Cursors'
    <2>1. Len(st.page) <= LIMIT
      BY <1>4, MonitorClaimsAssumption
    <2> QED BY <1>1, <1>2, <1>3, <1>4, <2>1, OneTurn
  <1>6. polls' \in Nat /\ pollTimer' \in 0..starts
    <2>1. starts \in Nat /\ polls \in Nat /\ pollTimer \in 0..starts
      BY MonitorClaimsAssumption DEF Basics
    <2>2. /\ polls' \in {polls, polls + 1}
          /\ pollTimer' \in {pollTimer, a[1]}
      BY DEF PollStart, PollError, PollNext, PollEnd
    <2> QED BY <1>1, <2>1, <2>2
  <1>7. Basics'
    BY <1>2, <1>6 DEF Basics
  <1> QED BY <1>2, <1>5, <1>7

\* start() turns the two loops of its number on, stop() a waiting one off.
LEMMA StartStopKeep ==
  ASSUME Basics, Acts, Cursors, Start \/ Stop
  PROVE  /\ Basics' /\ Acts' /\ Cursors'
         /\ UNCHANGED <<queueVars, asked, processed, notified, handled>>
  <1>1. /\ UNCHANGED <<ledger, polls, delivered, lastSig, burst, attempt, dropped, skipped,
                       asked, processed, notified, handled>>
        /\ UNCHANGED queueVars
    BY DEF Start, Stop, seenVars
  <1>2. Grows
    BY <1>1 DEF Grows, Handled, queueVars
  <1>3. 1 \in Program /\ MaxStarts \in Nat /\ starts \in 0..MaxStarts /\ pollTimer \in 0..starts
    BY MonitorClaimsAssumption DEF Program, Basics
  <1>4. /\ Off \in Activation /\ StateKnown(Off) /\ Len(Off.page) <= LIMIT /\ Off.at = "off"
        /\ Timer \in Activation /\ StateKnown(Timer) /\ Len(Timer.page) <= LIMIT
    <2>1. Off.page = <<>> /\ Timer.page = <<>>
      BY <1>3, StatesKnown
    <2>2. Len(Off.page) <= LIMIT /\ Len(Timer.page) <= LIMIT
      BY <2>1, MonitorClaimsAssumption
    <2> QED BY <1>3, <2>2, StatesKnown
  <1>5. /\ starts' \in 0..MaxStarts /\ pollTimer' \in 0..starts' /\ starts <= starts'
        /\ isRunning' \in BOOLEAN /\ subs' \subseteq Program
        /\ act' \in [Loop -> Activation]
        /\ \A a \in Loop : \/ act'[a] = act[a] \/ act'[a] = Off
                           \/ act'[a] = Timer /\ a[1] <= starts'
    <2>1. CASE Start /\ UNCHANGED act
      BY <1>3, <2>1 DEF Start, Basics, Acts
    <2>2. CASE /\ Start /\ pollTimer' = starts' /\ UNCHANGED subs
               /\ act' = [act EXCEPT ![<<starts', "initial">>] = Timer,
                                     ![<<starts', "loop">>] = Timer]
      <3>1. /\ starts' = starts + 1 /\ starts' \in 1..MaxStarts /\ isRunning' = TRUE
        BY <1>3, <2>2 DEF Start
      <3>2. PICK x, y : /\ x = <<starts', "initial">> /\ y = <<starts', "loop">>
                        /\ act' = [act EXCEPT ![x] = Timer, ![y] = Timer]
        BY <2>2
      <3>3. x[1] = starts' /\ y[1] = starts'
        BY <3>2
      <3>4. /\ act' \in [Loop -> Activation]
            /\ \A a \in Loop : act'[a] = act[a] \/ (act'[a] = Timer /\ a \in {x, y})
        BY <1>4, <3>2 DEF Acts
      <3>5. \A a \in Loop : act'[a] = act[a] \/ (act'[a] = Timer /\ a[1] <= starts')
        <4>1. starts' <= starts'
          BY <1>3, <3>1
        <4> QED BY <3>3, <3>4, <4>1
      <3>6. /\ starts' \in 0..MaxStarts /\ starts' \in 0..starts' /\ starts <= starts'
        BY <1>3, <3>1
      <3>7. subs' \subseteq Program /\ isRunning' \in BOOLEAN
        BY <2>2, <3>1 DEF Basics
      <3> QED BY <2>2, <3>4, <3>5, <3>6, <3>7
    <2>3. CASE Stop
      <3>1. act' = [a \in Loop |-> IF a = <<pollTimer, "loop">> /\ act[a].at = "timer"
                                   THEN Off ELSE act[a]]
        BY <2>3 DEF Stop
      <3>2. /\ act' \in [Loop -> Activation]
            /\ \A a \in Loop : act'[a] = act[a] \/ act'[a] = Off
        BY <1>4, <3>1 DEF Acts
      <3>3. starts' = starts /\ pollTimer' = 0 /\ isRunning' = FALSE /\ subs' = {}
        BY <2>3 DEF Stop
      <3>4. 0 \in 0..starts /\ starts <= starts
        BY <1>3
      <3> QED BY <1>3, <3>2, <3>3, <3>4
    <2> QED BY <2>1, <2>2, <2>3 DEF Start
  <1>6. Acts'
    <2>1. ASSUME NEW a \in Loop
          PROVE  Len(act'[a].page) <= LIMIT /\ (act'[a].at # "off" => a[1] <= starts')
      <3>1. a[1] \in Nat /\ starts \in Nat /\ starts' \in Nat
        BY <1>3, <1>5 DEF Loop
      <3> QED BY <1>4, <1>5, <3>1 DEF Acts
    <2> QED BY <1>5, <2>1 DEF Acts
  <1>7. Cursors'
    <2>1. \A a \in Loop : \A st : st = act'[a] =>
              st = act[a] \/ (st \in Activation /\ StateKnown(st))
      BY <1>4, <1>5
    <2> QED BY <1>1, <1>2, <2>1, CursorsStay
  <1>8. Basics'
    BY <1>1, <1>5 DEF Basics
  <1> QED BY <1>1, <1>6, <1>7, <1>8

------------------------------------------------------------------------------
(* The invariant, and the theorems. *)

IInv == Basics /\ Acts /\ Tickets /\ Memory /\ Cursors

\* It holds at first: nothing was found, asked or queued.
LEMMA InitIInv == MonitorInit => IInv
  <1> SUFFICES ASSUME MonitorInit PROVE IInv
    OBVIOUS
  <1> USE MonitorClaimsAssumption
  <1>1. /\ 1 \in Program /\ Off \in Activation /\ Off.page = <<>> /\ Off.at = "off"
    BY DEF Program, Off, At, Activation
  <1>2. Basics
    <2>1. /\ ledger = [p \in Program |-> <<>>] /\ isRunning = FALSE /\ starts = 0 /\ polls = 0
          /\ subs = {} /\ delivered = {} /\ pollTimer = 0
          /\ lastSig = [p \in Program |-> NoSig] /\ burst = <<>>
          /\ attempt = [t \in 1..MaxTickets |-> 0]
      BY DEF MonitorInit
    <2>2. isRunning \in BOOLEAN
      BY <2>1, Zenon
    <2>3. ledger \in [Program -> Seq(Sig)] /\ burst \in Seq(Sig)
      BY <2>1
    <2>4. lastSig \in [Program -> Sig \cup {NoSig}]
      BY <2>1
    <2>5. starts \in 0..MaxStarts /\ polls \in Nat /\ pollTimer \in 0..starts
      BY <2>1
    <2>6. attempt \in [1..MaxTickets -> 0..MAX_ATTEMPTS]
      <3>1. 0 \in 0..MAX_ATTEMPTS
        OBVIOUS
      <3> QED BY <2>1, <3>1
    <2> QED BY <2>1, <2>2, <2>3, <2>4, <2>5, <2>6 DEF Basics
  <1>3. Acts
    <2>1. Len(Off.page) <= LIMIT
      BY <1>1
    <2> QED BY <1>1, <2>1 DEF MonitorInit, Acts
  <1>4. Tickets
    <2>1. /\ queue = <<>> /\ accepted = 0 /\ running = {} /\ inFlight = 0 /\ processing = FALSE
          /\ sleepers = 0 /\ asked = <<>>
      BY DEF MonitorInit, Queue!Init
    <2>2. IsFiniteSet({}) /\ Cardinality({}) = 0
      BY FS_EmptySet
    <2>3. Fifo(queue, accepted, running, inFlight)
      BY <2>1, <2>2 DEF Fifo
    <2>4. processing \in BOOLEAN
      BY <2>1, Zenon
    <2>5. Awake
      BY <2>1, <2>4 DEF Awake
    <2>6. asked \in Seq(Sig) /\ Len(asked) = accepted
      BY <2>1
    <2> QED BY <2>3, <2>5, <2>6 DEF Tickets
  <1>5. Memory
    <2>1. processed = <<>> /\ notified = [s \in Sig |-> 0] /\ handled = {}
      BY DEF MonitorInit
    <2> QED BY <2>1 DEF Memory, IsInjective, Range
  <1>6. Cursors
    <2>1. \A p \in Program : ledger[p] = <<>> /\ lastSig[p] = NoSig
      BY DEF MonitorInit
    <2>2. LedgerInv
      BY <2>1 DEF LedgerInv, IsInjective
    <2>3. LastInv
      BY <2>1 DEF LastInv, Reached, After
    <2>4. TurnsInv
      BY <1>1 DEF MonitorInit, TurnsInv, StateKnown
    <2> QED BY <2>2, <2>3, <2>4 DEF Cursors
  <1> QED BY <1>2, <1>3, <1>4, <1>5, <1>6 DEF IInv

\* A step of the queue and its tasks alone.
LEMMA TasksKeep ==
  ASSUME IInv, Tickets', Memory', Keeps,
         UNCHANGED <<ledger, runVars, delivered, lastSig, burst, dropped, skipped>>,
         attempt' \in [1..MaxTickets -> 0..MAX_ATTEMPTS]
  PROVE  IInv'
  <1>1. UNCHANGED <<ledger, isRunning, starts, polls, subs, pollTimer, act, delivered, lastSig,
                    burst, dropped, skipped>>
    BY DEF runVars
  <1>2. Grows
    <2>1. \A s \in Range(burst) : Handled(s)'
      BY <1>1 DEF Handled
    <2> QED BY <1>1, <2>1, KeepsGrows
  <1>3. Acts' /\ Cursors'
    BY <1>1, <1>2, NoTurn DEF IInv
  <1>4. Basics'
    BY <1>1 DEF IInv, Basics
  <1> QED BY <1>3, <1>4 DEF IInv

\* The next signature of the page, or one that a log delivers, goes to the queue:
\* whatever waited in the page or the queue before stays dealt with.
LEMMA EnqueuesKeep ==
  ASSUME IInv, EnqueueNext \/ \E p \in Program, s \in Sig : LogEvent(p, s)
  PROVE  IInv'
  <1>1. PICK s : /\ s \in Sig
                 /\ \/ Enqueue(s)
                    \/ /\ s \in Failed \cup Range(processed)
                       /\ UNCHANGED <<queueVars, asked, seenVars, dropped>>
                 /\ UNCHANGED <<ledger, runVars, lastSig, skipped>>
                 /\ delivered' \subseteq Program \X Sig /\ burst' \in Seq(Sig)
                 /\ Range(burst) \subseteq {s} \cup Range(burst')
    <2>1. CASE EnqueueNext
      <3>1. /\ burst \in Seq(Sig) /\ burst # <<>> /\ burst' = Tail(burst)
        BY <2>1 DEF EnqueueNext, IInv, Basics
      <3>2. /\ Head(burst) \in Sig /\ Tail(burst) \in Seq(Sig)
            /\ Range(burst) \subseteq {Head(burst)} \cup Range(Tail(burst))
        <4>1. /\ Len(burst) \in Nat /\ Len(burst) > 0 /\ DOMAIN burst = 1..Len(burst)
              /\ Head(burst) = burst[1] /\ Head(burst) \in Sig /\ Tail(burst) \in Seq(Sig)
              /\ DOMAIN Tail(burst) = 1..(Len(burst) - 1)
              /\ \A k \in 1..(Len(burst) - 1) : Tail(burst)[k] = burst[k + 1]
          BY <3>1
        <4>2. ASSUME NEW k \in 1..Len(burst), k # 1 PROVE burst[k] \in Range(Tail(burst))
          <5>1. k - 1 \in 1..(Len(burst) - 1) /\ Tail(burst)[k - 1] = burst[k]
            BY <4>1, <4>2
          <5> QED BY <4>1, <5>1 DEF Range
        <4> QED BY <4>1, <4>2 DEF Range
      <3>3. PICK x : x = Head(burst)
        OBVIOUS
      <3>4. /\ \/ Enqueue(x)
               \/ /\ x \in Failed \cup Range(processed)
                  /\ UNCHANGED <<queueVars, asked, seenVars, dropped>>
            /\ UNCHANGED <<ledger, runVars, delivered, lastSig, skipped>>
        BY <2>1, <3>3 DEF EnqueueNext
      <3>5. delivered' \subseteq Program \X Sig
        BY <3>4 DEF IInv, Basics
      <3> QED BY <3>1, <3>2, <3>3, <3>4, <3>5
    <2>2. ASSUME NEW p \in Program, NEW s \in Sig, LogEvent(p, s)
          PROVE  /\ \/ Enqueue(s)
                    \/ /\ s \in Failed \cup Range(processed)
                       /\ UNCHANGED <<queueVars, asked, seenVars, dropped>>
                 /\ UNCHANGED <<ledger, runVars, lastSig, skipped>>
                 /\ delivered' \subseteq Program \X Sig /\ burst' \in Seq(Sig)
                 /\ Range(burst) \subseteq {s} \cup Range(burst')
      BY <2>2 DEF LogEvent, IInv, Basics
    <2> QED BY <2>1, <2>2
  <1>2. /\ Tickets' /\ Memory' /\ Keeps /\ UNCHANGED attempt /\ dropped \subseteq dropped'
        /\ Handled(s)'
    <2>1. CASE Enqueue(s)
      <3>1. /\ Tickets' /\ Memory' /\ Keeps /\ UNCHANGED attempt /\ dropped \subseteq dropped'
            /\ s \in dropped' \cup handled' \cup {asked'[t] : t \in Range(queue')}
        BY <1>1, <2>1, EnqueueKeeps DEF IInv
      <3> QED BY <3>1 DEF Handled
    <2>2. CASE /\ s \in Failed \cup Range(processed)
               /\ UNCHANGED <<queueVars, asked, seenVars, dropped>>
      <3>1. UNCHANGED <<queueVars, asked, processed, notified, handled, attempt, dropped>>
        BY <2>2 DEF seenVars
      <3>2. Tickets' /\ Memory' /\ Keeps
        BY <3>1, QueueRests DEF IInv
      <3>3. Handled(s)'
        BY <2>2, <3>1 DEF Handled, IInv, Memory
      <3> QED BY <3>1, <3>2, <3>3
    <2> QED BY <1>1, <2>1, <2>2
  <1>3. UNCHANGED <<ledger, isRunning, starts, polls, subs, pollTimer, act, lastSig, skipped>>
    BY <1>1 DEF runVars
  <1>4. Grows
    <2>1. ASSUME NEW x \in Range(burst) PROVE Handled(x)'
      <3>1. CASE x = s
        BY <1>2, <3>1
      <3>2. CASE x \in Range(burst')
        BY <3>2 DEF Handled
      <3> QED BY <1>1, <2>1, <3>1, <3>2
    <2> QED BY <1>2, <1>3, <2>1, KeepsGrows
  <1>5. Acts' /\ Cursors'
    BY <1>3, <1>4, NoTurn DEF IInv
  <1>6. Basics'
    BY <1>1, <1>2, <1>3 DEF IInv, Basics
  <1> QED BY <1>2, <1>5, <1>6 DEF IInv

\* Every step keeps the invariant.
LEMMA StepKeeps == IInv /\ [MonitorNext]_monitorVars => IInv'
  <1> SUFFICES ASSUME IInv, [MonitorNext]_monitorVars PROVE IInv'
    OBVIOUS
  <1>0. /\ Basics /\ Acts /\ Tickets /\ Memory /\ Cursors
        /\ attempt \in [1..MaxTickets -> 0..MAX_ATTEMPTS]
    BY DEF IInv, Basics
  <1>1. ASSUME Basics', Acts', Cursors',
               UNCHANGED <<queueVars, asked, processed, notified, handled>>
        PROVE  IInv'
    BY <1>0, <1>1, QueueRests DEF IInv
  <1>2. CASE Start \/ Stop
    BY <1>0, <1>1, <1>2, StartStopKeep
  <1>3. CASE EnqueueNext \/ \E p \in Program, s \in Sig : LogEvent(p, s)
    BY <1>3, EnqueuesKeep
  <1>4. CASE Wake
    <2>1. UNCHANGED <<ledger, runVars, delivered, lastSig, burst, dropped, skipped>>
      BY <1>4 DEF Wake
    <2>2. Tickets' /\ Memory' /\ Keeps /\ UNCHANGED attempt
      BY <1>0, <1>4, WakeKeeps
    <2> QED BY <1>0, <2>1, <2>2, TasksKeep
  <1>5. ASSUME NEW s \in Sig, Confirm(s) PROVE IInv'
    BY <1>0, <1>1, <1>5, ConfirmKeeps
  <1>6. ASSUME NEW a \in Loop, PollStep(a) PROVE IInv'
    <2>1. CASE Answer(a)
      BY <1>0, <1>1, <2>1, AnswerKeeps
    <2>2. CASE Continue(a)
      BY <1>0, <1>1, <2>2, ContinueKeeps
    <2>3. CASE PollStart(a) \/ PollError(a) \/ PollNext(a) \/ PollEnd(a)
      BY <1>0, <1>1, <2>3, PollsKeep
    <2> QED BY <1>6, <2>1, <2>2, <2>3 DEF PollStep
  <1>7. ASSUME NEW t \in running, RetryFetch(t) PROVE IInv'
    <2>1. /\ UNCHANGED <<ledger, runVars, delivered, lastSig, burst, dropped, skipped>>
          /\ UNCHANGED <<queueVars, asked, processed, notified, handled>>
          /\ attempt[t] + 1 < MAX_ATTEMPTS /\ attempt' = [attempt EXCEPT ![t] = @ + 1]
      BY <1>7 DEF RetryFetch
    <2>2. attempt' \in [1..MaxTickets -> 0..MAX_ATTEMPTS]
      <3>1. MAX_ATTEMPTS \in Nat
        BY MonitorClaimsAssumption
      <3>2. CASE t \in 1..MaxTickets
        <4>1. attempt[t] \in 0..MAX_ATTEMPTS
          BY <1>0, <3>2
        <4>2. attempt[t] + 1 \in 0..MAX_ATTEMPTS
          BY <2>1, <3>1, <4>1
        <4> QED BY <1>0, <2>1, <4>2
      <3>3. CASE t \notin 1..MaxTickets
        BY <1>0, <2>1, <3>3
      <3> QED BY <3>2, <3>3
    <2>3. Tickets' /\ Memory' /\ Keeps
      BY <1>0, <2>1, QueueRests
    <2> QED BY <2>1, <2>2, <2>3, TasksKeep
  <1>8. ASSUME NEW t \in running, NEW found \in BOOLEAN, Finish(t, found) PROVE IInv'
    <2>1. UNCHANGED <<ledger, runVars, delivered, lastSig, burst, dropped, skipped>>
      BY <1>8 DEF Finish
    <2>2. Tickets' /\ Memory' /\ Keeps /\ UNCHANGED attempt
      BY <1>0, <1>8, FinishKeeps
    <2> QED BY <1>0, <2>1, <2>2, TasksKeep
  <1>9. CASE UNCHANGED monitorVars
    <2>1. /\ UNCHANGED <<ledger, runVars, delivered, lastSig, burst, dropped, skipped>>
          /\ UNCHANGED <<queueVars, asked, processed, notified, handled, attempt>>
      BY <1>9 DEF monitorVars, seenVars
    <2>2. Tickets' /\ Memory' /\ Keeps
      BY <1>0, <2>1, QueueRests
    <2> QED BY <1>0, <2>1, <2>2, TasksKeep
  <1> QED BY <1>2, <1>3, <1>4, <1>5, <1>6, <1>7, <1>8, <1>9 DEF MonitorNext

\* The claim monitor of the monitor bot keeps what its cursors need: tickets leave
\* the queue in order, and every signature up to a cursor was dealt with.
THEOREM ClaimMonitorInvariant == MonitorSpec => []IInv
  BY InitIInv, StepKeeps, PTL DEF MonitorSpec

\* The variables of the monitor and of its queue keep their types, the memory of
\* signatures its size, and every ticket its signature.
THEOREM ClaimMonitorTypeOK == MonitorSpec => []MonitorTypeOK
  <1>1. ASSUME IInv PROVE MonitorTypeOK
    <2>1. Queue!TypeOK
      <3>1. running \in SUBSET Queue!Ticket /\ queue \in Seq(Queue!Ticket) /\ accepted \in Nat
        <4>1. /\ queue \in Seq(Ticket) /\ accepted \in Nat /\ Len(queue) \in Nat
              /\ running \subseteq 1..(accepted - Len(queue))
          BY <1>1 DEF IInv, Tickets, Fifo
        <4>2. Queue!Ticket = Ticket
          BY DEF Queue!Ticket, Ticket
        <4>3. running \subseteq Ticket
          BY <4>1 DEF Ticket
        <4> QED BY <4>1, <4>2, <4>3
      <3>2. inFlight \in Nat
        <4>1. IsFiniteSet(running) /\ inFlight = Cardinality(running)
          BY <1>1 DEF IInv, Tickets, Fifo
        <4> QED BY <4>1, FS_CardinalityType
      <3> QED BY <1>1, <3>1, <3>2 DEF IInv, Tickets, Awake, Queue!TypeOK
    <2>2. ASSUME NEW a \in Loop
          PROVE  /\ act[a].at \in {"off", "timer", "asked", "answered", "pause"}
                 /\ act[a].prog \in Program /\ act[a].until \in Sig \cup {NoSig}
                 /\ act[a].page \in Seq(Sig) /\ Len(act[a].page) <= LIMIT
      BY <1>1 DEF IInv, Acts, Activation
    <2> QED BY <1>1, <2>1, <2>2 DEF MonitorTypeOK, IInv, Basics, Tickets, Memory
  <1> QED BY <1>1, ClaimMonitorInvariant, PTL

\* However polls overlap and fail, commands start and stop the monitor, and the
\* queue fills, the cursor of a program passes no transaction without a reason.
THEOREM ClaimMonitorCursorCoverage == MonitorSpec => []CursorCoverage
  <1>1. ASSUME IInv, NEW p \in Program, NEW k \in DOMAIN ledger[p]
        PROVE  \/ lastSig[p] \in Range(SubSeq(ledger[p], 1, k - 1)) \cup {NoSig}
               \/ Handled(ledger[p][k])
    <2>1. PICK h : h = ledger[p] /\ h \in Seq(Sig)
      BY <1>1 DEF IInv, Basics
    <2>2. k \in 1..Len(h) /\ Len(h) \in Nat
      BY <2>1
    <2> DEFINE old == SubSeq(h, 1, k - 1)
    <2>3. DOMAIN old = 1..(k - 1) /\ \A i \in 1..(k - 1) : old[i] = h[i]
      BY <2>1, <2>2
    <2> HIDE DEF old
    <2>4. After(p, lastSig[p], k) => lastSig[p] = NoSig \/ lastSig[p] \in Range(old)
      BY <2>1, <2>3 DEF After, Range
    <2>5. After(p, lastSig[p], k) \/ Handled(ledger[p][k])
      BY <1>1, <2>1, <2>2 DEF IInv, Cursors, LastInv, Reached
    <2> QED BY <2>1, <2>4, <2>5 DEF old
  <1>2. IInv => CursorCoverage
    BY <1>1 DEF CursorCoverage, Handled
  <1> QED BY <1>2, ClaimMonitorInvariant, PTL

=============================================================================
