---------------------------- MODULE ConnectionProofs ----------------------------
(***************************************************************************)
(* Proofs about what keeps a bot connected: the request queue, the feed of *)
(* the dashboard and the two RPC connection managers, for every size,      *)
(* limit, number of endpoints and number of calls.                         *)
(***************************************************************************)
EXTENDS MCConnections, FiniteSetTheorems, WellFoundedInduction, TLAPS

------------------------------------------------------------------------------
\* The request queue: processing is true exactly when the loop condition of
\* drain() holds (Flag), so a step that leaves the queue not empty and a slot
\* free also leaves an activation asleep.

\* A queue q of consecutive tickets ending with the last one accepted, and n
\* running tasks, all of tickets that left the queue.
Consistent(q, n, tasks, acc) ==
    /\ q \in Seq(Ticket)
    /\ acc \in Nat
    /\ Len(q) <= acc
    /\ \A i \in 1..Len(q) : q[i] = acc - Len(q) + i
    /\ tasks \in SUBSET Ticket
    /\ \A t \in tasks : t <= acc - Len(q)
    /\ IsFiniteSet(tasks)
    /\ n = Cardinality(tasks)
    /\ n \in Nat
    /\ n <= MAX_CONCURRENCY

Flag == /\ processing \in BOOLEAN
        /\ sleepers = IF processing THEN 1 ELSE 0
        /\ processing <=> MayStart(queue, inFlight)

IInv == Consistent(queue, inFlight, running, accepted) /\ Flag

\* The abstract queue counts its running tasks with the same operator.
LEMMA SameCardinality == \A S : Tasks!Cardinality(S) = Cardinality(S)
  BY DEF Tasks!Cardinality, Cardinality

\* The first request of a consistent queue may be started when a slot is free.
LEMMA ShiftKeeps ==
  ASSUME NEW q, NEW n, NEW tasks,
         Consistent(q, n, tasks, accepted'), MayStart(q, n),
         Shift(q, n, tasks, 0)
  PROVE  /\ IInv'
         /\ accepted' - Len(queue') = accepted' - Len(q) + 1
         /\ running' = tasks \cup {accepted' - Len(q) + 1}
         /\ Cardinality(tasks) < MAX_CONCURRENCY
  <1> USE QueueAssumption
  <1>1. /\ q \in Seq(Ticket) /\ Len(q) \in Nat /\ Len(q) > 0
        /\ Head(q) = q[1] /\ Head(q) \in Ticket
        /\ Tail(q) \in Seq(Ticket) /\ Len(Tail(q)) = Len(q) - 1
        /\ \A i \in 1..Len(Tail(q)) : Tail(q)[i] = q[i + 1]
    BY DEF Consistent, MayStart
  <1>2. Head(q) = accepted' - Len(q) + 1
    BY <1>1 DEF Consistent
  <1>3. Head(q) \notin tasks
    BY <1>1, <1>2 DEF Consistent
  <1>4. /\ IsFiniteSet(tasks \cup {Head(q)})
        /\ Cardinality(tasks \cup {Head(q)}) = n + 1
    BY <1>3, FS_AddElement DEF Consistent
  <1>5. \A i \in 1..Len(Tail(q)) : Tail(q)[i] = accepted' - Len(Tail(q)) + i
    BY <1>1 DEF Consistent
  <1>6. \A t \in tasks \cup {Head(q)} : t <= accepted' - Len(Tail(q))
    BY <1>1, <1>2 DEF Consistent, Ticket
  <1>7. Consistent(Tail(q), n + 1, tasks \cup {Head(q)}, accepted')
    BY <1>1, <1>4, <1>5, <1>6 DEF Consistent, MayStart
  <1>8. Flag'
    <2>1. CASE MayStart(Tail(q), n + 1)
      <3>1. sleepers' = 0 + 1 /\ processing' = TRUE /\ queue' = Tail(q) /\ inFlight' = n + 1
        BY <2>1 DEF Shift, SleepOrEnd
      <3> QED BY <2>1, <3>1 DEF Flag
    <2>2. CASE ~MayStart(Tail(q), n + 1)
      <3>1. sleepers' = 0 /\ processing' = FALSE /\ queue' = Tail(q) /\ inFlight' = n + 1
        BY <2>2 DEF Shift, SleepOrEnd
      <3> QED BY <2>2, <3>1 DEF Flag
    <2> QED BY <2>1, <2>2
  <1>9. /\ queue' = Tail(q) /\ inFlight' = n + 1 /\ running' = tasks \cup {Head(q)}
    BY DEF Shift
  <1>10. IInv'
    BY <1>7, <1>8, <1>9 DEF IInv
  <1>11. accepted' - Len(Tail(q)) = accepted' - Len(q) + 1
    BY <1>1 DEF Consistent
  <1>12. Cardinality(tasks) < MAX_CONCURRENCY
    BY DEF Consistent, MayStart
  <1> QED BY <1>2, <1>9, <1>10, <1>11, <1>12

\* A call of drain() on a consistent queue keeps the invariant; it starts the
\* oldest waiting request or none.
LEMMA DrainKeeps ==
  ASSUME NEW q, NEW n, NEW tasks,
         Consistent(q, n, tasks, accepted'), Flag,
         processing => MayStart(q, n),
         Drain(q, n, tasks)
  PROVE  /\ IInv'
         /\ \/ /\ accepted' - Len(queue') = accepted' - Len(q)
               /\ running' = tasks
            \/ /\ Len(q) > 0
               /\ accepted' - Len(queue') = accepted' - Len(q) + 1
               /\ running' = tasks \cup {accepted' - Len(q) + 1}
               /\ Cardinality(tasks) < MAX_CONCURRENCY
  <1>1. CASE processing
    <2>1. queue' = q /\ inFlight' = n /\ running' = tasks /\ UNCHANGED <<processing, sleepers>>
      BY <1>1 DEF Drain
    <2>2. Flag'
      BY <1>1, <2>1 DEF Flag
    <2> QED BY <2>1, <2>2 DEF IInv
  <1>2. CASE ~processing /\ MayStart(q, n) /\ Shift(q, n, tasks, sleepers)
    <2>1. Shift(q, n, tasks, 0)
      BY <1>2 DEF Flag
    <2>2. Len(q) > 0
      BY <1>2 DEF MayStart, Consistent
    <2> QED BY <1>2, <2>1, <2>2, ShiftKeeps
  <1>3. CASE /\ ~processing /\ SleepOrEnd(q, n, sleepers)
             /\ queue' = q /\ inFlight' = n /\ running' = tasks
    <2>1. sleepers = 0
      BY <1>3 DEF Flag
    <2>2. CASE MayStart(q, n)
      <3>1. sleepers' = 0 + 1 /\ processing' = TRUE
        BY <1>3, <2>1, <2>2 DEF SleepOrEnd
      <3> QED BY <1>3, <2>2, <3>1 DEF Flag, IInv
    <2>3. CASE ~MayStart(q, n)
      <3>1. sleepers' = 0 /\ processing' = FALSE
        BY <1>3, <2>1, <2>3 DEF SleepOrEnd
      <3> QED BY <1>3, <2>3, <3>1 DEF Flag, IInv
    <2> QED BY <1>3, <2>2, <2>3
  <1> QED BY <1>1, <1>2, <1>3 DEF Drain

\* Nothing is queued, running or asleep at first.
LEMMA InitIInv == Init => IInv
  <1> SUFFICES ASSUME Init PROVE IInv
    OBVIOUS
  <1>1. IsFiniteSet({}) /\ Cardinality({}) = 0
    BY FS_EmptySet
  <1>2. Consistent(queue, inFlight, running, accepted)
    BY <1>1, QueueAssumption DEF Init, Consistent
  <1>3. Flag
    BY DEF Init, Flag, MayStart
  <1> QED BY <1>2, <1>3 DEF IInv

\* What an accepted request leaves drain() with.
LEMMA AppendConsistent ==
  ASSUME IInv, accepted' = accepted + 1
  PROVE  Consistent(Append(queue, accepted + 1), inFlight, running, accepted')
  <1> DEFINE q == Append(queue, accepted + 1)
  <1>1. /\ q \in Seq(Ticket) /\ Len(q) = Len(queue) + 1 /\ Len(queue) \in Nat
        /\ \A i \in 1..Len(queue) : q[i] = queue[i]
        /\ q[Len(queue) + 1] = accepted + 1
    BY DEF IInv, Consistent, Ticket
  <1>2. \A i \in 1..Len(q) : q[i] = accepted' - Len(q) + i
    BY <1>1 DEF IInv, Consistent
  <1>3. \A t \in running : t <= accepted' - Len(q)
    BY <1>1 DEF IInv, Consistent, Ticket
  <1> HIDE DEF q
  <1> QED BY <1>1, <1>2, <1>3 DEF IInv, Consistent

\* What a settled task leaves drain() with.
LEMMA SettleConsistent ==
  ASSUME IInv, NEW t \in running, UNCHANGED accepted
  PROVE  Consistent(queue, inFlight - 1, running \ {t}, accepted')
  <1>1. /\ IsFiniteSet(running \ {t})
        /\ Cardinality(running \ {t}) = inFlight - 1
    BY FS_RemoveElement DEF IInv, Consistent
  <1>2. inFlight - 1 \in Nat
    BY <1>1, FS_CardinalityType
  <1> QED BY <1>1, <1>2, QueueAssumption DEF IInv, Consistent

\* Every step keeps the invariant and is a step of the abstract queue.
LEMMA StepKeeps == IInv /\ [Next]_vars => IInv' /\ [Tasks!TaskNext]_(Tasks!taskVars)
  <1> SUFFICES ASSUME IInv, [Next]_vars
               PROVE  IInv' /\ [Tasks!TaskNext]_(Tasks!taskVars)
    OBVIOUS
  <1> USE QueueAssumption
  <1>0. accepted \in Nat /\ Len(queue) \in Nat /\ Len(queue) <= accepted
    BY DEF IInv, Consistent
  <1>1. CASE Enqueue
    <2> DEFINE q == Append(queue, accepted + 1)
    <2>1. accepted' = accepted + 1 /\ Len(q) = Len(queue) + 1 /\ q # <<>>
      BY <1>0, <1>1 DEF Enqueue, IInv, Consistent, Ticket
    <2>2. Consistent(q, inFlight, running, accepted')
      BY <1>1, AppendConsistent DEF Enqueue
    <2>3. processing => MayStart(q, inFlight)
      BY <2>1 DEF IInv, Flag, MayStart
    <2>4. Drain(q, inFlight, running)
      BY <1>1 DEF Enqueue
    <2>5. Len(queue) < MAX_QUEUE_SIZE
      BY <1>1 DEF Enqueue
    <2> HIDE DEF q
    <2>6. /\ IInv'
          /\ \/ /\ accepted' - Len(queue') = accepted' - Len(q)
                /\ running' = running
             \/ /\ accepted' - Len(queue') = accepted' - Len(q) + 1
                /\ running' = running \cup {accepted' - Len(q) + 1}
                /\ Cardinality(running) < MAX_CONCURRENCY
      BY <2>2, <2>3, <2>4, DrainKeeps DEF IInv
    <2>7. Tasks!Accept
      BY <1>0, <2>1, <2>5, <2>6, SameCardinality DEF Tasks!Accept, Tasks!StartFrom, started
    <2> QED BY <2>6, <2>7 DEF Tasks!TaskNext
  <1>2. CASE Wake
    <2>1. processing /\ sleepers = 1 /\ MayStart(queue, inFlight)
      BY <1>2 DEF Wake, IInv, Flag
    <2>2. Shift(queue, inFlight, running, 0) /\ accepted' = accepted
      BY <1>2, <2>1 DEF Wake, MayStart
    <2>3. Consistent(queue, inFlight, running, accepted')
      BY <2>2 DEF IInv
    <2>4. /\ IInv'
          /\ accepted' - Len(queue') = accepted' - Len(queue) + 1
          /\ running' = running \cup {accepted' - Len(queue) + 1}
          /\ Cardinality(running) < MAX_CONCURRENCY
      BY <2>1, <2>2, <2>3, ShiftKeeps
    <2>5. Len(queue) > 0
      BY <2>1 DEF MayStart, IInv, Consistent
    <2>6. Tasks!Start
      BY <1>0, <2>2, <2>4, <2>5, SameCardinality DEF Tasks!Start, Tasks!StartFrom, started
    <2> QED BY <2>4, <2>6 DEF Tasks!TaskNext
  <1>3. CASE \E t \in running : Settle(t)
    <2>1. PICK t \in running : Settle(t)
      BY <1>3
    <2>2. accepted' = accepted /\ Drain(queue, inFlight - 1, running \ {t})
      BY <2>1 DEF Settle
    <2>3. Consistent(queue, inFlight - 1, running \ {t}, accepted')
      BY <2>2, SettleConsistent
    <2>4. processing => MayStart(queue, inFlight - 1)
      BY DEF IInv, Consistent, Flag, MayStart
    <2>5. /\ IInv'
          /\ \/ /\ accepted' - Len(queue') = accepted' - Len(queue)
                /\ running' = running \ {t}
             \/ /\ Len(queue) > 0
                /\ accepted' - Len(queue') = accepted' - Len(queue) + 1
                /\ running' = (running \ {t}) \cup {accepted' - Len(queue) + 1}
                /\ Cardinality(running \ {t}) < MAX_CONCURRENCY
      BY <2>2, <2>3, <2>4, DrainKeeps DEF IInv
    <2>6. Tasks!Complete(t)
      BY <1>0, <2>2, <2>5, SameCardinality DEF Tasks!Complete, Tasks!StartFrom, started
    <2> QED BY <2>5, <2>6 DEF Tasks!TaskNext
  <1>4. CASE UNCHANGED vars
    <2>1. IInv'
      BY <1>4 DEF vars, IInv, Consistent, Flag, MayStart
    <2>2. UNCHANGED Tasks!taskVars
      BY <1>4 DEF vars, Tasks!taskVars, started
    <2> QED BY <2>1, <2>2
  <1> QED BY <1>1, <1>2, <1>3, <1>4 DEF Next

\* The invariant of the request queue: consecutive tickets, the in-flight
\* counter exact, and the processing flag equal to the loop condition.
THEOREM QueueInvariant == Spec => []IInv
  BY InitIInv, StepKeeps, PTL DEF Spec

\* The variables of the queue keep their types.
THEOREM QueueTypeOK == Spec => []TypeOK
  <1>1. IInv => TypeOK
    BY DEF IInv, Consistent, Flag, TypeOK
  <1> QED BY <1>1, QueueInvariant, PTL

\* However enqueue(), the throttle and settling tasks interleave, the counter
\* is exact and at most MAX_CONCURRENCY requests are out.
THEOREM QueueConcurrencyBound == Spec => []ConcurrencyBound
  <1>1. IInv => ConcurrencyBound
    BY DEF IInv, Consistent, ConcurrencyBound
  <1> QED BY <1>1, QueueInvariant, PTL

\* No request waits with nobody left to take it.
THEOREM QueueNoLostWakeup == Spec => []NoLostWakeup
  <1>1. IInv => NoLostWakeup
    BY QueueAssumption DEF IInv, Consistent, Flag, MayStart, NoLostWakeup
  <1> QED BY <1>1, QueueInvariant, PTL

\* The request queue implements the abstract one.
THEOREM QueueImplementsTaskQueue == Spec => ImplementsTaskQueue
  <1>1. Init => Tasks!TaskInit
    <2>1. ASSUME Init PROVE started = 0
      <3>1. accepted = 0
        BY <2>1 DEF Init
      <3>2. Len(queue) = 0
        BY <2>1 DEF Init
      <3> QED BY <3>1, <3>2 DEF started
    <2> QED BY <2>1 DEF Init, Tasks!TaskInit
  <1>2. IInv /\ [Next]_vars => [Tasks!TaskNext]_(Tasks!taskVars)
    BY StepKeeps
  <1> QED BY <1>1, <1>2, QueueInvariant, PTL DEF Spec, ImplementsTaskQueue, Tasks!TaskSpec

------------------------------------------------------------------------------
\* The dashboard's feed: besides what the property says, the invariant has that
\* no mint is in the window twice, so that the one that leaves it is in none of
\* its other places.

WebInv == /\ window \in Seq(Mint) /\ Len(window) <= TRADE_WINDOW
          /\ IsInjective(window)
          /\ meta = Range(window)
          /\ socket = "open" => server = Range(window)

\* A new mint at the end of the window: no other place has it.
LEMMA AppendNew ==
  ASSUME NEW q \in Seq(Mint), IsInjective(q), NEW m \in Mint, m \notin Range(q)
  PROVE  /\ Append(q, m) \in Seq(Mint) /\ Len(Append(q, m)) = Len(q) + 1
         /\ IsInjective(Append(q, m)) /\ Range(Append(q, m)) = Range(q) \cup {m}
  <1> DEFINE all == Append(q, m)
             n == Len(q)
  <1>1. all \in Seq(Mint) /\ Len(all) = n + 1 /\ n \in Nat
    OBVIOUS
  <1>2. \A k \in 1..n : all[k] = q[k]
    OBVIOUS
  <1>3. all[n + 1] = m /\ DOMAIN all = 1..(n + 1) /\ DOMAIN q = 1..n
    OBVIOUS
  <1> HIDE DEF all, n
  <1>4. \A k \in 1..n : all[k] # m
    BY <1>2, <1>3 DEF Range
  <1>5. 1..(n + 1) = (1..n) \cup {n + 1}
    BY <1>1
  <1>6. IsInjective(all)
    BY <1>2, <1>3, <1>4, <1>5 DEF IsInjective
  <1>7. Range(all) = Range(q) \cup {m}
    BY <1>2, <1>3, <1>5 DEF Range
  <1> QED BY <1>1, <1>6, <1>7 DEF all, n

\* The oldest mint leaves the window, and with it nothing else.
LEMMA TailDrops ==
  ASSUME NEW q \in Seq(Mint), q # <<>>, IsInjective(q)
  PROVE  /\ Tail(q) \in Seq(Mint) /\ Len(Tail(q)) = Len(q) - 1
         /\ IsInjective(Tail(q)) /\ Range(Tail(q)) = Range(q) \ {Head(q)}
  <1> DEFINE t == Tail(q)
             n == Len(q)
  <1>1. t \in Seq(Mint) /\ Len(t) = n - 1 /\ n \in Nat \ {0}
    OBVIOUS
  <1>2. \A k \in 1..(n - 1) : t[k] = q[k + 1]
    OBVIOUS
  <1>3. Head(q) = q[1] /\ DOMAIN t = 1..(n - 1) /\ DOMAIN q = 1..n
    OBVIOUS
  <1> HIDE DEF t, n
  <1>4. IsInjective(t)
    <2> SUFFICES ASSUME NEW i \in 1..(n - 1), NEW j \in 1..(n - 1), t[i] = t[j] PROVE i = j
      BY <1>3 DEF IsInjective
    <2>1. i + 1 \in 1..n /\ j + 1 \in 1..n /\ q[i + 1] = q[j + 1]
      BY <1>1, <1>2
    <2>2. i + 1 = j + 1
      BY <1>3, <2>1 DEF IsInjective
    <2> QED BY <2>2
  <1>5. Range(t) = Range(q) \ {Head(q)}
    <2>1. ASSUME NEW k \in 1..(n - 1) PROVE t[k] \in Range(q) \ {Head(q)}
      <3>1. k + 1 \in 1..n /\ 1 \in 1..n /\ k + 1 # 1
        BY <1>1
      <3>2. q[k + 1] # q[1]
        BY <1>3, <3>1 DEF IsInjective
      <3> QED BY <1>2, <1>3, <3>1, <3>2 DEF Range
    <2>2. ASSUME NEW k \in 1..n, q[k] # q[1] PROVE q[k] \in Range(t)
      <3>1. k - 1 \in 1..(n - 1) /\ (k - 1) + 1 = k
        BY <1>1, <2>2
      <3>2. t[k - 1] = q[k]
        BY <1>2, <3>1
      <3> QED BY <1>3, <3>1, <3>2 DEF Range
    <2> QED BY <1>3, <2>1, <2>2 DEF Range
  <1> QED BY <1>1, <1>4, <1>5 DEF t, n

\* trackMint() of a mint that is or is not followed yet.
LEMMA LaunchKeeps ==
  ASSUME WebInv, NEW m \in Mint, Launch(m)
  PROVE  WebInv'
  <1>1. socket = "open" /\ server = Range(window) /\ UNCHANGED socket
    BY DEF WebInv, Launch
  <1>2. CASE m \in Range(window)
    <2>1. meta' = meta \cup {m} /\ UNCHANGED <<window, server>>
      BY <1>2 DEF Launch
    <2> QED BY <1>1, <1>2, <2>1 DEF WebInv
  <1>3. CASE m \notin Range(window)
    <2> DEFINE all == Append(window, m)
               gone == IF Len(all) > TRADE_WINDOW THEN {Head(all)} ELSE {}
    <2>1. /\ window' = IF gone = {} THEN all ELSE Tail(all)
          /\ meta' = (meta \cup {m}) \ gone
          /\ server' = (server \cup {m}) \ gone
      BY <1>3 DEF Launch
    <2>2. /\ all \in Seq(Mint) /\ Len(all) = Len(window) + 1
          /\ IsInjective(all) /\ Range(all) = Range(window) \cup {m}
      BY <1>3, AppendNew DEF WebInv
    <2>3. Len(window) \in Nat /\ Len(window) <= TRADE_WINDOW /\ TRADE_WINDOW \in Nat
      BY WebAssumption DEF WebInv
    <2>4. all # <<>>
      BY <2>2, <2>3
    <2> HIDE DEF all
    <2>5. CASE Len(all) > TRADE_WINDOW
      <3>1. gone = {Head(all)} /\ window' = Tail(all)
        BY <2>1, <2>5
      <3>2. /\ Tail(all) \in Seq(Mint) /\ Len(Tail(all)) = Len(all) - 1
            /\ IsInjective(Tail(all)) /\ Range(Tail(all)) = Range(all) \ {Head(all)}
        BY <2>2, <2>4, TailDrops
      <3> HIDE DEF gone
      <3>3. Len(window') <= TRADE_WINDOW
        BY <2>2, <2>3, <3>1, <3>2
      <3>4. meta' = Range(window') /\ server' = Range(window')
        BY <1>1, <2>1, <2>2, <3>1, <3>2 DEF WebInv
      <3> QED BY <3>1, <3>2, <3>3, <3>4 DEF WebInv
    <2>6. CASE ~(Len(all) > TRADE_WINDOW)
      <3>1. gone = {} /\ window' = all
        BY <2>1, <2>6
      <3>2. Len(all) <= TRADE_WINDOW
        BY <2>2, <2>3, <2>6
      <3> HIDE DEF gone
      <3> QED BY <1>1, <2>1, <2>2, <3>1, <3>2 DEF WebInv
    <2> QED BY <2>5, <2>6
  <1> QED BY <1>2, <1>3

\* The feed is subscribed to its window, whatever closes, fails or fires late, for
\* every size of the window and any number of timers.
THEOREM FeedSubscribedToWindow == WebSpec => []SubscribedToWindow
  <1>1. WebInit => WebInv
    <2> SUFFICES ASSUME WebInit PROVE WebInv
      OBVIOUS
    <2>1. window = <<>> /\ meta = {} /\ socket = "none"
      BY DEF WebInit
    <2>2. <<>> \in Seq(Mint) /\ Len(<<>>) = 0 /\ DOMAIN <<>> = {}
      OBVIOUS
    <2>3. IsInjective(<<>>) /\ Range(<<>>) = {}
      BY <2>2 DEF IsInjective, Range
    <2> QED BY <2>1, <2>2, <2>3, WebAssumption DEF WebInv
  <1>2. WebInv /\ [WebNext]_webVars => WebInv'
    <2> SUFFICES ASSUME WebInv, [WebNext]_webVars PROVE WebInv'
      OBVIOUS
    <2>1. CASE Toggle \/ Reconnect \/ TimerFires \/ UNCHANGED webVars
      <3>1. UNCHANGED <<window, meta, server, socket>>
        BY <2>1 DEF Toggle, Reconnect, TimerFires, webVars
      <3> QED BY <3>1 DEF WebInv
    <2>2. CASE Connect \/ ConnectThrows \/ Closed
      <3>1. UNCHANGED <<window, meta>> /\ socket' # "open"
        BY <2>2 DEF Connect, ConnectThrows, Closed
      <3> QED BY <3>1 DEF WebInv
    <2>3. CASE Opened
      <3>1. UNCHANGED <<window, meta>> /\ server' = Range(window)
        BY <2>3 DEF Opened
      <3> QED BY <3>1 DEF WebInv
    <2>4. ASSUME NEW m \in Mint, Launch(m) PROVE WebInv'
      BY <2>4, LaunchKeeps
    <2> QED BY <2>1, <2>2, <2>3, <2>4 DEF WebNext
  <1>3. WebInv => SubscribedToWindow
    BY DEF WebInv, SubscribedToWindow
  <1> QED BY <1>1, <1>2, <1>3, PTL DEF WebSpec

------------------------------------------------------------------------------
\* The core package's manager: it keeps its types and never lets the current
\* endpoint reach the failure limit.  The type of fails bounds every count by the
\* limit, and the count of the current endpoint stays below it because rotate()
\* is reached exactly when the limit is.

CoreInv == CoreTypeOK /\ FreshStart

\* What rotate() does to the types: the next index is an index again, and the
\* endpoint it makes current starts from zero.
LEMMA CoreRotates ==
    ASSUME CoreTypeOK, NEW f \in [Endpoint -> 0..MAX_CONSECUTIVE_FAILS], Rotate(f)
    PROVE  /\ current' \in Endpoint
           /\ fails' \in [Endpoint -> 0..MAX_CONSECUTIVE_FAILS]
           /\ cooling' \subseteq Endpoint
           /\ fails'[current'] = 0
<1>1. NumUrls \in Nat \ {0} /\ MAX_CONSECUTIVE_FAILS \in Nat \ {0}
  BY EndpointsAssumption
<1>2. current' \in Endpoint
  BY <1>1 DEF Rotate, CoreTypeOK, Endpoint
<1>3. fails' = [f EXCEPT ![current'] = 0]
  BY DEF Rotate
<1>4. 0 \in 0..MAX_CONSECUTIVE_FAILS
  BY <1>1
<1>5. cooling' \subseteq Endpoint
  BY DEF Rotate, CoreTypeOK
<1> QED
  BY <1>2, <1>3, <1>4, <1>5

\* What reportFailure() does: below the limit it only counts, at the limit it
\* rotates.
LEMMA CoreReports ==
    ASSUME CoreInv, ReportFailure
    PROVE  /\ current' \in Endpoint
           /\ fails' \in [Endpoint -> 0..MAX_CONSECUTIVE_FAILS]
           /\ cooling' \subseteq Endpoint
           /\ fails'[current'] < MAX_CONSECUTIVE_FAILS
<1> DEFINE f == [fails EXCEPT ![current] = @ + 1]
<1>1. MAX_CONSECUTIVE_FAILS \in Nat \ {0}
  BY EndpointsAssumption
<1>2. /\ current \in Endpoint
      /\ fails \in [Endpoint -> 0..MAX_CONSECUTIVE_FAILS]
      /\ fails[current] < MAX_CONSECUTIVE_FAILS
      /\ cooling \subseteq Endpoint
  BY DEF CoreInv, CoreTypeOK, FreshStart
<1>3. f \in [Endpoint -> 0..MAX_CONSECUTIVE_FAILS] /\ f[current] = fails[current] + 1
  BY <1>1, <1>2
<1>4. CASE f[current] >= MAX_CONSECUTIVE_FAILS
  <2>1. Rotate(f)
    BY <1>4 DEF ReportFailure
  <2>2. CoreTypeOK
    BY DEF CoreInv
  <2> HIDE DEF f
  <2>3. f \in [Endpoint -> 0..MAX_CONSECUTIVE_FAILS]
    BY <1>3
  <2>4. /\ current' \in Endpoint
        /\ fails' \in [Endpoint -> 0..MAX_CONSECUTIVE_FAILS]
        /\ cooling' \subseteq Endpoint
        /\ fails'[current'] = 0
    BY <2>1, <2>2, <2>3, CoreRotates
  <2> QED
    BY <2>4, <1>1
<1>5. CASE ~(f[current] >= MAX_CONSECUTIVE_FAILS)
  <2>1. fails' = f /\ current' = current /\ cooling' = cooling
    BY <1>5 DEF ReportFailure
  <2>2. f[current] < MAX_CONSECUTIVE_FAILS
    BY <1>1, <1>2, <1>3, <1>5
  <2> QED
    BY <2>1, <2>2, <1>2, <1>3
<1> QED
  BY <1>4, <1>5

\* The synchronous part of withFallback() - Skip, Try, Exhausted - keeps both.
LEMMA CoreLoops ==
    ASSUME CoreInv, NEW c \in Caller, Loop(c)
    PROVE  CoreInv'
<1> USE DEF CoreInv
<1>1. MAX_CONSECUTIVE_FAILS \in Nat \ {0}
  BY EndpointsAssumption
<1>2. CASE Skip(c)
  <2>1. fails \in [Endpoint -> 0..MAX_CONSECUTIVE_FAILS] /\ Rotate(fails)
    BY <1>2 DEF Skip, CoreTypeOK
  <2>2. /\ current' \in Endpoint
        /\ fails' \in [Endpoint -> 0..MAX_CONSECUTIVE_FAILS]
        /\ cooling' \subseteq Endpoint
        /\ fails'[current'] = 0
    BY <2>1, CoreRotates
  <2>3. /\ tried' \in [Caller -> SUBSET Endpoint]
        /\ waiting' \subseteq Caller
        /\ looping' \in Caller \cup {None}
    BY <1>2 DEF Skip, Return, CoreTypeOK
  <2> QED
    BY <1>1, <2>2, <2>3 DEF CoreTypeOK, FreshStart
<1>3. CASE Try(c)
  BY <1>3 DEF Try, CoreTypeOK, FreshStart
<1>4. CASE Exhausted(c)
  BY <1>4 DEF Exhausted, Return, CoreTypeOK, FreshStart
<1> QED
  BY <1>2, <1>3, <1>4 DEF Loop

\* So does the settling of an attempt, however the request ends.
LEMMA CoreSettles ==
    ASSUME CoreInv, NEW c \in Caller, Settles(c)
    PROVE  CoreInv'
<1> USE DEF CoreInv
<1>1. MAX_CONSECUTIVE_FAILS \in Nat \ {0}
  BY EndpointsAssumption
<1>2. CASE Succeed(c)
  <2>1. fails' \in [Endpoint -> 0..MAX_CONSECUTIVE_FAILS] /\ fails'[current] = 0
    BY <1>1, <1>2 DEF Succeed, CoreTypeOK
  <2> QED
    BY <1>1, <1>2, <2>1 DEF Succeed, Return, CoreTypeOK, FreshStart
<1>3. CASE FailRetryable(c)
  <2>1. /\ current' \in Endpoint
        /\ fails' \in [Endpoint -> 0..MAX_CONSECUTIVE_FAILS]
        /\ cooling' \subseteq Endpoint
        /\ fails'[current'] < MAX_CONSECUTIVE_FAILS
    BY <1>3, CoreReports DEF FailRetryable
  <2> QED
    BY <1>3, <2>1 DEF FailRetryable, CoreTypeOK, FreshStart
<1>4. CASE FailFatal(c)
  BY <1>4 DEF FailFatal, Return, CoreTypeOK, FreshStart
<1> QED
  BY <1>2, <1>3, <1>4 DEF Settles

\* The invariant of withFallback() under any interleaving of calls.
THEOREM FallbackInvariant == CoreSpec => []CoreInv
<1>1. CoreInit => CoreInv
  BY EndpointsAssumption DEF CoreInit, CoreInv, CoreTypeOK, FreshStart, Endpoint
<1>2. CoreInv /\ [CoreNext]_coreVars => CoreInv'
  <2> SUFFICES ASSUME CoreInv, [CoreNext]_coreVars PROVE CoreInv'
    OBVIOUS
  <2>1. CASE \E c \in Caller : Call(c)
    BY <2>1 DEF Call, CoreInv, CoreTypeOK, FreshStart
  <2>2. CASE \E c \in Caller : Loop(c)
    BY <2>2, CoreLoops
  <2>3. CASE \E c \in Caller : Settles(c)
    BY <2>3, CoreSettles
  <2>4. CASE \E e \in Endpoint : CooldownEnds(e)
    BY <2>4 DEF CooldownEnds, CoreInv, CoreTypeOK, FreshStart
  <2>5. CASE UNCHANGED coreVars
    BY <2>5 DEF coreVars, CoreInv, CoreTypeOK, FreshStart
  <2> QED
    BY <2>1, <2>2, <2>3, <2>4, <2>5 DEF CoreNext
<1> QED
  BY <1>1, <1>2, PTL DEF CoreSpec

\* Every count, index and set of the manager keeps its type: rotation never
\* leaves the list of endpoints and no count passes the limit.
THEOREM FallbackTypeOK == CoreSpec => []CoreTypeOK
  BY FallbackInvariant, PTL DEF CoreInv

\* The current endpoint always has failures left before it is left.
THEOREM FallbackFreshStart == CoreSpec => []FreshStart
  BY FallbackInvariant, PTL DEF CoreInv

------------------------------------------------------------------------------
(* The bots' manager.  Endpoints in cooldown are a list without repetitions    *)
(* that ends with the one put aside last, so that whenever rotate() finds no   *)
(* endpoint ready, the list holds them all.                                    *)

\* A set of natural numbers that is not empty has a least element.
LEMMA Least ==
  ASSUME NEW T \in SUBSET Nat, T # {}
  PROVE  \E n \in T : \A m \in T : n <= m
  <1> DEFINE R == OpToRel(<, Nat)
  <1>1. IsWellFoundedOn(R, Nat)
    BY NatLessThanWellFounded
  <1>2. \A x, y \in Nat : x < y => <<x, y>> \in R
    BY DEF OpToRel
  <1> HIDE DEF R
  <1>3. PICK n \in T : \A m \in T : ~ (<<m, n>> \in R)
    BY <1>1, WFMin
  <1>4. ASSUME NEW m \in T PROVE n <= m
    <2>1. m \in Nat /\ n \in Nat /\ ~(m < n)
      BY <1>2, <1>3
    <2> QED BY <2>1
  <1> QED BY <1>4

\* Counting on from an endpoint reaches every other one.
LEMMA AfterReaches ==
  ASSUME NEW prev \in Bot!Endpoint
  PROVE  /\ \A i \in Nat : Bot!After(prev, i) \in Bot!Endpoint
         /\ \A e \in Bot!Endpoint \ {prev} :
                \E i \in 1..(NumUrls - 1) : Bot!After(prev, i) = e
  <1>1. NumUrls \in Nat \ {0} /\ prev \in 0..(NumUrls - 1)
    BY EndpointsAssumption DEF Bot!Endpoint
  <1>2. ASSUME NEW i \in Nat PROVE Bot!After(prev, i) \in Bot!Endpoint
    <2>1. \A m \in Nat : m % NumUrls \in 0..(NumUrls - 1)
      BY <1>1
    <2>2. prev + i \in Nat
      BY <1>1
    <2> QED BY <2>1, <2>2 DEF Bot!After, Bot!Endpoint
  <1>3. ASSUME NEW e \in Bot!Endpoint \ {prev}
        PROVE  \E i \in 1..(NumUrls - 1) : Bot!After(prev, i) = e
    <2>1. e \in 0..(NumUrls - 1) /\ e # prev
      BY DEF Bot!Endpoint
    <2>2. CASE e > prev
      <3>1. e - prev \in 1..(NumUrls - 1) /\ prev + (e - prev) = e
        BY <1>1, <2>1, <2>2
      <3>2. e % NumUrls = e
        BY <1>1, <2>1
      <3> QED BY <3>1, <3>2 DEF Bot!After
    <2>3. CASE e < prev
      <3>1. PICK i : i = (e + NumUrls) - prev
        OBVIOUS
      <3>2. i \in 1..(NumUrls - 1) /\ prev + i = e + NumUrls
        BY <1>1, <2>1, <2>3, <3>1
      <3>3. e + NumUrls \in NumUrls..(NumUrls + NumUrls - 1) /\ (e + NumUrls) - NumUrls = e
        BY <1>1, <2>1
      <3>4. \A m \in NumUrls..(NumUrls + NumUrls - 1) : m % NumUrls = m - NumUrls
        BY <1>1
      <3>5. (e + NumUrls) % NumUrls = e
        BY <3>3, <3>4
      <3> QED BY <3>2, <3>5 DEF Bot!After
    <2> QED BY <1>1, <2>1, <2>2, <2>3
  <1> QED BY <1>2, <1>3

\* A list of endpoints without repetitions.
Listed(cool) == cool \in Seq(Bot!Endpoint) /\ Bot!IsInjective(cool)

\* The list without its element number at.
LEMMA RemoveAtIs ==
  ASSUME NEW cool, Listed(cool), NEW at \in DOMAIN cool
  PROVE  /\ Bot!RemoveAt(cool, at) \in Seq(Bot!Endpoint)
         /\ Len(Bot!RemoveAt(cool, at)) = Len(cool) - 1
         /\ \A k \in 1..(Len(cool) - 1) :
                Bot!RemoveAt(cool, at)[k] = IF k < at THEN cool[k] ELSE cool[k + 1]
  <1>1. cool \in Seq(Bot!Endpoint) /\ Len(cool) \in Nat /\ at \in 1..Len(cool)
    BY DEF Listed
  <1> DEFINE a == SubSeq(cool, 1, at - 1)
             b == SubSeq(cool, at + 1, Len(cool))
  <1>2. /\ a \in Seq(Bot!Endpoint) /\ Len(a) = at - 1
        /\ \A k \in 1..(at - 1) : a[k] = cool[k]
    BY <1>1
  <1>3. b \in Seq(Bot!Endpoint) /\ Len(b) = Len(cool) - at
    BY <1>1
  <1>4. \A k \in 1..(Len(cool) - at) : b[k] = cool[at + k]
    BY <1>1
  <1> HIDE DEF a, b
  <1>5. /\ a \o b \in Seq(Bot!Endpoint) /\ Len(a \o b) = Len(cool) - 1
        /\ \A k \in 1..(Len(cool) - 1) :
               (a \o b)[k] = IF k < at THEN a[k] ELSE b[k - (at - 1)]
    BY <1>1, <1>2, <1>3
  <1>6. ASSUME NEW k \in 1..(Len(cool) - 1)
        PROVE  (a \o b)[k] = IF k < at THEN cool[k] ELSE cool[k + 1]
    <2>1. CASE k < at
      BY <1>1, <1>2, <1>5, <2>1
    <2>2. CASE ~(k < at)
      <3>1. k - (at - 1) \in 1..(Len(cool) - at) /\ at + (k - (at - 1)) = k + 1
        BY <1>1, <2>2
      <3> QED BY <1>4, <1>5, <2>2, <3>1
    <2> QED BY <2>1, <2>2
  <1> QED BY <1>5, <1>6 DEF a, b, Bot!RemoveAt

\* Putting an endpoint aside keeps the list, and the endpoint ends it.
LEMMA PutAsideIs ==
  ASSUME NEW cool, Listed(cool), NEW e \in Bot!Endpoint
  PROVE  /\ Listed(Bot!PutAside(cool, e))
         /\ Bot!Contains(Bot!PutAside(cool, e), e)
  <1>1. /\ cool \in Seq(Bot!Endpoint) /\ Len(cool) \in Nat /\ DOMAIN cool = 1..Len(cool)
        /\ \A j, k \in 1..Len(cool) : cool[j] = cool[k] => j = k
    BY DEF Listed, Bot!IsInjective
  <1>2. PICK at : at = CHOOSE k \in DOMAIN cool : cool[k] = e
    OBVIOUS
  <1>3. PICK rest : /\ Bot!PutAside(cool, e) = Append(rest, e)
                    /\ rest \in Seq(Bot!Endpoint) /\ \A k \in 1..Len(rest) : rest[k] # e
                    /\ \A j, k \in 1..Len(rest) : rest[j] = rest[k] => j = k
    <2>1. CASE Bot!Contains(cool, e)
      <3>1. \E k \in DOMAIN cool : cool[k] = e
        BY <1>1, <2>1 DEF Bot!Contains
      <3>2. at \in DOMAIN cool /\ cool[at] = e
        BY <1>2, <3>1
      <3>3. Bot!PutAside(cool, e) = Append(Bot!RemoveAt(cool, at), e)
        BY <1>2, <2>1 DEF Bot!PutAside
      <3>4. PICK rest : rest = Bot!RemoveAt(cool, at)
        OBVIOUS
      <3>5. /\ rest \in Seq(Bot!Endpoint) /\ Len(rest) = Len(cool) - 1
            /\ \A k \in 1..(Len(cool) - 1) : rest[k] = IF k < at THEN cool[k] ELSE cool[k + 1]
        BY <3>2, <3>4, RemoveAtIs
      <3>6. \A k \in 1..Len(rest) : rest[k] # e
        BY <1>1, <3>2, <3>5
      <3>7. ASSUME NEW j \in 1..Len(rest), NEW k \in 1..Len(rest), rest[j] = rest[k]
            PROVE  j = k
        <4> DEFINE d(i) == IF i < at THEN i ELSE i + 1
        <4>1. /\ Len(cool) \in Nat /\ at \in 1..Len(cool) /\ Len(rest) = Len(cool) - 1
          BY <1>1, <3>2, <3>5
        <4>2. /\ d(j) \in 1..Len(cool) /\ d(k) \in 1..Len(cool)
              /\ d(j) = d(k) => j = k
          BY <4>1
        <4>3. rest[j] = cool[d(j)] /\ rest[k] = cool[d(k)]
          BY <3>5, <4>1
        <4> HIDE DEF d
        <4> QED BY <1>1, <3>7, <4>2, <4>3
      <3> QED BY <3>3, <3>4, <3>5, <3>6, <3>7
    <2>2. CASE ~Bot!Contains(cool, e)
      <3>1. Bot!PutAside(cool, e) = Append(cool, e)
        BY <2>2 DEF Bot!PutAside
      <3>2. \A k \in 1..Len(cool) : cool[k] # e
        BY <1>1, <2>2 DEF Bot!Contains
      <3> QED BY <1>1, <3>1, <3>2
    <2> QED BY <2>1, <2>2
  <1> DEFINE new == Append(rest, e)
  <1>4. /\ new \in Seq(Bot!Endpoint) /\ Len(new) = Len(rest) + 1 /\ Len(rest) \in Nat
        /\ DOMAIN new = 1..(Len(rest) + 1)
        /\ \A k \in 1..Len(rest) : new[k] = rest[k]
        /\ new[Len(rest) + 1] = e
    BY <1>3
  <1> HIDE DEF new
  <1>5. \A j, k \in 1..(Len(rest) + 1) : new[j] = new[k] => j = k
    BY <1>3, <1>4
  <1>6. Listed(new)
    BY <1>4, <1>5 DEF Listed, Bot!IsInjective
  <1>7. Bot!Contains(new, e)
    BY <1>4 DEF Bot!Contains
  <1> QED BY <1>3, <1>6, <1>7 DEF new

\* rotate() chooses an endpoint that is ready; one in cooldown only if all are.
LEMMA NextIs ==
  ASSUME NEW prev \in Bot!Endpoint, NEW cool, Listed(cool), Bot!Contains(cool, prev), NumUrls > 1
  PROVE  /\ Bot!NextEndpoint(prev, cool) \in Bot!Endpoint
         /\ Bot!Contains(cool, Bot!NextEndpoint(prev, cool)) =>
                \A e \in Bot!Endpoint : Bot!Contains(cool, e)
  <1> DEFINE ready == {i \in 1..(NumUrls - 1) : ~Bot!Contains(cool, Bot!After(prev, i))}
  <1>0. NumUrls \in Nat
    BY EndpointsAssumption
  <1>1. CASE ready # {}
    <2>1. PICK i : i = CHOOSE x \in ready : \A j \in ready : x <= j
      OBVIOUS
    <2>2. ready \in SUBSET Nat
      BY <1>0
    <2>3. \E k \in ready : \A j \in ready : k <= j
      <3> HIDE DEF ready
      <3> QED BY <1>1, <2>2, Least
    <2>4. i \in ready
      BY <2>1, <2>3
    <2>5. Bot!NextEndpoint(prev, cool) = Bot!After(prev, i)
      BY <1>1, <2>1 DEF Bot!NextEndpoint
    <2>6. i \in Nat /\ ~Bot!Contains(cool, Bot!After(prev, i))
      BY <1>0, <2>4
    <2> QED BY <2>5, <2>6, AfterReaches
  <1>2. CASE ready = {}
    <2>1. \A e \in Bot!Endpoint : Bot!Contains(cool, e)
      BY <1>2, AfterReaches
    <2>2. PICK other \in Bot!Endpoint : other # prev
      <3>1. CASE prev = 0
        BY <1>0, <3>1 DEF Bot!Endpoint
      <3>2. CASE prev # 0
        BY <1>0, <3>2 DEF Bot!Endpoint
      <3> QED BY <3>1, <3>2
    <2>3. cool \in Seq(Bot!Endpoint) /\ Len(cool) \in Nat /\ DOMAIN cool = 1..Len(cool)
      BY DEF Listed
    <2> DEFINE others == {k \in DOMAIN cool : cool[k] # prev}
    <2>4. others # {} /\ others \in SUBSET Nat
      BY <2>1, <2>2, <2>3 DEF Bot!Contains
    <2>5. \E k \in others : \A j \in others : k <= j
      <3> HIDE DEF others
      <3> QED BY <2>4, Least
    <2>6. PICK k : k = CHOOSE x \in DOMAIN cool :
                           cool[x] # prev /\ \A j \in DOMAIN cool : cool[j] # prev => x <= j
      OBVIOUS
    <2>7. k \in DOMAIN cool
      BY <2>5, <2>6
    <2>8. Bot!NextEndpoint(prev, cool) = cool[k]
      BY <1>2, <2>6 DEF Bot!NextEndpoint, Bot!FirstOther
    <2> QED BY <2>1, <2>3, <2>7, <2>8
  <1> QED BY <1>1, <1>2

\* reportFailure() keeps the types, and turns to an endpoint in cooldown only if
\* all are.
LEMMA BotReports ==
  ASSUME Bot!TypeOK, Bot!ReportFailure
  PROVE  /\ botCurrent' \in Bot!Endpoint /\ botFails' \in [Bot!Endpoint -> Nat]
         /\ Listed(cooled')
         /\ botCurrent' # botCurrent /\ Bot!Contains(cooled', botCurrent') =>
                \A e \in Bot!Endpoint : Bot!Contains(cooled', e)
  <1>1. /\ botCurrent \in Bot!Endpoint /\ botFails \in [Bot!Endpoint -> Nat] /\ Listed(cooled)
        /\ NumUrls \in Nat \ {0} /\ MAX_CONSECUTIVE_FAILS \in Nat
    BY EndpointsAssumption DEF Bot!TypeOK, Listed
  <1>2. botFails' \in [Bot!Endpoint -> Nat]
    <2>1. PICK n : n = IF botFails[botCurrent] < MAX_CONSECUTIVE_FAILS
                       THEN botFails[botCurrent] + 1 ELSE botFails[botCurrent]
      OBVIOUS
    <2>2. botFails' = [botFails EXCEPT ![botCurrent] = n]
      BY <2>1 DEF Bot!ReportFailure
    <2>3. n \in Nat
      BY <1>1, <2>1
    <2> QED BY <1>1, <2>2, <2>3
  <1>3. CASE UNCHANGED <<botCurrent, cooled>>
    BY <1>1, <1>2, <1>3
  <1>4. CASE /\ NumUrls > 1 /\ cooled' = Bot!PutAside(cooled, botCurrent)
             /\ botCurrent' = Bot!NextEndpoint(botCurrent, Bot!PutAside(cooled, botCurrent))
    <2>1. /\ Listed(Bot!PutAside(cooled, botCurrent))
          /\ Bot!Contains(Bot!PutAside(cooled, botCurrent), botCurrent)
      BY <1>1, PutAsideIs
    <2>2. PICK cool : cool = Bot!PutAside(cooled, botCurrent)
      OBVIOUS
    <2>3. Bot!NextEndpoint(botCurrent, cool) \in Bot!Endpoint
      BY <1>1, <1>4, <2>1, <2>2, NextIs
    <2>4. Bot!Contains(cool, Bot!NextEndpoint(botCurrent, cool)) =>
              \A e \in Bot!Endpoint : Bot!Contains(cool, e)
      BY <1>1, <1>4, <2>1, <2>2, NextIs
    <2>5. cooled' = cool /\ botCurrent' = Bot!NextEndpoint(botCurrent, cool) /\ Listed(cooled')
      BY <1>4, <2>1, <2>2
    <2> QED BY <1>2, <2>3, <2>4, <2>5
  <1> QED BY <1>3, <1>4 DEF Bot!ReportFailure

\* A step of the bots' manager keeps the types.
LEMMA BotTypesKept ==
  ASSUME Bot!TypeOK, [Bot!Next]_(Bot!vars)
  PROVE  Bot!TypeOK'
  <1>1. /\ botCurrent \in Bot!Endpoint /\ botFails \in [Bot!Endpoint -> Nat] /\ Listed(cooled)
        /\ call \in [BotCaller -> [on : Bot!Endpoint, attempt : 0..NumUrls, rejected : BOOLEAN]]
        /\ healthy \in Healthy /\ NumUrls \in Nat \ {0}
    BY EndpointsAssumption DEF Bot!TypeOK, Listed
  <1> DEFINE Calls == [on : Bot!Endpoint, attempt : 0..NumUrls, rejected : BOOLEAN]
  <1>2. \A r \in BOOLEAN : Bot!Idle(r) \in Calls
    BY <1>1 DEF Bot!Idle, Bot!Endpoint
  <1>3. CASE Bot!CooldownEnds
    <2>1. cooled \in Seq(Bot!Endpoint) /\ cooled # <<>> /\ cooled' = Tail(cooled)
      BY <1>1, <1>3 DEF Listed, Bot!CooldownEnds
    <2>2. /\ cooled' \in Seq(Bot!Endpoint) /\ Len(cooled') = Len(cooled) - 1
          /\ Len(cooled) \in Nat
          /\ \A k \in 1..Len(cooled') : cooled'[k] = cooled[k + 1]
      BY <2>1
    <2>3. \A j, k \in 1..Len(cooled) : cooled[j] = cooled[k] => j = k
      BY <1>1, <2>1 DEF Listed, Bot!IsInjective
    <2>4. \A j, k \in 1..Len(cooled') : cooled'[j] = cooled'[k] => j = k
      BY <2>2, <2>3
    <2>5. Listed(cooled)'
      BY <2>2, <2>4 DEF Listed, Bot!IsInjective
    <2> QED BY <1>1, <1>3, <2>5 DEF Bot!CooldownEnds, Bot!TypeOK, Listed
  <1>4. ASSUME NEW c \in BotCaller, Bot!Call(c)
        PROVE  Bot!TypeOK'
    <2>1. call' = [call EXCEPT ![c] = [on |-> botCurrent, attempt |-> 1, rejected |-> FALSE]]
      BY <1>4 DEF Bot!Call, Bot!Attempt
    <2>2. [on |-> botCurrent, attempt |-> 1, rejected |-> FALSE] \in Calls
      BY <1>1
    <2>3. call' \in [BotCaller -> Calls]
      BY <1>1, <2>1, <2>2
    <2> QED BY <1>1, <1>4, <2>3 DEF Bot!Call, Bot!TypeOK, Listed
  <1>5. ASSUME NEW c \in BotCaller, Bot!Succeed(c)
        PROVE  Bot!TypeOK'
    <2>1. call' \in [BotCaller -> Calls]
      BY <1>1, <1>2, <1>5 DEF Bot!Succeed
    <2>2. botFails' \in [Bot!Endpoint -> Nat]
      BY <1>1, <1>5 DEF Bot!Succeed
    <2> QED BY <1>1, <1>5, <2>1, <2>2 DEF Bot!Succeed, Bot!TypeOK, Listed
  <1>6. ASSUME NEW c \in BotCaller, Bot!FailRetryable(c)
        PROVE  Bot!TypeOK'
    <2>1. /\ botCurrent' \in Bot!Endpoint /\ botFails' \in [Bot!Endpoint -> Nat]
          /\ Listed(cooled')
      BY <1>6, BotReports DEF Bot!FailRetryable
    <2>2. call' \in [BotCaller -> Calls]
      <3>1. CASE call[c].attempt < NumUrls
        <4>1. call' = [call EXCEPT ![c] = [on |-> botCurrent', attempt |-> call[c].attempt + 1,
                                           rejected |-> FALSE]]
          BY <1>6, <3>1 DEF Bot!FailRetryable, Bot!Attempt
        <4>2. call[c].attempt + 1 \in 0..NumUrls
          BY <1>1, <3>1
        <4>3. [on |-> botCurrent', attempt |-> call[c].attempt + 1, rejected |-> FALSE] \in Calls
          BY <2>1, <4>2
        <4> QED BY <1>1, <4>1, <4>3
      <3>2. CASE ~(call[c].attempt < NumUrls)
        BY <1>1, <1>2, <1>6, <3>2 DEF Bot!FailRetryable
      <3> QED BY <3>1, <3>2
    <2> QED BY <1>1, <1>6, <2>1, <2>2 DEF Bot!FailRetryable, Bot!TypeOK, Listed
  <1>7. ASSUME NEW c \in BotCaller, Bot!FailFatal(c)
        PROVE  Bot!TypeOK'
    <2>1. call' \in [BotCaller -> Calls]
      BY <1>1, <1>2, <1>7 DEF Bot!FailFatal
    <2> QED BY <1>1, <1>7, <2>1 DEF Bot!FailFatal, Bot!TypeOK, Listed
  <1>8. CASE UNCHANGED Bot!vars
    BY <1>1, <1>8 DEF Bot!vars, Bot!TypeOK, Listed
  <1> QED BY <1>3, <1>4, <1>5, <1>6, <1>7, <1>8 DEF Bot!Next, Bot!Settle

\* The bots' connection manager keeps its types: rotate() always lands on an
\* endpoint, and an endpoint is never listed in cooldown twice.
THEOREM BotTypeOK == Bot!Spec => []Bot!TypeOK
  <1>1. Bot!Init => Bot!TypeOK
    <2> SUFFICES ASSUME Bot!Init PROVE Bot!TypeOK
      OBVIOUS
    <2>1. NumUrls \in Nat \ {0} /\ 0 \in Bot!Endpoint /\ Bot!Idle(FALSE) \in
              [on : Bot!Endpoint, attempt : 0..NumUrls, rejected : BOOLEAN]
      BY EndpointsAssumption DEF Bot!Endpoint, Bot!Idle
    <2>2. cooled \in Seq(Bot!Endpoint) /\ Len(cooled) = 0
      BY DEF Bot!Init
    <2>3. Bot!IsInjective(cooled)
      BY <2>2 DEF Bot!IsInjective
    <2> QED BY <2>1, <2>2, <2>3 DEF Bot!Init, Bot!TypeOK
  <1>2. Bot!TypeOK /\ [Bot!Next]_(Bot!vars) => Bot!TypeOK'
    BY BotTypesKept
  <1> QED BY <1>1, <1>2, PTL DEF Bot!Spec

\* What the next theorem says, for the manager by itself.
LEMMA BotTurns == Bot!Spec => Bot!CooldownNeedsAll
  <1> DEFINE Turns == botCurrent' # botCurrent /\ Bot!Contains(cooled', botCurrent')
                          => \A e \in Bot!Endpoint : Bot!Contains(cooled', e)
  <1>1. ASSUME Bot!TypeOK, [Bot!Next]_(Bot!vars)
        PROVE  [Turns]_(Bot!vars)
    <2>1. ASSUME NEW c \in BotCaller, Bot!FailRetryable(c)
          PROVE  Turns
      BY <1>1, <2>1, BotReports DEF Bot!FailRetryable
    <2>2. \/ UNCHANGED Bot!vars
          \/ UNCHANGED botCurrent
          \/ \E c \in BotCaller : Bot!FailRetryable(c)
      BY <1>1 DEF Bot!Next, Bot!CooldownEnds, Bot!Call, Bot!Settle, Bot!Succeed, Bot!FailFatal
    <2> QED BY <2>1, <2>2
  <1>2. Bot!Spec => []Bot!TypeOK
    BY BotTypeOK
  <1> QED BY <1>1, <1>2, PTL DEF Bot!Spec, Bot!CooldownNeedsAll

\* The bot turns to an endpoint in cooldown only when every endpoint is in
\* cooldown (rotate()), however failures that settle late moved the current one.
THEOREM BotCooldownNeedsAll == ConnectionsSpec => CooldownNeedsAll
  <1>1. ConnectionsInit => Bot!Init
    BY DEF ConnectionsInit
  <1>2. [ConnectionsNext]_allVars => [Bot!Next]_(Bot!vars)
    BY DEF ConnectionsNext, allVars, botVars, Bot!vars
  <1>3. ConnectionsSpec => Bot!Spec
    BY <1>1, <1>2, PTL DEF ConnectionsSpec, Bot!Spec
  <1> QED BY <1>3, BotTurns DEF CooldownNeedsAll

=============================================================================
