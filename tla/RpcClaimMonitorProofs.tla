------------------------ MODULE RpcClaimMonitorProofs ------------------------
(***************************************************************************)
(* Proofs about RpcClaimMonitor, for any transactions, programs, pollers,  *)
(* subscriptions and cache sizes.  OncePerResidency is strengthened with   *)
(* what holds of the signature being fetched: it was remembered after its  *)
(* last announcement, so it has one more residency than announcements.     *)
(***************************************************************************)
EXTENDS RpcClaimMonitor, TLAPS

Residencies(s) == evicted[s] + (IF Seen(s) THEN 1 ELSE 0)

NoDuplicates == \A j, k \in 1..Len(processed) : processed[j] = processed[k] => j = k

DrainInv == /\ drain = "sleep" => queue # <<>>
            /\ drain = "fetch" => current \in Sig /\ notified[current] < Residencies(current)

IInv == TypeOK /\ NoDuplicates /\ DrainInv /\ OncePerResidency

\* The variables remember() reads and writes, and the announcements.
CacheOK == /\ processed \in Seq(Sig) /\ NoDuplicates
           /\ evicted \in [Sig -> Nat] /\ notified \in [Sig -> Nat]
           /\ OncePerResidency

\* Remembering a new signature adds one to its residencies and leaves those of
\* the others: an evicted one trades its membership for a count.
LEMMA RememberKeeps ==
  ASSUME CacheOK, NEW s \in Sig, ~Seen(s), Remember(s)
  PROVE  /\ processed' \in Seq(Sig) /\ NoDuplicates'
         /\ evicted' \in [Sig -> Nat]
         /\ Residencies(s)' = Residencies(s) + 1
         /\ \A x \in Sig \ {s} : Residencies(x)' = Residencies(x)
  <1> DEFINE all == Append(processed, s)
             old == Len(all) - CACHE_KEEP
  <1>1. /\ all \in Seq(Sig) /\ Len(all) = Len(processed) + 1 /\ Len(processed) \in Nat
        /\ \A k \in 1..Len(processed) : all[k] = processed[k]
        /\ all[Len(all)] = s
    BY DEF CacheOK
  <1>2. \A j, k \in 1..Len(all) : all[j] = all[k] => j = k
    BY <1>1 DEF CacheOK, NoDuplicates, Seen, Range
  <1>3. \A x \in Sig \ {s} : Seen(x) <=> \E k \in 1..Len(all) : all[k] = x
    <2> SUFFICES ASSUME NEW x \in Sig \ {s}
                 PROVE  Seen(x) <=> \E k \in 1..Len(all) : all[k] = x
      OBVIOUS
    <2> HIDE DEF all
    <2>1. Seen(x) <=> \E k \in 1..Len(processed) : processed[k] = x
      BY DEF CacheOK, Seen, Range
    <2>2. Len(all) = Len(processed) + 1 /\ all[Len(all)] # x
      BY <1>1
    <2> QED BY <1>1, <2>1, <2>2
  <1>4. evicted \in [Sig -> Nat]
    BY DEF CacheOK
  <1>5. CASE Len(all) > CACHE_MAX
    <2>1. /\ processed' = SubSeq(all, old + 1, Len(all))
          /\ evicted' = [x \in Sig |-> evicted[x]
                           + (IF \E k \in 1..old : all[k] = x THEN 1 ELSE 0)]
      BY <1>5 DEF Remember
    <2>2. old \in Nat /\ old < Len(all)
      BY <1>1, <1>5, MonitorAssumption
    <2> HIDE DEF all, old
    <2>3. /\ processed' \in Seq(Sig) /\ Len(processed') = Len(all) - old
          /\ \A k \in 1..Len(processed') : processed'[k] = all[old + k]
      BY <1>1, <2>1, <2>2
    <2>4. NoDuplicates'
      BY <1>1, <1>2, <2>2, <2>3 DEF NoDuplicates
    <2>5. \A x \in Sig : Seen(x)' <=> \E k \in (old + 1)..Len(all) : all[k] = x
      <3>1. TAKE x \in Sig
      <3>2. ASSUME NEW k \in (old + 1)..Len(all), all[k] = x PROVE Seen(x)'
        <4>1. k - old \in 1..Len(processed') /\ processed'[k - old] = x
          BY <1>1, <2>2, <2>3, <3>2
        <4> QED BY <4>1, <2>3 DEF Seen, Range
      <3>3. ASSUME Seen(x)' PROVE \E k \in (old + 1)..Len(all) : all[k] = x
        <4>1. PICK j \in 1..Len(processed') : processed'[j] = x
          BY <2>3, <3>3 DEF Seen, Range
        <4>2. old + j \in (old + 1)..Len(all) /\ all[old + j] = x
          BY <1>1, <2>2, <2>3, <4>1
        <4> QED BY <4>2
      <3> QED BY <3>2, <3>3
    <2>6. evicted' \in [Sig -> Nat]
      BY <1>4, <2>1
    <2>7. Residencies(s)' = Residencies(s) + 1
      <3>1. ~ \E k \in 1..old : all[k] = s
        BY <1>1, <1>2, <2>2
      <3>2. Seen(s)'
        BY <1>1, <2>2, <2>5
      <3>3. evicted'[s] = evicted[s]
        BY <1>4, <2>1, <3>1
      <3> QED BY <1>4, <3>2, <3>3 DEF Residencies
    <2>8. ASSUME NEW x \in Sig \ {s} PROVE Residencies(x)' = Residencies(x)
      <3>1. CASE \E k \in 1..old : all[k] = x
        <4>1. ~Seen(x)' /\ Seen(x)
          BY <1>1, <1>2, <1>3, <2>2, <2>5, <3>1
        <4>2. evicted'[x] = evicted[x] + 1
          BY <1>4, <2>1, <3>1
        <4> QED BY <1>4, <4>1, <4>2 DEF Residencies
      <3>2. CASE ~ \E k \in 1..old : all[k] = x
        <4>1. Seen(x)' <=> Seen(x)
          BY <1>1, <1>3, <2>2, <2>5, <3>2
        <4>2. evicted'[x] = evicted[x]
          BY <1>4, <2>1, <3>2
        <4> QED BY <4>1, <4>2 DEF Residencies
      <3> QED BY <3>1, <3>2
    <2> QED BY <2>3, <2>4, <2>6, <2>7, <2>8
  <1>6. CASE ~(Len(all) > CACHE_MAX)
    <2>1. processed' = all /\ evicted' = evicted
      BY <1>6 DEF Remember
    <2> HIDE DEF all
    <2>2. NoDuplicates'
      BY <1>1, <1>2, <2>1 DEF NoDuplicates
    <2>3. Seen(s)'
      BY <1>1, <2>1 DEF Seen, Range
    <2>4. \A x \in Sig \ {s} : Seen(x)' <=> Seen(x)
      BY <1>1, <1>3, <2>1 DEF Seen, Range
    <2> QED BY <1>1, <1>4, <2>1, <2>2, <2>3, <2>4 DEF Residencies
  <1> QED BY <1>5, <1>6

\* The variables of the drain loop and the cache keep the invariant.
DrainPart == /\ CacheOK /\ DrainInv
             /\ queue \in Seq(Sig) /\ drain \in {"idle", "sleep", "fetch"}
             /\ current \in Sig \cup {NoSig}

\* Taking up a signature, seen or new, keeps the invariant of the drain loop.
LEMMA ProcessKeeps ==
  ASSUME CacheOK, NEW s \in Sig, NEW rest \in Seq(Sig),
         Process(s, rest), UNCHANGED notified
  PROVE  DrainPart'
  <1>1. queue' = rest /\ queue' \in Seq(Sig)
    BY DEF Process
  <1>2. CASE Seen(s)
    <2>1. /\ drain' = IF rest = <<>> THEN "idle" ELSE "sleep"
          /\ current' = NoSig /\ UNCHANGED <<processed, evicted>>
      BY <1>2 DEF Process
    <2>2. CacheOK'
      BY <2>1 DEF CacheOK, NoDuplicates, OncePerResidency, Seen
    <2> QED BY <1>1, <2>1, <2>2 DEF DrainPart, DrainInv
  <1>3. CASE ~Seen(s)
    <2>1. drain' = "fetch" /\ current' = s /\ Remember(s) /\ notified' = notified
      BY <1>3 DEF Process
    <2>2. /\ processed' \in Seq(Sig) /\ NoDuplicates'
          /\ evicted' \in [Sig -> Nat]
          /\ Residencies(s)' = Residencies(s) + 1
          /\ \A x \in Sig \ {s} : Residencies(x)' = Residencies(x)
      BY <1>3, <2>1, RememberKeeps
    <2>3. \A x \in Sig : notified[x] \in Nat /\ Residencies(x) \in Nat
                         /\ notified[x] <= Residencies(x)
      BY DEF CacheOK, OncePerResidency, Residencies
    <2>4. \A x \in Sig : notified'[x] <= Residencies(x)'
      <3>1. TAKE x \in Sig
      <3>2. CASE x = s
        <4>1. Residencies(x)' = Residencies(s)'
          BY <3>2 DEF Residencies, Seen
        <4>2. Residencies(x) = Residencies(s) /\ notified'[x] = notified[x]
          BY <2>1, <3>2
        <4>3. Residencies(x)' = Residencies(x) + 1
          BY <2>2, <4>1, <4>2
        <4> QED BY <2>3, <4>2, <4>3
      <3>3. CASE x # s
        BY <2>1, <2>2, <2>3, <3>3
      <3> QED BY <3>2, <3>3
    <2>5. OncePerResidency'
      BY <2>4 DEF OncePerResidency, Residencies
    <2>6. notified'[s] < Residencies(s)'
      BY <2>1, <2>2, <2>3
    <2>7. CacheOK'
      BY <2>1, <2>2, <2>5 DEF CacheOK
    <2> QED BY <1>1, <2>1, <2>6, <2>7 DEF DrainPart, DrainInv
  <1> QED BY <1>2, <1>3

\* What a run of enqueue() calls appends are some of the signatures given.
LEMMA AcceptAllType ==
  ASSUME NEW q \in Seq(Sig), NEW news \in Seq(Sig)
  PROVE  AcceptAll(q, news) \in Seq(Sig) /\ Refused(q, news) \in SUBSET Sig
  <1>1. Room(q) \in Nat
    BY MonitorAssumption DEF Room, Lesser
  <1>2. Lesser(Room(q), Len(news)) \in 0..Len(news)
    BY <1>1 DEF Lesser
  <1>3. SubSeq(news, 1, Lesser(Room(q), Len(news))) \in Seq(Sig)
    BY <1>2
  <1>4. Refused(q, news) \in SUBSET Sig
    BY <1>1 DEF Refused
  <1> QED BY <1>3, <1>4 DEF AcceptAll

\* A run of enqueue() calls keeps the invariant of the drain loop.
LEMMA EnqueueKeeps ==
  ASSUME DrainPart, dropped \in SUBSET Sig, NEW news \in Seq(Sig), EnqueueAll(news)
  PROVE  DrainPart' /\ dropped' \in SUBSET Sig
  <1>1. CASE /\ drain # "idle" \/ news = <<>>
             /\ queue' = AcceptAll(queue, news)
             /\ dropped' = dropped \cup Refused(queue, news)
             /\ UNCHANGED <<drain, current, processed, notified, evicted>>
    <2>1. AcceptAll(queue, news) \in Seq(Sig) /\ Refused(queue, news) \in SUBSET Sig
      BY AcceptAllType DEF DrainPart
    <2>2. queue # <<>> => AcceptAll(queue, news) # <<>>
      <3>1. SubSeq(news, 1, Lesser(Room(queue), Len(news))) \in Seq(Sig)
        <4>1. Lesser(Room(queue), Len(news)) \in 0..Len(news)
          BY MonitorAssumption DEF Room, Lesser, DrainPart
        <4> QED BY <4>1
      <3> QED BY <3>1 DEF AcceptAll, DrainPart
    <2>3. CacheOK' /\ Residencies(current)' = Residencies(current)
      BY <1>1 DEF DrainPart, CacheOK, NoDuplicates, OncePerResidency, Seen, Residencies
    <2>4. DrainInv'
      BY <1>1, <2>2, <2>3 DEF DrainPart, DrainInv
    <2> QED BY <1>1, <2>1, <2>3, <2>4 DEF DrainPart
  <1>2. CASE /\ drain = "idle" /\ AcceptAll(queue, news) # <<>>
             /\ queue' = AcceptAll(queue, news)
             /\ dropped' = dropped \cup Refused(queue, news)
             /\ drain' = "sleep"
             /\ UNCHANGED <<current, processed, notified, evicted>>
    <2>1. AcceptAll(queue, news) \in Seq(Sig) /\ Refused(queue, news) \in SUBSET Sig
      BY AcceptAllType DEF DrainPart
    <2>2. CacheOK'
      BY <1>2 DEF DrainPart, CacheOK, NoDuplicates, OncePerResidency, Seen
    <2> QED BY <1>2, <2>1, <2>2 DEF DrainPart, DrainInv
  <1>3. CASE /\ drain = "idle" /\ news # <<>> /\ Room(queue) > 0
             /\ LET q == Append(queue, news[1])
                IN /\ Process(q[1], AcceptAll(Tail(q), Tail(news)))
                   /\ dropped' = dropped \cup Refused(Tail(q), Tail(news))
             /\ UNCHANGED notified
    <2> DEFINE q == Append(queue, news[1])
    <2>1. q \in Seq(Sig) /\ q[1] \in Sig /\ Tail(q) \in Seq(Sig) /\ Tail(news) \in Seq(Sig)
      <3>1. Len(news) > 0 /\ news[1] \in Sig /\ Tail(news) \in Seq(Sig)
        BY <1>3
      <3>2. q \in Seq(Sig) /\ Len(q) = Len(queue) + 1 /\ Len(queue) \in Nat
        BY <3>1 DEF DrainPart
      <3> HIDE DEF q
      <3>3. 1 \in 1..Len(q) /\ q # <<>>
        BY <3>2
      <3> QED BY <3>1, <3>2, <3>3
    <2>2. Process(q[1], AcceptAll(Tail(q), Tail(news)))
          /\ dropped' = dropped \cup Refused(Tail(q), Tail(news))
      BY <1>3
    <2> HIDE DEF q
    <2>3. AcceptAll(Tail(q), Tail(news)) \in Seq(Sig) /\ Refused(Tail(q), Tail(news)) \in SUBSET Sig
      BY <2>1, AcceptAllType
    <2>4. CacheOK /\ UNCHANGED notified
      BY <1>3 DEF DrainPart
    <2>5. DrainPart'
      BY <2>1, <2>2, <2>3, <2>4, ProcessKeeps
    <2> QED BY <2>2, <2>3, <2>5
  <1> QED BY <1>1, <1>2, <1>3 DEF EnqueueAll


\* The variables of the subscriptions and pollers.
FeedPart == /\ chain \in [Program -> Seq(Sig)] /\ alive \in BOOLEAN /\ starts \in Nat
            /\ interval \in BOOLEAN /\ initial \in Nat /\ wsSubs \in Nat
            /\ delivered \in [Program \X Sig -> Nat]
            /\ poll \in [Poller -> Activation]
            /\ lastSig \in [Program -> Sig \cup {NoSig}]
            /\ dropped \in SUBSET Sig /\ skipped \in SUBSET Sig

\* The invariant falls into the part that polls touch and the drain loop's.
LEMMA Split == IInv <=> FeedPart /\ DrainPart
  BY DEF IInv, TypeOK, FeedPart, DrainPart, CacheOK

\* The same of the next state, in the direction the steps need.
LEMMA SplitNext == FeedPart' /\ DrainPart' => IInv'
  BY DEF IInv, TypeOK, FeedPart, DrainPart, CacheOK

\* The states of a pollAll() activation have their types.
LEMMA AtType ==
  ASSUME NEW where \in {"idle", "asked", "answered", "pause"}, NEW p \in Program,
         NEW until \in Sig \cup {NoSig}
  PROVE  At(where, p, until) \in Activation
  BY DEF At, Activation

\* So has the state of one that is not running.
LEMMA IdleType == Idle \in Activation
  <1>1. 1 \in Program
    BY MonitorAssumption DEF Program
  <1> QED BY <1>1, AtType DEF Idle

\* A step that touches neither queue nor cache keeps the drain loop's part.
LEMMA DrainStutter == DrainPart /\ UNCHANGED drainVars => DrainPart'
  <1> SUFFICES ASSUME DrainPart, UNCHANGED drainVars PROVE DrainPart'
    OBVIOUS
  <1>1. CacheOK'
    BY DEF DrainPart, drainVars, CacheOK, NoDuplicates, OncePerResidency, Seen
  <1>2. DrainInv'
    BY DEF DrainPart, drainVars, DrainInv, Residencies, Seen
  <1> QED BY <1>1, <1>2 DEF DrainPart, drainVars

\* Nothing is remembered or announced at first.
LEMMA InitIInv == Init => IInv
  <1> SUFFICES ASSUME Init PROVE FeedPart /\ DrainPart
    BY Split
  <1>1. FeedPart
    <2>1. /\ chain \in [Program -> Seq(Sig)]
          /\ delivered \in [Program \X Sig -> Nat]
          /\ lastSig \in [Program -> Sig \cup {NoSig}]
      BY DEF Init
    <2>2. poll \in [Poller -> Activation]
      BY IdleType DEF Init
    <2> QED BY <2>1, <2>2 DEF Init, FeedPart
  <1>2. CacheOK
    <2>1. processed = <<>> /\ processed \in Seq(Sig) /\ Len(processed) = 0
      BY DEF Init
    <2>2. evicted = [s \in Sig |-> 0] /\ notified = [s \in Sig |-> 0]
      BY DEF Init
    <2> QED BY <2>1, <2>2 DEF CacheOK, NoDuplicates, OncePerResidency, Seen
  <1>3. DrainPart
    BY <1>2 DEF Init, DrainPart, DrainInv
  <1> QED BY <1>1, <1>3

\* The page of an answer holds signatures of the program's history.
LEMMA PageType ==
  ASSUME FeedPart, NEW p \in Program, NEW until
  PROVE  /\ PageOf(Newer(p, until)) \in Seq(Sig)
         /\ Range(Newer(p, until)) \in SUBSET Sig
  <1> DEFINE h == chain[p]
             from == IF until \in Range(h) THEN CHOOSE k \in 1..Len(h) : h[k] = until ELSE 0
             new == SubSeq(h, from + 1, Len(h))
  <1>1. h \in Seq(Sig) /\ Len(h) \in Nat
    BY DEF FeedPart
  <1> HIDE DEF h
  <1>2. from \in 0..Len(h)
    <2>1. until \in Range(h) => \E k \in 1..Len(h) : h[k] = until
      BY <1>1 DEF Range
    <2> QED BY <1>1, <2>1
  <1> HIDE DEF from
  <1>3. new \in Seq(Sig)
    BY <1>1, <1>2
  <1>4. new = Newer(p, until)
    BY DEF Newer, h, from
  <1> HIDE DEF new
  <1>5. Range(new) \in SUBSET Sig
    BY <1>3 DEF Range
  <1>6. Lesser(Len(new), POLL_LIMIT) \in 0..Len(new)
    BY <1>3, MonitorAssumption DEF Lesser
  <1>7. \A k \in 1..Lesser(Len(new), POLL_LIMIT) : new[Len(new) - k + 1] \in Sig
    BY <1>3, <1>6
  <1>8. PageOf(new) \in Seq(Sig)
    BY <1>6, <1>7 DEF PageOf
  <1> QED BY <1>4, <1>5, <1>8

\* Every step keeps the invariant.
LEMMA StepKeeps == IInv /\ [Next]_vars => IInv'
  <1> SUFFICES ASSUME FeedPart, DrainPart, [Next]_vars PROVE FeedPart' /\ DrainPart'
    BY Split, SplitNext
  <1> USE MonitorAssumption
  <1>1. CASE Start
    <2>1. UNCHANGED drainVars
      BY <1>1 DEF Start
    <2>2. /\ UNCHANGED <<chain, delivered, poll, lastSig, skipped>> /\ dropped' = dropped
          /\ alive' = TRUE /\ starts' = starts + 1
      BY <1>1 DEF Start, drainVars
    <2>3. interval' \in BOOLEAN /\ initial' \in Nat /\ wsSubs' \in Nat
      <3>1. CASE wsSubs' = wsSubs + 1 /\ UNCHANGED <<interval, initial>>
        BY <3>1 DEF FeedPart
      <3>2. CASE interval' = TRUE /\ initial' = initial + 1 /\ UNCHANGED wsSubs
        BY <3>2 DEF FeedPart
      <3> QED BY <1>1, <3>1, <3>2 DEF Start
    <2>4. FeedPart'
      BY <2>2, <2>3 DEF FeedPart
    <2> QED BY <2>1, <2>4, DrainStutter
  <1>2. CASE Stop
    <2>1. UNCHANGED drainVars
      BY <1>2 DEF Stop
    <2>2. FeedPart'
      BY <1>2 DEF Stop, FeedPart, drainVars
    <2> QED BY <2>1, <2>2, DrainStutter
  <1>3. CASE Take
    <2>1. queue[1] \in Sig /\ Tail(queue) \in Seq(Sig)
      BY <1>3 DEF Take, DrainPart, DrainInv
    <2>2. Process(queue[1], Tail(queue)) /\ UNCHANGED <<feedVars, notified, dropped, skipped>>
      BY <1>3 DEF Take
    <2>3. CacheOK
      BY DEF DrainPart
    <2>4. DrainPart'
      BY <2>1, <2>2, <2>3, ProcessKeeps
    <2>5. FeedPart'
      BY <2>2 DEF FeedPart, feedVars
    <2> QED BY <2>4, <2>5
  <1>4. CASE \E found \in BOOLEAN : Fetched(found)
    <2>1. PICK found \in BOOLEAN : Fetched(found)
      BY <1>4
    <2>2. FeedPart'
      BY <2>1 DEF Fetched, FeedPart, feedVars
    <2>3. current \in Sig /\ notified[current] < Residencies(current)
      BY <2>1 DEF Fetched, DrainPart, DrainInv
    <2>4. /\ UNCHANGED <<queue, processed, evicted>> /\ current' = NoSig
          /\ drain' \in {"idle", "sleep"} /\ (drain' = "sleep" => queue # <<>>)
      BY <2>1 DEF Fetched
    <2> DEFINE n == IF found /\ current \in Claims \ Failed THEN 1 ELSE 0
    <2>5. n \in 0..1 /\ notified' = [notified EXCEPT ![current] = @ + n]
      BY <2>1 DEF Fetched
    <2> HIDE DEF n
    <2>6. ASSUME NEW x \in Sig PROVE notified'[x] <= Residencies(x) /\ notified'[x] \in Nat
      <3>1. /\ notified \in [Sig -> Nat] /\ Residencies(x) \in Nat
            /\ notified[x] <= Residencies(x)
        BY DEF DrainPart, CacheOK, OncePerResidency, Residencies
      <3>2. CASE x = current
        <4>1. notified[x] < Residencies(x)
          BY <2>3, <3>2
        <4>2. notified'[x] = notified[x] + n
          BY <2>5, <3>1, <3>2
        <4> QED BY <2>5, <3>1, <4>1, <4>2
      <3>3. CASE x # current
        <4>1. notified'[x] = notified[x]
          BY <2>5, <3>1, <3>3
        <4> QED BY <3>1, <4>1
      <3> QED BY <3>2, <3>3
    <2>70. notified' \in [Sig -> Nat]
      BY <2>5, <2>6 DEF DrainPart, CacheOK
    <2>7. CacheOK'
      BY <2>4, <2>6, <2>70
      DEF DrainPart, CacheOK, NoDuplicates, OncePerResidency, Residencies, Seen
    <2> QED BY <2>2, <2>4, <2>7 DEF DrainPart, DrainInv
  <1>5. CASE \E s \in Sig : Confirm(s)
    <2>1. PICK s \in Sig : Confirm(s)
      BY <1>5
    <2>2. UNCHANGED drainVars
      BY <2>1 DEF Confirm
    <2>3. chain' \in [Program -> Seq(Sig)]
      BY <2>1 DEF Confirm, FeedPart
    <2>4. FeedPart'
      BY <2>1, <2>3 DEF Confirm, FeedPart, drainVars
    <2> QED BY <2>2, <2>4, DrainStutter
  <1>6. CASE \E p \in Program, s \in Sig : WsLogs(p, s)
    <2>1. PICK p \in Program, s \in Sig : WsLogs(p, s)
      BY <1>6
    <2>2. delivered' \in [Program \X Sig -> Nat]
      BY <2>1 DEF WsLogs, FeedPart
    <2>3. CASE UNCHANGED drainVars
      <3>1. FeedPart'
        BY <2>1, <2>2, <2>3 DEF WsLogs, FeedPart, drainVars
      <3> QED BY <2>3, <3>1, DrainStutter
    <2>4. CASE EnqueueAll(<<s>>)
      <3>1. <<s>> \in Seq(Sig) /\ dropped \in SUBSET Sig
        BY DEF FeedPart
      <3>2. DrainPart' /\ dropped' \in SUBSET Sig
        BY <2>4, <3>1, EnqueueKeeps
      <3>3. FeedPart'
        BY <2>1, <2>2, <3>2 DEF WsLogs, FeedPart
      <3> QED BY <3>2, <3>3
    <2> QED BY <2>1, <2>3, <2>4 DEF WsLogs
  <1>7. ASSUME NEW i \in Poller, NEW p \in Program, Ask(i, p), initial' \in Nat
        PROVE  FeedPart' /\ DrainPart'
    <2>1. At("asked", p, lastSig[p]) \in Activation
      <3>1. lastSig[p] \in Sig \cup {NoSig}
        BY DEF FeedPart
      <3> QED BY <3>1, AtType
    <2>2. poll' \in [Poller -> Activation]
      BY <1>7, <2>1 DEF Ask, FeedPart
    <2>3. FeedPart' /\ UNCHANGED drainVars
      BY <1>7, <2>2 DEF Ask, FeedPart, drainVars
    <2> QED BY <2>3, DrainStutter
  <1>8. ASSUME NEW i \in Poller, PollStart(i) PROVE FeedPart' /\ DrainPart'
    <2>1. initial' \in Nat /\ Ask(i, 1)
      BY <1>8 DEF PollStart, FeedPart
    <2> QED BY <1>7, <2>1 DEF Program
  <1>9. ASSUME NEW i \in Poller, PollNext(i) PROVE FeedPart' /\ DrainPart'
    <2>1. poll[i].prog \in Program
      BY DEF FeedPart, Activation
    <2>2. poll[i].prog + 1 \in Program /\ initial' \in Nat /\ Ask(i, poll[i].prog + 1)
      BY <1>9, <2>1 DEF PollNext, FeedPart, Program
    <2> QED BY <1>7, <2>2
  <1>10. ASSUME NEW i \in Poller, PollEnd(i) PROVE FeedPart' /\ DrainPart'
    <2>1. poll' \in [Poller -> Activation] /\ UNCHANGED drainVars
      BY IdleType, <1>10 DEF PollEnd, FeedPart
    <2>2. FeedPart'
      BY <1>10, <2>1 DEF PollEnd, FeedPart, drainVars
    <2> QED BY <2>1, <2>2, DrainStutter
  <1>11. ASSUME NEW i \in Poller, Answer(i) PROVE FeedPart' /\ DrainPart'
    <2> DEFINE new == Newer(poll[i].prog, poll[i].until)
    <2>1. poll[i] \in Activation
      BY DEF FeedPart
    <2>2. PageOf(new) \in Seq(Sig) /\ Range(new) \in SUBSET Sig
      BY <2>1, PageType DEF Activation
    <2>3. /\ UNCHANGED drainVars
          /\ UNCHANGED <<chain, alive, starts, interval, initial, wsSubs, delivered,
                         lastSig, skipped>>
          /\ poll' = [poll EXCEPT ![i].at = "answered", ![i].page = PageOf(new),
                                  ![i].cut = Range(new) \ Range(PageOf(new))]
      BY <1>11 DEF Answer
    <2>4. Range(new) \ Range(PageOf(new)) \in SUBSET Sig
      BY <2>2
    <2> HIDE DEF new
    <2>5. poll' \in [Poller -> Activation]
      BY <2>1, <2>2, <2>3, <2>4 DEF FeedPart, Activation
    <2>6. FeedPart'
      BY <2>3, <2>5 DEF FeedPart, drainVars
    <2> QED BY <2>3, <2>6, DrainStutter
  <1>12. ASSUME NEW i \in Poller, PollContinue(i) PROVE FeedPart' /\ DrainPart'
    <2>1. /\ poll[i] \in Activation
          /\ At("pause", poll[i].prog, NoSig) \in Activation
      BY AtType DEF FeedPart, Activation
    <2>2. /\ poll' = [poll EXCEPT ![i] = At("pause", poll[i].prog, NoSig)]
          /\ UNCHANGED <<chain, alive, starts, interval, initial, wsSubs, delivered>>
      BY <1>12 DEF PollContinue
    <2>3. poll' \in [Poller -> Activation]
      BY <2>1, <2>2 DEF FeedPart
    <2>4. CASE UNCHANGED <<lastSig, drainVars, skipped>>
      <3>1. FeedPart'
        BY <2>2, <2>3, <2>4 DEF FeedPart, drainVars
      <3> QED BY <2>4, <3>1, DrainStutter
    <2>5. CASE /\ poll[i].page # <<>>
               /\ lastSig' = [lastSig EXCEPT ![poll[i].prog] = poll[i].page[1]]
               /\ skipped' = skipped \cup poll[i].cut
               /\ \E n \in 0..Len(poll[i].page) :
                    \E news \in [1..n -> Range(poll[i].page)] :
                        IsFresh(news, poll[i].page) /\ EnqueueAll(news)
      <3>1. /\ poll[i].page \in Seq(Sig) /\ poll[i].cut \in SUBSET Sig
            /\ poll[i].prog \in Program
        BY <2>1 DEF Activation
      <3>2. PICK n \in 0..Len(poll[i].page) : \E news \in [1..n -> Range(poll[i].page)] :
                        IsFresh(news, poll[i].page) /\ EnqueueAll(news)
        BY <2>5
      <3>3. PICK news \in [1..n -> Range(poll[i].page)] : EnqueueAll(news)
        BY <3>2
      <3>4. Range(poll[i].page) \in SUBSET Sig
        BY <3>1 DEF Range
      <3>5. news \in Seq(Sig) /\ dropped \in SUBSET Sig
        BY <3>1, <3>3, <3>4 DEF FeedPart
      <3>6. DrainPart' /\ dropped' \in SUBSET Sig
        BY <3>3, <3>5, EnqueueKeeps
      <3>7. lastSig' \in [Program -> Sig \cup {NoSig}] /\ skipped' \in SUBSET Sig
        BY <2>5, <3>1 DEF FeedPart
      <3>8. FeedPart'
        BY <2>2, <2>3, <3>6, <3>7 DEF FeedPart
      <3> QED BY <3>6, <3>8
    <2> QED BY <1>12, <2>4, <2>5 DEF PollContinue
  <1>13. ASSUME NEW i \in Poller, PollError(i) PROVE FeedPart' /\ DrainPart'
    <2>1. At("pause", poll[i].prog, NoSig) \in Activation
      BY AtType DEF FeedPart, Activation
    <2>2. poll' \in [Poller -> Activation] /\ UNCHANGED drainVars
      BY <1>13, <2>1 DEF PollError, FeedPart
    <2>3. FeedPart'
      BY <1>13, <2>2 DEF PollError, FeedPart, drainVars
    <2> QED BY <2>2, <2>3, DrainStutter
  <1>15. CASE UNCHANGED vars
    <2>1. UNCHANGED drainVars
      BY <1>15 DEF vars
    <2>2. FeedPart'
      BY <1>15 DEF vars, feedVars, drainVars, FeedPart
    <2> QED BY <2>1, <2>2, DrainStutter
  <1> QED
    BY <1>1, <1>2, <1>3, <1>4, <1>5, <1>6, <1>8, <1>9, <1>10, <1>11, <1>12, <1>13, <1>15
    DEF Next

\* The invariant of the monitor: types, a cache without duplicates, and one more
\* residency than announcements for the signature being fetched.
THEOREM MonitorInvariant == Spec => []IInv
  BY InitIInv, StepKeeps, PTL DEF Spec

\* The variables of the monitor keep their types.
THEOREM MonitorTypeOK == Spec => []TypeOK
  <1>1. IInv => TypeOK
    BY DEF IInv
  <1> QED BY <1>1, MonitorInvariant, PTL

\* However polls overlap, subscriptions repeat and the queue fills, a claim is
\* announced at most once per residency of its signature in processedSigs.
THEOREM MonitorOncePerResidency == Spec => []OncePerResidency
  <1>1. IInv => OncePerResidency
    BY DEF IInv
  <1> QED BY <1>1, MonitorInvariant, PTL

------------------------------------------------------------------------------
(* The cursors.  Everything up to the signature a request asks with was dealt  *)
(* with before; everything up to the newest of an answered page was too, or is *)
(* on the page or cut off.  Nothing that was dealt with is forgotten: what the *)
(* cache evicts has had its residency.                                         *)

Handled(s) == Residencies(s) > 0 \/ s \in Failed \cup Range(queue) \cup dropped \cup skipped

\* Position k of the history of p lies after the signature c.
After(p, c, k) == c = NoSig \/ \E i \in 1..(k - 1) : chain[p][i] = c

Known(p, c) == c \in Range(chain[p]) \cup {NoSig}

AskKnown(state) ==
    state.at = "asked" =>
        /\ Known(state.prog, state.until)
        /\ \A k \in 1..Len(chain[state.prog]) :
               After(state.prog, state.until, k) \/ Handled(chain[state.prog][k])

PageKnown(state) ==
    state.at = "answered" /\ state.page # <<>> =>
        /\ Known(state.prog, state.page[1])
        /\ \A k \in 1..Len(chain[state.prog]) :
               \/ After(state.prog, state.page[1], k) \/ Handled(chain[state.prog][k])
               \/ chain[state.prog][k] \in Range(state.page) \cup state.cut

ChainInv == \A p \in Program : IsInjective(chain[p])
LastInv == \A p \in Program : Known(p, lastSig[p])
Covered == \A p \in Program : \A k \in 1..Len(chain[p]) :
               After(p, lastSig[p], k) \/ Handled(chain[p][k])
PollsInv == \A i \in Poller : AskKnown(poll[i]) /\ PageKnown(poll[i])

CInv == ChainInv /\ LastInv /\ Covered /\ PollsInv

\* Nothing that was dealt with is forgotten.
Grows == \A s \in Sig : Handled(s) => Handled(s)'

\* Taking up a signature deals with it, and with what stays in the queue.
LEMMA ProcessHandles ==
  ASSUME CacheOK, NEW s \in Sig, NEW rest \in Seq(Sig), Process(s, rest)
  PROVE  /\ queue' = rest /\ Residencies(s)' > 0
         /\ \A x \in Sig : Residencies(x) > 0 => Residencies(x)' > 0
  <1>0. \A x \in Sig : Residencies(x) \in Nat
    BY DEF CacheOK, Residencies
  <1>1. CASE Seen(s)
    <2>1. UNCHANGED <<processed, evicted>>
      BY <1>1 DEF Process
    <2>2. \A x : Residencies(x)' = Residencies(x)
      BY <2>1 DEF Residencies, Seen
    <2>3. Residencies(s) > 0
      BY <1>1 DEF CacheOK, Residencies
    <2> QED BY <2>2, <2>3 DEF Process
  <1>2. CASE ~Seen(s)
    <2>1. Remember(s)
      BY <1>2 DEF Process
    <2>2. /\ Residencies(s)' = Residencies(s) + 1
          /\ \A x \in Sig \ {s} : Residencies(x)' = Residencies(x)
      BY <1>2, <2>1, RememberKeeps
    <2>3. Residencies(s)' > 0
      BY <1>0, <2>2
    <2>4. ASSUME NEW x \in Sig, Residencies(x) > 0 PROVE Residencies(x)' > 0
      <3>1. CASE x = s
        BY <2>3, <3>1 DEF Residencies, Seen
      <3>2. CASE x # s
        BY <2>2, <2>4, <3>2
      <3> QED BY <3>1, <3>2
    <2> QED BY <2>3, <2>4 DEF Process
  <1> QED BY <1>1, <1>2

\* Of the signatures given to enqueue() each is accepted or refused.
LEMMA AcceptOrRefuse ==
  ASSUME NEW q \in Seq(Sig), NEW news \in Seq(Sig)
  PROVE  /\ Range(q) \subseteq Range(AcceptAll(q, news))
         /\ Range(news) \subseteq Range(AcceptAll(q, news)) \cup Refused(q, news)
  <1> DEFINE n == Lesser(Room(q), Len(news))
             got == SubSeq(news, 1, n)
             all == q \o got
  <1>1. Room(q) \in Nat /\ n \in 0..Len(news) /\ (n = Room(q) \/ n = Len(news))
    <2>1. Room(q) \in Nat
      BY MonitorAssumption DEF Room, Lesser
    <2> QED BY <2>1 DEF Lesser
  <1>2. Refused(q, news) = {news[k] : k \in (Room(q) + 1)..Len(news)}
    BY DEF Refused
  <1>3. AcceptAll(q, news) = all
    BY DEF AcceptAll
  <1> HIDE DEF n
  <1>4. got \in Seq(Sig) /\ Len(got) = n /\ \A k \in 1..n : got[k] = news[k]
    BY <1>1
  <1> HIDE DEF got
  <1>5. /\ DOMAIN all = 1..(Len(q) + n) /\ DOMAIN q = 1..Len(q) /\ Len(q) \in Nat
        /\ \A k \in 1..Len(q) : all[k] = q[k]
        /\ \A k \in 1..n : all[Len(q) + k] = got[k]
    BY <1>1, <1>4
  <1> HIDE DEF all
  <1>6. Range(q) \subseteq Range(all)
    BY <1>1, <1>5 DEF Range
  <1>7. ASSUME NEW x \in Range(news) PROVE x \in Range(all) \cup Refused(q, news)
    <2>1. PICK k \in 1..Len(news) : news[k] = x
      BY DEF Range
    <2>2. CASE k <= n
      <3>1. all[Len(q) + k] = x /\ Len(q) + k \in DOMAIN all
        BY <1>1, <1>4, <1>5, <2>1, <2>2
      <3> QED BY <3>1 DEF Range
    <2>3. CASE ~(k <= n)
      <3>1. k \in (Room(q) + 1)..Len(news)
        BY <1>1, <2>3
      <3> QED BY <1>2, <2>1, <3>1
    <2> QED BY <2>2, <2>3
  <1> QED BY <1>3, <1>6, <1>7

\* A run of enqueue() calls deals with every signature it is given.
LEMMA EnqueueHandles ==
  ASSUME DrainPart, NEW news \in Seq(Sig), EnqueueAll(news), skipped \subseteq skipped'
  PROVE  Grows /\ \A x \in Range(news) : Handled(x)'
  <1>0. Range(news) \subseteq Sig /\ Range(queue) \subseteq Sig
    BY DEF Range, DrainPart
  <1>1. CASE /\ queue' = AcceptAll(queue, news)
             /\ dropped' = dropped \cup Refused(queue, news)
             /\ UNCHANGED <<processed, evicted>>
    <2>1. /\ Range(queue) \subseteq Range(queue')
          /\ Range(news) \subseteq Range(queue') \cup dropped'
      BY <1>1, AcceptOrRefuse DEF DrainPart
    <2>2. \A x : Residencies(x)' = Residencies(x)
      BY <1>1 DEF Residencies, Seen
    <2> QED BY <1>1, <2>1, <2>2 DEF Grows, Handled
  <1>2. CASE /\ news # <<>>
             /\ LET q == Append(queue, news[1])
                IN /\ Process(q[1], AcceptAll(Tail(q), Tail(news)))
                   /\ dropped' = dropped \cup Refused(Tail(q), Tail(news))
    <2>1. PICK q, s : /\ q = Append(queue, news[1]) /\ s = q[1]
                      /\ Process(s, AcceptAll(Tail(q), Tail(news)))
                      /\ dropped' = dropped \cup Refused(Tail(q), Tail(news))
      BY <1>2
    <2>2. /\ Len(news) > 0 /\ Len(news) \in Nat /\ news[1] \in Sig /\ Tail(news) \in Seq(Sig)
          /\ DOMAIN news = 1..Len(news) /\ DOMAIN Tail(news) = 1..(Len(news) - 1)
          /\ \A k \in 1..(Len(news) - 1) : Tail(news)[k] = news[k + 1]
      BY <1>2
    <2>3. /\ q \in Seq(Sig) /\ Len(q) = Len(queue) + 1 /\ Len(queue) \in Nat
          /\ \A k \in 1..Len(queue) : q[k] = queue[k]
          /\ q[Len(queue) + 1] = news[1] /\ DOMAIN queue = 1..Len(queue)
      BY <2>1, <2>2 DEF DrainPart
    <2>4. /\ s \in Sig /\ Tail(q) \in Seq(Sig) /\ DOMAIN Tail(q) = 1..Len(queue)
          /\ \A k \in 1..Len(queue) : Tail(q)[k] = q[k + 1]
      BY <2>1, <2>3
    <2>5. \A k \in 1..Len(q) : q[k] = s \/ q[k] \in Range(Tail(q))
      <3>1. TAKE k \in 1..Len(q)
      <3>2. CASE k # 1
        <4>1. k - 1 \in 1..Len(queue) /\ Tail(q)[k - 1] = q[k]
          BY <2>3, <2>4, <3>2
        <4> QED BY <2>4, <4>1 DEF Range
      <3> QED BY <2>1, <3>2
    <2>6. Range(queue) \subseteq {s} \cup Range(Tail(q)) /\ news[1] \in {s} \cup Range(Tail(q))
      <3>1. Len(queue) + 1 \in 1..Len(q) /\ \A k \in 1..Len(queue) : k \in 1..Len(q)
        BY <2>3
      <3> QED BY <2>3, <2>5, <3>1 DEF Range
    <2>7. Range(news) \subseteq {news[1]} \cup Range(Tail(news))
      <3>1. ASSUME NEW k \in 1..Len(news), k # 1 PROVE news[k] \in Range(Tail(news))
        <4>1. k - 1 \in 1..(Len(news) - 1) /\ Tail(news)[k - 1] = news[k]
          BY <2>2, <3>1
        <4> QED BY <2>2, <4>1 DEF Range
      <3> QED BY <2>2, <3>1 DEF Range
    <2>8. AcceptAll(Tail(q), Tail(news)) \in Seq(Sig)
      BY <2>2, <2>4, AcceptAllType
    <2>9. /\ queue' = AcceptAll(Tail(q), Tail(news)) /\ Residencies(s)' > 0
          /\ \A x \in Sig : Residencies(x) > 0 => Residencies(x)' > 0
      BY <2>1, <2>4, <2>8, ProcessHandles DEF DrainPart
    <2>10. /\ Range(Tail(q)) \subseteq Range(queue')
           /\ Range(Tail(news)) \subseteq Range(queue') \cup dropped'
      BY <2>1, <2>2, <2>4, <2>9, AcceptOrRefuse
    <2>12. \A x \in {s} \cup Range(Tail(q)) : Handled(x)'
      BY <2>9, <2>10 DEF Handled
    <2>13. Grows
      BY <1>0, <2>1, <2>6, <2>9, <2>12 DEF Grows, Handled
    <2>14. \A x \in Range(Tail(news)) : Handled(x)'
      BY <2>10 DEF Handled
    <2> QED BY <2>6, <2>7, <2>12, <2>13, <2>14
  <1> QED BY <1>1, <1>2 DEF EnqueueAll

\* What was dealt with stays dealt with, on the same histories.
LEMMA KnownStays ==
  ASSUME FeedPart, Grows, UNCHANGED chain
  PROVE  /\ \A p \in Program : \A k \in 1..Len(chain[p]) :
                Handled(chain[p][k]) => Handled(chain[p][k])'
         /\ \A p, c, k : After(p, c, k)' <=> After(p, c, k)
         /\ \A p, c : Known(p, c)' <=> Known(p, c)
         /\ \A state \in Activation : AskKnown(state) => AskKnown(state)'
         /\ \A state \in Activation : PageKnown(state) => PageKnown(state)'
  <1>1. \A p \in Program : \A k \in 1..Len(chain[p]) : chain[p][k] \in Sig
    BY DEF FeedPart
  <1>2. \A p \in Program : \A k \in 1..Len(chain[p]) :
            Handled(chain[p][k]) => Handled(chain[p][k])'
    <2>1. \A s \in Sig : Handled(s) => Handled(s)'
      BY DEF Grows
    <2>2. \A p : \A k : \A s : s = chain[p][k] => (Handled(chain[p][k])' <=> Handled(s)')
      BY DEF Handled, Residencies, Seen
    <2> QED BY <1>1, <2>1, <2>2
  <1>3. \A p, c, k : After(p, c, k)' <=> After(p, c, k)
    BY DEF After
  <1>4. \A p, c : Known(p, c)' <=> Known(p, c)
    BY DEF Known
  <1>5. ASSUME NEW state \in Activation, AskKnown(state) PROVE AskKnown(state)'
    <2>1. state.prog \in Program
      BY DEF Activation
    <2> QED BY <1>2, <1>3, <1>4, <1>5, <2>1 DEF AskKnown
  <1>6. ASSUME NEW state \in Activation, PageKnown(state) PROVE PageKnown(state)'
    <2>1. state.prog \in Program
      BY DEF Activation
    <2> QED BY <1>2, <1>3, <1>4, <1>6, <2>1 DEF PageKnown
  <1> QED BY <1>2, <1>3, <1>4, <1>5, <1>6

\* A step that moves at most one activation, to a known state.
LEMMA PollMoves ==
  ASSUME FeedPart, CInv, Grows, UNCHANGED <<chain, lastSig>>,
         NEW i \in Poller, NEW state \in Activation, AskKnown(state), PageKnown(state),
         poll' = [poll EXCEPT ![i] = state] \/ UNCHANGED poll
  PROVE  CInv'
  <1>1. ChainInv' /\ LastInv'
    BY KnownStays DEF CInv, ChainInv, LastInv
  <1>2. Covered'
    BY KnownStays DEF CInv, Covered
  <1>3. PollsInv'
    <2>1. \A j \in Poller : poll[j] \in Activation
      BY DEF FeedPart
    <2>2. \A j \in Poller : poll'[j] = state \/ poll'[j] = poll[j]
      BY DEF FeedPart
    <2> QED BY <2>1, <2>2, KnownStays DEF CInv, PollsInv
  <1> QED BY <1>1, <1>2, <1>3 DEF CInv

\* The states without a request or a page are known, and so is one that asks with
\* the cursor.
LEMMA StatesKnown ==
  ASSUME FeedPart, CInv, NEW p \in Program
  PROVE  /\ AskKnown(At("asked", p, lastSig[p])) /\ PageKnown(At("asked", p, lastSig[p]))
         /\ AskKnown(At("pause", p, NoSig)) /\ PageKnown(At("pause", p, NoSig))
         /\ AskKnown(Idle) /\ PageKnown(Idle)
  BY DEF AskKnown, PageKnown, At, Idle, CInv, LastInv, Covered

\* Nothing changes of what was dealt with.
LEMMA GrowsStutter == UNCHANGED <<queue, processed, evicted, dropped, skipped>> => Grows
  BY DEF Grows, Handled, Residencies, Seen

\* The node returns exactly what came after the signature asked with, and what is
\* not on the page is cut off.
LEMMA AnswerKnown ==
  ASSUME FeedPart, CInv, NEW p \in Program, NEW c, Known(p, c), NEW new, new = Newer(p, c)
  PROVE  /\ new \in Seq(Sig) /\ Range(new) \subseteq Range(chain[p])
         /\ PageOf(new) # <<>> => PageOf(new)[1] \in Range(new)
         /\ \A k \in 1..Len(chain[p]) : After(p, c, k) => chain[p][k] \in Range(new)
  <1>0. PICK h : h = chain[p]
    OBVIOUS
  <1>1. h \in Seq(Sig) /\ Len(h) \in Nat /\ DOMAIN h = 1..Len(h)
    BY <1>0 DEF FeedPart
  <1>2. \A i, k \in 1..Len(h) : h[i] = h[k] => i = k
    BY <1>0, <1>1 DEF CInv, ChainInv, IsInjective
  <1>3. PICK from : /\ from \in 0..Len(h) /\ new = SubSeq(h, from + 1, Len(h))
                    /\ c = NoSig => from = 0
                    /\ c # NoSig => from \in 1..Len(h) /\ h[from] = c
    <2>1. CASE c = NoSig
      <3>1. c \notin Range(h)
        BY <1>1, <2>1, MonitorAssumption DEF Range
      <3> QED BY <1>0, <1>1, <2>1, <3>1 DEF Newer
    <2>2. CASE c # NoSig
      <3>1. c \in Range(h)
        BY <1>0, <2>2 DEF Known
      <3>2. \E k \in 1..Len(h) : h[k] = c
        BY <1>1, <3>1 DEF Range
      <3>3. PICK from : from = CHOOSE k \in 1..Len(h) : h[k] = c
        OBVIOUS
      <3>4. from \in 1..Len(h) /\ h[from] = c
        BY <3>2, <3>3
      <3>5. new = SubSeq(h, from + 1, Len(h))
        BY <1>0, <3>1, <3>3 DEF Newer
      <3>6. from \in 0..Len(h)
        BY <1>1, <3>4
      <3> QED BY <2>2, <3>4, <3>5, <3>6
    <2> QED BY <2>1, <2>2
  <1>a. from \in Nat /\ from <= Len(h) /\ new = SubSeq(h, from + 1, Len(h))
    BY <1>1, <1>3
  <1>4. /\ new \in Seq(Sig) /\ Len(new) = Len(h) - from /\ DOMAIN new = 1..Len(new)
        /\ \A k \in 1..Len(new) : new[k] = h[from + k]
    BY <1>1, <1>a
  <1>b. from \in Nat /\ from <= Len(h) /\ Len(h) \in Nat /\ Len(new) = Len(h) - from
    BY <1>1, <1>a, <1>4
  <1>5. Range(new) \subseteq Range(h)
    <2>1. \A k \in 1..Len(new) : from + k \in 1..Len(h)
      BY <1>b
    <2> QED BY <1>1, <1>4, <2>1 DEF Range
  <1>6. PageOf(new) # <<>> => PageOf(new)[1] \in Range(new)
    <2>1. Lesser(Len(new), POLL_LIMIT) \in 0..Len(new)
      BY <1>4, MonitorAssumption DEF Lesser
    <2>2. CASE Lesser(Len(new), POLL_LIMIT) = 0
      BY <2>2 DEF PageOf
    <2>3. CASE Lesser(Len(new), POLL_LIMIT) # 0
      <3>1. Len(new) \in Nat /\ Len(new) > 0 /\ 1 \in 1..Lesser(Len(new), POLL_LIMIT)
        BY <1>4, <2>1, <2>3, MonitorAssumption DEF Lesser
      <3>2. PageOf(new)[1] = new[Len(new) - 1 + 1]
        BY <3>1 DEF PageOf
      <3>3. Len(new) - 1 + 1 \in DOMAIN new
        BY <1>4, <3>1
      <3> QED BY <3>2, <3>3 DEF Range
    <2> QED BY <2>2, <2>3
  <1>7. ASSUME NEW k \in 1..Len(h), After(p, c, k) PROVE h[k] \in Range(new)
    <2>1. k > from
      <3>1. CASE c = NoSig
        BY <1>1, <1>3, <3>1
      <3>2. CASE c # NoSig
        <4>1. PICK i \in 1..(k - 1) : h[i] = c
          BY <1>0, <1>7, <3>2 DEF After
        <4>2. i \in 1..Len(h)
          BY <1>1, <4>1
        <4>3. i = from
          BY <1>2, <1>3, <3>2, <4>1, <4>2
        <4> QED BY <1>1, <4>1, <4>3
      <3> QED BY <3>1, <3>2
    <2>2. k - from \in 1..Len(new) /\ from + (k - from) = k
      BY <1>b, <2>1
    <2>3. new[k - from] = h[k]
      BY <1>4, <2>2
    <2> QED BY <1>4, <2>2, <2>3 DEF Range
  <1> QED BY <1>0, <1>4, <1>5, <1>6, <1>7

\* The answer of the node is a known page.
LEMMA AnswerKeepsCursor ==
  ASSUME FeedPart, CInv, NEW i \in Poller, Answer(i)
  PROVE  CInv'
  <1>1. PICK p, c, new, page, state :
          /\ p = poll[i].prog /\ c = poll[i].until /\ new = Newer(p, c) /\ page = PageOf(new)
          /\ state = [poll[i] EXCEPT !.at = "answered", !.page = page,
                                     !.cut = Range(new) \ Range(page)]
    OBVIOUS
  <1>2. poll[i] \in Activation /\ p \in Program /\ poll[i].at = "asked"
    BY <1>1 DEF FeedPart, Activation, Answer
  <1>3. /\ Known(p, c)
        /\ \A k \in 1..Len(chain[p]) : After(p, c, k) \/ Handled(chain[p][k])
    BY <1>1, <1>2 DEF CInv, PollsInv, AskKnown
  <1>4. /\ state.at = "answered" /\ state.prog = p /\ state.page = page
        /\ state.cut = Range(new) \ Range(page)
    BY <1>1, <1>2 DEF Activation
  <1>5. /\ new \in Seq(Sig) /\ Range(new) \subseteq Range(chain[p])
        /\ page # <<>> => page[1] \in Range(new)
        /\ \A k \in 1..Len(chain[p]) : After(p, c, k) => chain[p][k] \in Range(new)
    BY <1>1, <1>2, <1>3, AnswerKnown
  <1>6. AskKnown(state) /\ PageKnown(state)
    BY <1>3, <1>4, <1>5 DEF AskKnown, PageKnown, Known
  <1>7. state \in Activation
    <2>1. page \in Seq(Sig) /\ Range(new) \subseteq Sig
      BY <1>1, <1>2, PageType
    <2> QED BY <1>1, <1>2, <2>1 DEF Activation
  <1>8. poll' = [poll EXCEPT ![i] = state]
    BY <1>1, <1>2 DEF Answer, FeedPart
  <1>9. UNCHANGED <<chain, lastSig>> /\ Grows
    BY GrowsStutter DEF Answer, drainVars
  <1> QED BY <1>6, <1>7, <1>8, <1>9, PollMoves

\* pollProgram() moves the cursor and deals with the whole page.
LEMMA ContinueKeepsCursor ==
  ASSUME FeedPart, DrainPart, CInv, NEW i \in Poller, PollContinue(i)
  PROVE  CInv'
  <1>1. PICK p, page, cut, state :
          /\ p = poll[i].prog /\ page = poll[i].page /\ cut = poll[i].cut
          /\ state = At("pause", p, NoSig)
    OBVIOUS
  <1>2. poll[i] \in Activation /\ p \in Program /\ page \in Seq(Sig) /\ poll[i].at = "answered"
    BY <1>1 DEF FeedPart, Activation, PollContinue
  <1>3. /\ poll' = [poll EXCEPT ![i] = state] /\ UNCHANGED chain
        /\ state \in Activation /\ AskKnown(state) /\ PageKnown(state)
    BY <1>1, <1>2, AtType, StatesKnown DEF PollContinue
  <1>4. CASE page = <<>>
    <2>1. UNCHANGED lastSig /\ Grows
      BY <1>1, <1>4, GrowsStutter DEF PollContinue, drainVars
    <2> QED BY <1>3, <2>1, PollMoves
  <1>5. CASE page # <<>>
    <2>1. PICK n \in 0..Len(page) : \E news \in [1..n -> Range(page)] :
             IsFresh(news, page) /\ EnqueueAll(news)
      BY <1>1, <1>5 DEF PollContinue
    <2>0. PICK news \in [1..n -> Range(page)] : IsFresh(news, page) /\ EnqueueAll(news)
      BY <2>1
    <2>2. /\ lastSig' = [lastSig EXCEPT ![p] = page[1]]
          /\ skipped' = skipped \cup cut
      BY <1>1, <1>5 DEF PollContinue
    <2>3. news \in Seq(Sig) /\ DOMAIN news = 1..n
      <3>1. Range(page) \subseteq Sig
        BY <1>2 DEF Range
      <3>2. n \in Nat
        BY <1>2
      <3> QED BY <2>0, <3>1, <3>2
    <2>4. Grows /\ \A x \in Range(news) : Handled(x)'
      BY <2>0, <2>2, <2>3, EnqueueHandles
    <2>5. ASSUME NEW x \in Range(page) PROVE Handled(x)'
      <3>1. PICK j \in DOMAIN page : page[j] = x
        BY DEF Range
      <3>2. x \in Sig
        BY <1>2, <3>1
      <3>3. CASE Wanted(x)
        <4>1. PICK at : /\ {k \in DOMAIN page : Wanted(page[k])} = Range(at)
                        /\ DOMAIN at = DOMAIN news
                        /\ \A k \in DOMAIN news : news[k] = page[at[k]]
          BY <2>0 DEF IsFresh, Lists
        <4>2. PICK k \in DOMAIN news : at[k] = j
          BY <3>1, <3>3, <4>1 DEF Range
        <4> QED BY <2>4, <3>1, <4>1, <4>2 DEF Range
      <3>4. CASE ~Wanted(x)
        <4>1. evicted[x] \in Nat
          BY <3>2 DEF DrainPart, CacheOK
        <4>2. Handled(x)
          BY <3>4, <4>1 DEF Wanted, Handled, Residencies
        <4> QED BY <2>4, <3>2, <4>2 DEF Grows
      <3> QED BY <3>3, <3>4
    <2>6. /\ Known(p, page[1])
          /\ \A k \in 1..Len(chain[p]) :
                 \/ After(p, page[1], k) \/ Handled(chain[p][k])
                 \/ chain[p][k] \in Range(page) \cup cut
      BY <1>1, <1>2, <1>5 DEF CInv, PollsInv, PageKnown
    <2>7. lastSig'[p] = page[1] /\ \A q \in Program \ {p} : lastSig'[q] = lastSig[q]
      BY <1>2, <2>2 DEF FeedPart
    <2>8. ChainInv' /\ LastInv'
      BY <1>3, <2>4, <2>6, <2>7, KnownStays DEF CInv, ChainInv, LastInv
    <2>9. ASSUME NEW q \in Program, NEW k \in 1..Len(chain[q]), NEW s, s = chain[q][k]
          PROVE  After(q, lastSig'[q], k) \/ Handled(s)'
      <3>1. s \in Sig
        BY <2>9 DEF FeedPart
      <3>2. Handled(s) => Handled(s)'
        BY <2>4, <3>1 DEF Grows
      <3>3. CASE q = p
        <4>1. s \in cut => Handled(s)'
          BY <2>2 DEF Handled
        <4> QED BY <2>5, <2>6, <2>7, <2>9, <3>2, <3>3, <4>1
      <3>4. CASE q # p
        BY <2>7, <2>9, <3>2, <3>4 DEF CInv, Covered
      <3> QED BY <3>3, <3>4
    <2>10. Covered'
      <3>1. \A q \in Program : \A k \in 1..Len(chain[q]) : \A s : s = chain[q][k] =>
                After(q, lastSig'[q], k) \/ Handled(s)'
        BY <2>9
      <3> QED BY <1>3, <3>1 DEF Covered, After, Handled, Residencies, Seen
    <2>11. PollsInv'
      <3>1. \A j \in Poller : poll[j] \in Activation
        BY DEF FeedPart
      <3>2. \A j \in Poller : poll'[j] = state \/ poll'[j] = poll[j]
        BY <1>3 DEF FeedPart
      <3> QED BY <1>3, <2>4, <3>1, <3>2, KnownStays DEF CInv, PollsInv
    <2> QED BY <2>8, <2>10, <2>11 DEF CInv
  <1> QED BY <1>4, <1>5

\* A confirmed transaction is behind every cursor and outside every old page.
LEMMA ConfirmKeepsCursor ==
  ASSUME FeedPart, CInv, NEW s \in Sig, Confirm(s)
  PROVE  CInv'
  <1>1. /\ UNCHANGED <<poll, lastSig>>
        /\ UNCHANGED <<queue, processed, evicted, dropped, skipped>>
    BY DEF Confirm, drainVars
  <1>2. ASSUME NEW p \in Program
        PROVE  /\ 1..Len(chain[p]) \subseteq 1..Len(chain'[p])
               /\ \A k \in 1..Len(chain[p]) : chain'[p][k] = chain[p][k]
               /\ Range(chain[p]) \subseteq Range(chain'[p])
               /\ IsInjective(chain'[p])
               /\ \A k \in 1..Len(chain'[p]) : k \notin 1..Len(chain[p]) =>
                      \A c \in Range(chain[p]) : \E i \in 1..(k - 1) : chain'[p][i] = c
    <2>1. PICK h, new : /\ h = chain[p] /\ new = chain'[p]
                        /\ h \in Seq(Sig) /\ IsInjective(h) /\ s \notin Range(h)
                        /\ new = IF s \in Touches[p] THEN Append(h, s) ELSE h
      BY DEF FeedPart, CInv, ChainInv, Confirm
    <2>2. CASE s \in Touches[p]
      <3>1. /\ DOMAIN new = 1..(Len(h) + 1) /\ DOMAIN h = 1..Len(h) /\ Len(h) \in Nat
            /\ Len(new) = Len(h) + 1
            /\ \A k \in 1..Len(h) : new[k] = h[k]
            /\ new[Len(h) + 1] = s
        BY <2>1, <2>2
      <3>2. IsInjective(new)
        BY <2>1, <3>1 DEF IsInjective, Range
      <3>3. ASSUME NEW k \in 1..Len(new), k \notin 1..Len(h), NEW c \in Range(h)
            PROVE  \E i \in 1..(k - 1) : new[i] = c
        <4>1. PICK i \in 1..Len(h) : h[i] = c
          BY <3>1 DEF Range
        <4>2. k = Len(h) + 1
          BY <3>1, <3>3
        <4> QED BY <3>1, <4>1, <4>2
      <3>4. Range(h) \subseteq Range(new)
        BY <3>1 DEF Range
      <3>5. 1..Len(h) \subseteq 1..Len(new)
        BY <3>1
      <3> QED BY <2>1, <3>1, <3>2, <3>3, <3>4, <3>5
    <2>3. CASE s \notin Touches[p]
      BY <2>1, <2>3
    <2> QED BY <2>2, <2>3
  <1>3. ASSUME NEW p \in Program, NEW c
        PROVE  /\ Known(p, c) => Known(p, c)'
               /\ \A k \in 1..Len(chain[p]) : After(p, c, k) => After(p, c, k)'
               /\ \A k \in 1..Len(chain'[p]) :
                      k \notin 1..Len(chain[p]) /\ Known(p, c) => After(p, c, k)'
    <2>1. Known(p, c) => Known(p, c)'
      BY <1>2 DEF Known
    <2>2. ASSUME NEW k \in 1..Len(chain[p]), After(p, c, k) PROVE After(p, c, k)'
      <3>1. CASE c = NoSig
        BY <3>1 DEF After
      <3>2. CASE c # NoSig
        <4>1. PICK i \in 1..(k - 1) : chain[p][i] = c
          BY <2>2, <3>2 DEF After
        <4>2. i \in 1..Len(chain[p])
          <5>1. Len(chain[p]) \in Nat
            BY DEF FeedPart
          <5> QED BY <4>1, <5>1
        <4> QED BY <1>2, <4>1, <4>2 DEF After
      <3> QED BY <3>1, <3>2
    <2>3. ASSUME NEW k \in 1..Len(chain'[p]), k \notin 1..Len(chain[p]), Known(p, c)
          PROVE  After(p, c, k)'
      BY <1>2, <2>3 DEF After, Known
    <2> QED BY <2>1, <2>2, <2>3
  <1>4. \A x : Handled(x)' <=> Handled(x)
    BY <1>1 DEF Handled, Residencies, Seen
  <1>5. ChainInv' /\ LastInv'
    BY <1>1, <1>2, <1>3 DEF CInv, ChainInv, LastInv
  <1>6. ASSUME NEW p \in Program, NEW c, Known(p, c), NEW Extra,
               \A k \in 1..Len(chain[p]) :
                   After(p, c, k) \/ Handled(chain[p][k]) \/ chain[p][k] \in Extra
        PROVE  /\ Known(p, c)'
               /\ \A k \in 1..Len(chain'[p]) : \A x : x = chain'[p][k] =>
                      After(p, c, k)' \/ Handled(x)' \/ x \in Extra
    <2>1. ASSUME NEW k \in 1..Len(chain'[p]), NEW x, x = chain'[p][k]
          PROVE  After(p, c, k)' \/ Handled(x)' \/ x \in Extra
      <3>1. CASE k \in 1..Len(chain[p])
        BY <1>2, <1>3, <1>4, <1>6, <2>1, <3>1
      <3>2. CASE k \notin 1..Len(chain[p])
        BY <1>3, <1>6, <3>2
      <3> QED BY <3>1, <3>2
    <2> QED BY <1>3, <1>6, <2>1
  <1>7. Covered'
    <2>1. ASSUME NEW p \in Program, NEW c, c = lastSig[p]
          PROVE  \A k \in 1..Len(chain'[p]) : \A x : x = chain'[p][k] =>
                     After(p, c, k)' \/ Handled(x)'
      <3>0. PICK Extra : Extra = {}
        OBVIOUS
      <3>1. /\ Known(p, c)
            /\ \A k \in 1..Len(chain[p]) :
                   After(p, c, k) \/ Handled(chain[p][k]) \/ chain[p][k] \in Extra
        BY <2>1 DEF CInv, LastInv, Covered
      <3>2. \A k \in 1..Len(chain'[p]) : \A x : x = chain'[p][k] =>
                After(p, c, k)' \/ Handled(x)' \/ x \in Extra
        BY <1>6, <3>1
      <3> QED BY <3>0, <3>2
    <2>2. \A p \in Program : \A c : c = lastSig[p] =>
              \A k \in 1..Len(chain'[p]) : \A x : x = chain'[p][k] =>
                  After(p, c, k)' \/ Handled(x)'
      BY <2>1
    <2> QED BY <1>1, <2>2 DEF Covered, After, Handled, Residencies, Seen
  <1>8. ASSUME NEW i \in Poller, NEW state, state = poll[i]
        PROVE  AskKnown(state)' /\ PageKnown(state)'
    <2>1. state \in Activation /\ state.prog \in Program
      BY <1>8 DEF FeedPart, Activation
    <2>2. PICK p, c, d, page, cut :
             /\ p \in Program /\ p = state.prog /\ c = state.until /\ page = state.page
             /\ d = page[1]
             /\ cut = state.cut
      BY <2>1
    <2>3. ASSUME state.at = "asked"
          PROVE  /\ Known(p, c)'
                 /\ \A k \in 1..Len(chain'[p]) : \A x : x = chain'[p][k] =>
                        After(p, c, k)' \/ Handled(x)'
      <3>0. PICK Extra : Extra = {}
        OBVIOUS
      <3>1. /\ Known(p, c)
            /\ \A k \in 1..Len(chain[p]) :
                   After(p, c, k) \/ Handled(chain[p][k]) \/ chain[p][k] \in Extra
        BY <1>8, <2>2, <2>3 DEF CInv, PollsInv, AskKnown
      <3>2. /\ Known(p, c)'
            /\ \A k \in 1..Len(chain'[p]) : \A x : x = chain'[p][k] =>
                   After(p, c, k)' \/ Handled(x)' \/ x \in Extra
        BY <1>6, <2>2, <3>1
      <3> QED BY <3>0, <3>2
    <2>4. ASSUME state.at = "answered", page # <<>>
          PROVE  /\ Known(p, d)'
                 /\ \A k \in 1..Len(chain'[p]) : \A x : x = chain'[p][k] =>
                        After(p, d, k)' \/ Handled(x)' \/ x \in Range(page) \cup cut
      <3>1. /\ Known(p, d)
            /\ \A k \in 1..Len(chain[p]) :
                   \/ After(p, d, k) \/ Handled(chain[p][k])
                   \/ chain[p][k] \in Range(page) \cup cut
        BY <1>8, <2>2, <2>4 DEF CInv, PollsInv, PageKnown
      <3> QED BY <1>6, <2>2, <3>1
    <2>5. AskKnown(state)'
      BY <2>2, <2>3 DEF AskKnown, Known, After, Handled, Residencies, Seen
    <2>6. PageKnown(state)'
      BY <2>2, <2>4 DEF PageKnown, Known, After, Handled, Residencies, Seen
    <2> QED BY <2>5, <2>6
  <1>9. PollsInv'
    <2>1. \A i \in Poller : \A state : state = poll[i] => AskKnown(state)' /\ PageKnown(state)'
      BY <1>8
    <2> QED BY <1>1, <2>1 DEF PollsInv, AskKnown, PageKnown, Known, After, Handled,
                              Residencies, Seen
  <1> QED BY <1>5, <1>7, <1>9 DEF CInv

\* Every step keeps what the cursors need.
LEMMA StepKeepsCursor == IInv /\ CInv /\ [Next]_vars => CInv'
  <1> SUFFICES ASSUME FeedPart, DrainPart, CInv, [Next]_vars PROVE CInv'
    BY Split
  <1>1. Idle \in Activation /\ 1 \in Program
    BY IdleType, MonitorAssumption DEF Program
  <1>2. AskKnown(Idle) /\ PageKnown(Idle)
    BY <1>1, StatesKnown
  <1>3. ASSUME UNCHANGED <<chain, lastSig, poll>>, Grows PROVE CInv'
    <2>1. CASE Poller = {}
      BY <1>3, <2>1, KnownStays DEF CInv, ChainInv, LastInv, Covered, PollsInv
    <2>2. CASE Poller # {}
      BY <1>1, <1>2, <1>3, <2>2, PollMoves
    <2> QED BY <2>1, <2>2
  <1>4. CASE Start \/ Stop \/ \E found \in BOOLEAN : Fetched(found)
    <2>1. /\ UNCHANGED <<chain, lastSig, poll>>
          /\ UNCHANGED <<queue, processed, evicted, dropped, skipped>>
      BY <1>4 DEF Start, Stop, Fetched, feedVars, drainVars
    <2> QED BY <1>3, <2>1, GrowsStutter
  <1>5. CASE Take
    <2>1. PICK s, rest : /\ s = queue[1] /\ rest = Tail(queue) /\ Process(s, rest)
                         /\ UNCHANGED <<chain, lastSig, poll, dropped, skipped>>
      BY <1>5 DEF Take, feedVars
    <2>2. /\ s \in Sig /\ rest \in Seq(Sig) /\ Len(queue) \in Nat /\ DOMAIN queue = 1..Len(queue)
          /\ DOMAIN rest = 1..(Len(queue) - 1)
          /\ \A k \in 1..(Len(queue) - 1) : rest[k] = queue[k + 1]
      BY <1>5, <2>1 DEF Take, DrainPart, DrainInv
    <2>3. Range(queue) \subseteq {s} \cup Range(rest)
      <3>1. ASSUME NEW k \in 1..Len(queue), k # 1 PROVE queue[k] \in Range(rest)
        <4>1. k - 1 \in 1..(Len(queue) - 1) /\ rest[k - 1] = queue[k]
          BY <2>2, <3>1
        <4> QED BY <2>2, <4>1 DEF Range
      <3> QED BY <2>1, <2>2, <3>1 DEF Range
    <2>4. /\ queue' = rest /\ Residencies(s)' > 0
          /\ \A x \in Sig : Residencies(x) > 0 => Residencies(x)' > 0
      BY <2>1, <2>2, ProcessHandles DEF DrainPart
    <2>5. Grows
      BY <2>1, <2>3, <2>4 DEF Grows, Handled
    <2> QED BY <1>3, <2>1, <2>5
  <1>6. CASE \E s \in Sig : Confirm(s)
    BY <1>6, ConfirmKeepsCursor
  <1>7. ASSUME NEW p \in Program, NEW s \in Sig, WsLogs(p, s) PROVE CInv'
    <2>1. UNCHANGED <<chain, lastSig, poll, skipped>>
      BY <1>7 DEF WsLogs
    <2>2. CASE UNCHANGED drainVars
      BY <1>3, <2>1, <2>2, GrowsStutter DEF drainVars
    <2>3. CASE EnqueueAll(<<s>>)
      <3>1. <<s>> \in Seq(Sig)
        OBVIOUS
      <3> QED BY <1>3, <2>1, <2>3, <3>1, EnqueueHandles
    <2> QED BY <1>7, <2>2, <2>3 DEF WsLogs
  <1>8. ASSUME NEW i \in Poller, NEW p \in Program, Ask(i, p) PROVE CInv'
    <2>1. PICK state : state = At("asked", p, lastSig[p])
      OBVIOUS
    <2>2. /\ poll' = [poll EXCEPT ![i] = state] /\ UNCHANGED <<chain, lastSig>>
          /\ UNCHANGED <<queue, processed, evicted, dropped, skipped>>
      BY <1>8, <2>1 DEF Ask, drainVars
    <2>3. state \in Activation /\ AskKnown(state) /\ PageKnown(state)
      <3>1. lastSig[p] \in Sig \cup {NoSig}
        BY DEF FeedPart
      <3> QED BY <2>1, <3>1, AtType, StatesKnown
    <2> QED BY <2>2, <2>3, GrowsStutter, PollMoves
  <1>9. ASSUME NEW i \in Poller, NEW state \in Activation, AskKnown(state), PageKnown(state),
               poll' = [poll EXCEPT ![i] = state], UNCHANGED <<chain, lastSig, drainVars, skipped>>
        PROVE  CInv'
    <2>1. Grows
      BY <1>9, GrowsStutter DEF drainVars
    <2> QED BY <1>9, <2>1, PollMoves
  <1>10. ASSUME NEW i \in Poller,
                PollStart(i) \/ PollNext(i) \/ PollEnd(i) \/ PollError(i)
         PROVE  CInv'
    <2>1. poll[i].prog \in Program
      BY DEF FeedPart, Activation
    <2>2. CASE PollStart(i)
      BY <1>1, <1>8, <2>2 DEF PollStart
    <2>3. CASE PollNext(i)
      <3>1. poll[i].prog + 1 \in Program
        BY <2>1, <2>3, MonitorAssumption DEF PollNext, Program
      <3> QED BY <1>8, <2>3, <3>1 DEF PollNext
    <2>4. CASE PollEnd(i)
      BY <1>1, <1>2, <1>9, <2>4 DEF PollEnd
    <2>5. CASE PollError(i)
      <3>1. PICK state : state = At("pause", poll[i].prog, NoSig)
        OBVIOUS
      <3>2. state \in Activation /\ AskKnown(state) /\ PageKnown(state)
        BY <2>1, <3>1, AtType, StatesKnown
      <3> QED BY <1>9, <2>5, <3>1, <3>2 DEF PollError
    <2> QED BY <1>10, <2>2, <2>3, <2>4, <2>5
  <1>11. ASSUME NEW i \in Poller, Answer(i) \/ PollContinue(i) PROVE CInv'
    BY <1>11, AnswerKeepsCursor, ContinueKeepsCursor
  <1>12. CASE UNCHANGED vars
    <2>1. /\ UNCHANGED <<chain, lastSig, poll>>
          /\ UNCHANGED <<queue, processed, evicted, dropped, skipped>>
      BY <1>12 DEF vars, feedVars, drainVars
    <2> QED BY <1>3, <2>1, GrowsStutter
  <1> QED BY <1>4, <1>5, <1>6, <1>7, <1>10, <1>11, <1>12 DEF Next

\* The histories are empty and the cursors unset at first.
LEMMA InitCursor == Init => CInv
  <1> SUFFICES ASSUME Init PROVE CInv
    OBVIOUS
  <1>1. /\ \A p \in Program : chain[p] = <<>> /\ lastSig[p] = NoSig
        /\ \A i \in Poller : poll[i] = Idle
    BY DEF Init
  <1>2. ChainInv /\ LastInv /\ Covered
    BY <1>1 DEF ChainInv, LastInv, Covered, Known, After, IsInjective
  <1>3. PollsInv
    BY <1>1 DEF PollsInv, AskKnown, PageKnown, Idle, At
  <1> QED BY <1>2, <1>3 DEF CInv

\* However polls overlap, fail or are answered late, the cursor of a program passes
\* no transaction without a reason.
THEOREM MonitorCursorCoverage == Spec => []CursorCoverage
  <1>1. ASSUME IInv, CInv, NEW p \in Program, NEW k \in 1..Len(chain[p])
        PROVE  \/ lastSig[p] \in Range(SubSeq(chain[p], 1, k - 1)) \cup {NoSig}
               \/ Handled(chain[p][k])
    <2>1. PICK h : h = chain[p] /\ h \in Seq(Sig)
      BY <1>1, Split DEF FeedPart
    <2>2. k \in 1..Len(h) /\ Len(h) \in Nat
      BY <2>1
    <2> DEFINE old == SubSeq(h, 1, k - 1)
    <2>3. DOMAIN old = 1..(k - 1) /\ \A i \in 1..(k - 1) : old[i] = h[i]
      BY <2>1, <2>2
    <2> HIDE DEF old
    <2>4. After(p, lastSig[p], k) => lastSig[p] = NoSig \/ lastSig[p] \in Range(old)
      BY <2>1, <2>3 DEF After, Range
    <2> QED BY <1>1, <2>1, <2>4 DEF old, CInv, Covered
  <1>2. ASSUME IInv, NEW s \in Sig, Handled(s)
        PROVE  \/ Seen(s) \/ evicted[s] > 0
               \/ s \in Failed \cup Range(queue) \cup dropped \cup skipped
    BY <1>2 DEF IInv, TypeOK, Handled, Residencies
  <1>3. ASSUME IInv, CInv PROVE CursorCoverage
    <2>1. \A p \in Program : \A k \in 1..Len(chain[p]) : chain[p][k] \in Sig
      BY <1>3, Split DEF FeedPart
    <2> QED BY <1>1, <1>2, <1>3, <2>1 DEF CursorCoverage
  <1> QED BY <1>3, InitIInv, StepKeeps, InitCursor, StepKeepsCursor, PTL DEF Spec

=============================================================================
