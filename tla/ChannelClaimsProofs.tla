-------------------------- MODULE ChannelClaimsProofs --------------------------
(***************************************************************************)
(* Proofs about ChannelClaims, for any programs, transactions, cache and   *)
(* queue sizes and any number of overlapping poll loops.  The argument for *)
(* AnnouncedPerResidency: every ticket that is waiting or running was paid *)
(* for by an insertion of its signature into processedSignatures, so that  *)
(* the credit of a signature is at least the number of its open tickets.   *)
(***************************************************************************)
EXTENDS ChannelClaims, FiniteSetTheorems, TLAPS

\* The tickets of the signature s that may still announce it.
Open(s) == {t \in 1..accepted : asked[t] = s /\ (t > started \/ t \in running)}

CreditInv == /\ credit \in [Sig -> Int]
             /\ \A s \in Sig : Cardinality(Open(s)) <= credit[s]

QueueTypes == /\ asked \in Seq(Sig) /\ Len(asked) = accepted
              /\ accepted \in Nat /\ started \in Nat
              /\ running \subseteq 1..started /\ Cardinality(running) <= MAX_CONCURRENCY
              /\ started <= accepted /\ accepted <= started + MAX_QUEUE_SIZE

CacheTypes == processed \in Seq(Sig) /\ IsInjective(processed)

WsTypes == /\ isRunning \in BOOLEAN /\ subscribed \in BOOLEAN /\ wsQuiet \in BOOLEAN
           /\ heartbeats \in 0..2 /\ tracked \in BOOLEAN /\ (tracked => heartbeats > 0)
           /\ delivered \subseteq Program \X Sig

Pages == {q \in Seq(Sig) : Len(q) <= LIMIT}
LoopState == [at : {"off", "timer", "asked", "answered", "page"}, prog : Program,
              until : Sig \cup {NoSig}, page : Pages]

FeedTypes == /\ ledger \in [Program -> Seq(Sig)]
             /\ loop \in [Loop -> LoopState]
             /\ lastSig \in [Program -> Sig \cup {NoSig}]
             /\ passedOver \subseteq Sig

IInv == WsTypes /\ FeedTypes /\ CacheTypes /\ QueueTypes /\ CreditInv

------------------------------------------------------------------------------
(* The queue *)

\* The abstract queue counts its running tasks with the same operator.
LEMMA SameCardinality == \A S : Tasks!Cardinality(S) = Cardinality(S)
  BY DEF Tasks!Cardinality, Cardinality

\* Open tickets are a finite set.
LEMMA OpenFinite ==
  ASSUME QueueTypes, NEW s
  PROVE  IsFiniteSet(Open(s)) /\ Cardinality(Open(s)) \in Nat
  <1>1. IsFiniteSet(1..accepted)
    BY FS_Interval DEF QueueTypes
  <1>2. Open(s) \in SUBSET (1..accepted)
    BY DEF Open
  <1> QED BY <1>1, <1>2, FS_Subset, FS_CardinalityType

\* A queue step that leaves the tasks `left` running and starts at most the
\* oldest waiting request keeps the types and opens or closes no other ticket.
LEMMA StartFromKeeps ==
  ASSUME QueueTypes, NEW left \in SUBSET running,
         asked' \in Seq(Sig), Len(asked') = accepted', accepted' \in Nat,
         started <= accepted', accepted' <= started + MAX_QUEUE_SIZE,
         Tasks!StartFrom(started + 1, accepted', left)
  PROVE  /\ QueueTypes'
         /\ \A t \in 1..accepted' : (t > started' \/ t \in running')
                                      <=> (t > started \/ t \in left)
  <1> USE ChannelClaimsAssumption
  <1>1. IsFiniteSet(1..started) /\ IsFiniteSet(running)
    <2>1. started \in Int /\ running \in SUBSET (1..started)
      BY DEF QueueTypes
    <2>2. IsFiniteSet(1..started)
      BY <2>1, FS_Interval
    <2> QED BY <2>1, <2>2, FS_Subset
  <1>2. IsFiniteSet(left) /\ Cardinality(left) <= Cardinality(running)
    BY <1>1, FS_Subset
  <1>3. Cardinality(left) \in Nat /\ Cardinality(running) \in Nat
    BY <1>1, <1>2, FS_CardinalityType
  <1>4. CASE started' = (started + 1) - 1 /\ running' = left
    <2>1. started' = started
      BY <1>4 DEF QueueTypes
    <2> QED BY <1>2, <1>3, <1>4, <2>1 DEF QueueTypes
  <1>5. CASE /\ started + 1 <= accepted' /\ Tasks!Cardinality(left) < MAX_CONCURRENCY
             /\ started' = started + 1 /\ running' = left \cup {started + 1}
    <2>1. Cardinality(running') <= MAX_CONCURRENCY
      <3>1. Cardinality(left) < MAX_CONCURRENCY
        BY <1>5, SameCardinality
      <3>2. Cardinality(left \cup {started + 1}) \in {Cardinality(left), Cardinality(left) + 1}
        BY <1>2, FS_AddElement
      <3> QED BY <1>3, <1>5, <3>1, <3>2
    <2>2. running' \subseteq 1..started' /\ started' \in Nat
      BY <1>5 DEF QueueTypes
    <2>3. QueueTypes'
      BY <1>5, <2>1, <2>2 DEF QueueTypes
    <2>4. \A t \in 1..accepted' : (t > started' \/ t \in running')
                                    <=> (t > started \/ t \in left)
      <3>1. TAKE t \in 1..accepted'
      <3>2. started' = started + 1 /\ started \in Nat /\ t \in Nat
        BY <1>5 DEF QueueTypes
      <3>3. t \in running' <=> (t \in left \/ t = started + 1)
        BY <1>5
      <3>4. t > started <=> (t > started' \/ t = started + 1)
        BY <3>2
      <3> QED BY <3>3, <3>4
    <2> QED BY <2>3, <2>4
  <1>6. \/ started' = (started + 1) - 1 /\ running' = left
        \/ /\ started + 1 <= accepted' /\ Tasks!Cardinality(left) < MAX_CONCURRENCY
           /\ started' = started + 1 /\ running' = left \cup {started + 1}
    BY DEF Tasks!StartFrom
  <1> QED BY <1>4, <1>5, <1>6

\* enqueue() of a signature that was just marked: the new ticket is covered.
LEMMA EnqueueKeeps ==
  ASSUME QueueTypes, CreditInv, FeedTypes, NEW s \in Sig, Mark(s), Enqueue(s)
  PROVE  QueueTypes' /\ CreditInv' /\ passedOver' \subseteq Sig
  <1> USE ChannelClaimsAssumption
  <1>1. /\ credit' \in [Sig -> Int] /\ credit'[s] = credit[s] + 1
        /\ \A x \in Sig \ {s} : credit'[x] = credit[x]
    BY DEF Mark, CreditInv
  <1>2. CASE accepted - started < MAX_QUEUE_SIZE
    <2>1. Tasks!Accept /\ asked' = Append(asked, s) /\ passedOver' = passedOver
      BY <1>2 DEF Enqueue
    <2>2. /\ accepted' = accepted + 1
          /\ Tasks!StartFrom(started + 1, accepted', running)
      BY <2>1 DEF Tasks!Accept
    <2>3. /\ asked' \in Seq(Sig) /\ Len(asked') = accepted + 1
          /\ asked'[accepted + 1] = s
          /\ \A t \in 1..accepted : asked'[t] = asked[t]
      BY <2>1 DEF QueueTypes
    <2>4. /\ QueueTypes'
          /\ \A t \in 1..accepted' : (t > started' \/ t \in running')
                                       <=> (t > started \/ t \in running)
      BY <1>2, <2>2, <2>3, StartFromKeeps DEF QueueTypes
    <2>5. Open(s)' = Open(s) \cup {accepted + 1}
      BY <2>2, <2>3, <2>4 DEF Open, QueueTypes
    <2>6. \A x \in Sig \ {s} : Open(x)' = Open(x)
      BY <2>2, <2>3, <2>4 DEF Open, QueueTypes
    <2>7. \A x \in Sig : Cardinality(Open(x)') <= credit'[x]
      <3>1. TAKE x \in Sig
      <3>2. /\ IsFiniteSet(Open(s)) /\ Cardinality(Open(s)) \in Nat
            /\ Cardinality(Open(x)) <= credit[x] /\ Cardinality(Open(s)) <= credit[s]
        BY OpenFinite DEF CreditInv
      <3> DEFINE S == Open(s)
      <3>3. Cardinality(S \cup {accepted + 1}) \in {Cardinality(S), Cardinality(S) + 1}
        <4> HIDE DEF S
        <4>1. IsFiniteSet(S)
          BY <3>2 DEF S
        <4> QED BY <4>1, FS_AddElement
      <3>4. credit[s] \in Int
        BY DEF CreditInv
      <3>5. CASE x = s
        BY <1>1, <2>5, <3>2, <3>3, <3>4, <3>5
      <3>6. CASE x # s
        BY <1>1, <2>6, <3>2, <3>6
      <3> QED BY <3>5, <3>6
    <2> QED BY <1>1, <2>1, <2>4, <2>7 DEF CreditInv, FeedTypes
  <1>3. CASE ~(accepted - started < MAX_QUEUE_SIZE)
    <2>1. UNCHANGED taskVars /\ passedOver' = passedOver \cup {s}
      BY <1>3 DEF Enqueue
    <2>2. QueueTypes' /\ \A x \in Sig : Open(x)' = Open(x)
      BY <2>1 DEF QueueTypes, taskVars, Open
    <2>3. \A x \in Sig : Cardinality(Open(x)') <= credit'[x]
      <3>1. TAKE x \in Sig
      <3>2. Cardinality(Open(x)) <= credit[x] /\ Cardinality(Open(x)) \in Nat
        BY OpenFinite DEF CreditInv
      <3>3. credit[x] \in Int
        BY DEF CreditInv
      <3> QED BY <1>1, <2>2, <3>2, <3>3
    <2> QED BY <1>1, <2>1, <2>2, <2>3 DEF CreditInv, FeedTypes
  <1> QED BY <1>2, <1>3

\* A mark without a ticket only adds credit.
LEMMA MarkKeeps ==
  ASSUME QueueTypes, CreditInv, NEW s \in Sig, Mark(s), UNCHANGED taskVars
  PROVE  QueueTypes' /\ CreditInv'
  <1>1. /\ credit' \in [Sig -> Int] /\ credit'[s] = credit[s] + 1
        /\ \A x \in Sig \ {s} : credit'[x] = credit[x]
    BY DEF Mark, CreditInv
  <1>2. QueueTypes' /\ \A x \in Sig : Open(x)' = Open(x)
    BY DEF QueueTypes, taskVars, Open
  <1>3. \A x \in Sig : Cardinality(Open(x)') <= credit'[x]
    <2>1. TAKE x \in Sig
    <2>2. Cardinality(Open(x)) <= credit[x] /\ Cardinality(Open(x)) \in Nat /\ credit[x] \in Int
      BY OpenFinite DEF CreditInv
    <2> QED BY <1>1, <1>2, <2>2
  <1> QED BY <1>1, <1>2, <1>3 DEF CreditInv

\* Neither the queue nor the credit changes.
LEMMA QueueUnchanged ==
  ASSUME QueueTypes, CreditInv, UNCHANGED <<taskVars, credit>>
  PROVE  QueueTypes' /\ CreditInv'
  <1>1. QueueTypes' /\ \A x \in Sig : Open(x)' = Open(x)
    BY DEF QueueTypes, taskVars, Open
  <1> QED BY <1>1 DEF CreditInv, taskVars

------------------------------------------------------------------------------
(* The cache and the pages *)

\* A signature is added only when it is not there yet.
LEMMA AppendKeepsCache ==
  ASSUME CacheTypes, NEW s \in Sig, s \notin Range(processed)
  PROVE  Append(processed, s) \in Seq(Sig) /\ IsInjective(Append(processed, s))
  <1> DEFINE all == Append(processed, s)
  <1>1. /\ all \in Seq(Sig) /\ Len(all) = Len(processed) + 1 /\ Len(processed) \in Nat
        /\ \A k \in 1..Len(processed) : all[k] = processed[k]
        /\ all[Len(processed) + 1] = s
        /\ DOMAIN all = 1..Len(all) /\ DOMAIN processed = 1..Len(processed)
    BY DEF CacheTypes
  <1> HIDE DEF all
  <1>2. IsInjective(all)
    BY <1>1 DEF CacheTypes, IsInjective, Range
  <1> QED BY <1>1, <1>2 DEF all

\* Trimming a cache keeps a run of its newest entries.
LEMMA TrimKeepsCache ==
  ASSUME NEW c \in Seq(Sig), IsInjective(c)
  PROVE  Trimmed(c) \in Seq(Sig) /\ IsInjective(Trimmed(c))
  <1>1. CASE Len(c) > CACHE_MAX
    <2> DEFINE from == Len(c) - KEEP
               kept == SubSeq(c, from + 1, Len(c))
    <2>1. Trimmed(c) = kept /\ from \in Nat /\ Len(c) \in Nat /\ from <= Len(c)
      BY <1>1, ChannelClaimsAssumption DEF Trimmed
    <2>2. /\ kept \in Seq(Sig) /\ DOMAIN kept = 1..(Len(c) - from)
          /\ \A k \in 1..(Len(c) - from) : kept[k] = c[from + k]
      BY <2>1
    <2>3. \A k \in 1..(Len(c) - from) : from + k \in DOMAIN c
      BY <2>1
    <2> HIDE DEF kept, from
    <2>4. ASSUME NEW a \in 1..(Len(c) - from), NEW b \in 1..(Len(c) - from), kept[a] = kept[b]
          PROVE  a = b
      <3>1. c[from + a] = c[from + b]
        BY <2>2, <2>4
      <3>2. from + a = from + b
        BY <2>3, <3>1 DEF IsInjective
      <3> QED BY <2>1, <3>2
    <2>5. IsInjective(kept)
      BY <2>2, <2>4 DEF IsInjective
    <2> QED BY <2>1, <2>2, <2>5
  <1>2. CASE ~(Len(c) > CACHE_MAX)
    BY <1>2 DEF Trimmed
  <1> QED BY <1>1, <1>2

\* What the node returns is a sequence of signatures.
LEMMA NewerType ==
  ASSUME FeedTypes, NEW p \in Program, NEW until
  PROVE  Newer(p, until) \in Seq(Sig)
  <1> DEFINE h == ledger[p]
             P(k) == k \in DOMAIN h /\ h[k] = until
             from == IF until \in Range(h) THEN CHOOSE k \in DOMAIN h : h[k] = until ELSE 0
  <1>1. h \in Seq(Sig) /\ Len(h) \in Nat /\ DOMAIN h = 1..Len(h)
    BY DEF FeedTypes
  <1>2. from \in 0..Len(h)
    <2>1. CASE until \in Range(h)
      <3>1. \E k \in DOMAIN h : h[k] = until
        BY <2>1 DEF Range
      <3>2. (CHOOSE k \in DOMAIN h : h[k] = until) \in DOMAIN h
        BY <3>1
      <3> QED BY <1>1, <2>1, <3>2
    <2>2. CASE until \notin Range(h)
      BY <1>1, <2>2
    <2> QED BY <2>1, <2>2
  <1>3. Newer(p, until) = SubSeq(h, from + 1, Len(h))
    BY DEF Newer
  <1> HIDE DEF h, from
  <1> QED BY <1>1, <1>2, <1>3

\* The loop states the actions write.
LEMMA StatesTyped ==
  ASSUME FeedTypes
  PROVE  /\ Off \in LoopState /\ Timer \in LoopState
         /\ \A p \in Program : At("asked", p, lastSig[p], <<>>) \in LoopState
  <1>1. <<>> \in Pages
    BY ChannelClaimsAssumption DEF Pages
  <1>2. 1 \in Program
    BY ChannelClaimsAssumption DEF Program
  <1> QED BY <1>1, <1>2 DEF Off, Timer, At, LoopState, FeedTypes

\* startPolling() starts a loop that asks for the first program, or none.
LEMMA StartPollingKeeps ==
  ASSUME FeedTypes, StartPolling
  PROVE  loop' \in [Loop -> LoopState]
  <1>1. 1 \in Program
    BY ChannelClaimsAssumption DEF Program
  <1>2. CASE \A l \in Loop : loop[l].at # "off"
    BY <1>2 DEF StartPolling, FeedTypes
  <1>3. CASE ~ \A l \in Loop : loop[l].at # "off"
    <2> DEFINE l == CHOOSE l \in Loop : loop[l].at = "off"
    <2>1. loop' = [loop EXCEPT ![l] = At("asked", 1, lastSig[1], <<>>)]
      BY <1>3 DEF StartPolling
    <2> HIDE DEF l
    <2> QED BY <1>1, <2>1, StatesTyped DEF FeedTypes
  <1> QED BY <1>2, <1>3

------------------------------------------------------------------------------
(* The invariant *)

\* Nothing has been found, asked for or announced at first.
LEMMA InitIInv == Init => IInv
  <1> SUFFICES ASSUME Init PROVE IInv
    OBVIOUS
  <1> USE ChannelClaimsAssumption
  <1>1. WsTypes
    <2>1. /\ isRunning = FALSE /\ subscribed = FALSE /\ wsQuiet = FALSE
          /\ heartbeats = 0 /\ tracked = FALSE /\ delivered = {}
      BY DEF Init
    <2>2. heartbeats \in 0..2
      BY <2>1
    <2> QED BY <2>1, <2>2, Zenon DEF WsTypes
  <1>2. FeedTypes
    <2>1. Off \in LoopState
      BY DEF Off, At, LoopState, Pages, Program
    <2> QED BY <2>1 DEF Init, FeedTypes
  <1>3. CacheTypes
    BY DEF Init, CacheTypes, IsInjective
  <1>4. QueueTypes
    <2>1. Cardinality({}) = 0
      BY FS_EmptySet
    <2>2. accepted = 0 /\ started = 0 /\ running = {} /\ asked = <<>>
      BY DEF Init, Tasks!TaskInit
    <2> QED BY <2>1, <2>2 DEF QueueTypes
  <1>5. CreditInv
    <2>1. \A s \in Sig : Open(s) = {}
      <3>1. accepted = 0
        BY DEF Init, Tasks!TaskInit
      <3> QED BY <3>1 DEF Open
    <2>2. Cardinality({}) = 0
      BY FS_EmptySet
    <2>3. credit = [s \in Sig |-> 0]
      BY DEF Init
    <2>4. \A s \in Sig : Cardinality(Open(s)) <= credit[s]
      <3>1. TAKE s \in Sig
      <3>2. Cardinality(Open(s)) = 0
        BY <2>1, <2>2, Zenon
      <3>3. credit[s] = 0
        BY <2>3
      <3> QED BY <3>2, <3>3
    <2> QED BY <2>3, <2>4 DEF CreditInv
  <1> QED BY <1>1, <1>2, <1>3, <1>4, <1>5 DEF IInv

\* A task of the queue starts or ends.
LEMMA TaskKeeps ==
  ASSUME IInv, StartTask \/ \E t \in running, found \in BOOLEAN : FinishTask(t, found)
  PROVE  QueueTypes' /\ CreditInv'
  <1> USE ChannelClaimsAssumption
  <1>0. QueueTypes /\ CreditInv
    BY DEF IInv
  <1>1. CASE StartTask
    <2>1. /\ Tasks!StartFrom(started + 1, accepted', running)
          /\ accepted' = accepted /\ asked' = asked /\ credit' = credit
      BY <1>1 DEF StartTask, Tasks!Start, seenVars
    <2>2. /\ QueueTypes'
          /\ \A t \in 1..accepted' : (t > started' \/ t \in running')
                                       <=> (t > started \/ t \in running)
      BY <1>0, <2>1, StartFromKeeps DEF QueueTypes
    <2>3. \A s \in Sig : Open(s)' = Open(s)
      BY <2>1, <2>2 DEF Open
    <2> QED BY <1>0, <2>1, <2>2, <2>3 DEF CreditInv
  <1>2. ASSUME NEW t \in running, NEW found \in BOOLEAN, FinishTask(t, found)
        PROVE  QueueTypes' /\ CreditInv'
    <2>1. /\ Tasks!StartFrom(started + 1, accepted', running \ {t})
          /\ accepted' = accepted /\ asked' = asked
          /\ credit' = IF found THEN [credit EXCEPT ![asked[t]] = @ - 1] ELSE credit
      BY <1>2 DEF FinishTask, Tasks!Complete
    <2>2. /\ QueueTypes'
          /\ \A u \in 1..accepted' : (u > started' \/ u \in running')
                                       <=> (u > started \/ u \in running \ {t})
      BY <1>0, <2>1, StartFromKeeps DEF QueueTypes
    <2>3. t \in 1..accepted /\ ~(t > started) /\ asked[t] \in Sig
      BY <1>0 DEF QueueTypes
    <2>4. \A s \in Sig : Open(s)' = Open(s) \ {t}
      BY <2>1, <2>2, <2>3 DEF Open
    <2>5. /\ credit \in [Sig -> Int] /\ credit' \in [Sig -> Int]
          /\ credit'[asked[t]] >= credit[asked[t]] - 1
          /\ \A s \in Sig : asked[t] # s => credit'[s] = credit[s]
      BY <1>0, <2>1, <2>3 DEF CreditInv
    <2>6. ASSUME NEW s \in Sig PROVE Cardinality(Open(s)') <= credit'[s]
      <3> DEFINE S == Open(s)
      <3>1. /\ IsFiniteSet(S) /\ Cardinality(S) \in Nat /\ Cardinality(S) <= credit[s]
        BY <1>0, OpenFinite DEF CreditInv
      <3>2. Cardinality(S \ {t}) = IF t \in S THEN Cardinality(S) - 1 ELSE Cardinality(S)
        <4> HIDE DEF S
        <4> QED BY <3>1, FS_RemoveElement
      <3>3. t \in S <=> asked[t] = s
        BY <2>3 DEF Open
      <3>4. Cardinality(Open(s)') = Cardinality(S \ {t})
        BY <2>4
      <3> HIDE DEF S
      <3> QED BY <2>5, <3>1, <3>2, <3>3, <3>4
    <2> QED BY <2>2, <2>5, <2>6 DEF CreditInv
  <1> QED BY <1>1, <1>2

\* A connection attempt, successful or not, or silence of the socket.
LEMMA WebSocketKeeps ==
  ASSUME IInv, Start \/ Reconnect \/ ReconnectFails \/ Silence
  PROVE  WsTypes' /\ FeedTypes'
  <1>1. WsTypes /\ FeedTypes
    BY DEF IInv
  <1>2. ASSUME WebSocketUp, UNCHANGED delivered, isRunning' \in BOOLEAN PROVE WsTypes'
    <2>1. heartbeats' \in 0..2 /\ heartbeats' > 0
      BY <1>1, <1>2 DEF WebSocketUp, WsTypes
    <2>2. subscribed' = TRUE /\ wsQuiet' = FALSE /\ tracked' = TRUE /\ delivered' = delivered
      BY <1>2 DEF WebSocketUp
    <2> QED BY <1>1, <1>2, <2>1, <2>2, Zenon DEF WsTypes
  <1>3. CASE Start
    <2>1. isRunning' \in BOOLEAN /\ UNCHANGED <<ledger, delivered, lastSig, passedOver>>
      BY <1>3 DEF Start
    <2>2. CASE WebSocketUp /\ UNCHANGED loop
      BY <1>1, <1>2, <2>1, <2>2 DEF FeedTypes
    <2>3. CASE StartPolling /\ UNCHANGED <<subscribed, heartbeats, tracked, wsQuiet>>
      <3>1. loop' \in [Loop -> LoopState]
        BY <1>1, <2>3, StartPollingKeeps
      <3>2. WsTypes'
        BY <1>1, <2>1, <2>3 DEF WsTypes
      <3> QED BY <1>1, <2>1, <3>1, <3>2 DEF FeedTypes
    <2> QED BY <1>3, <2>2, <2>3 DEF Start
  <1>4. CASE Reconnect
    BY <1>1, <1>2, <1>4 DEF Reconnect, FeedTypes, WsTypes
  <1>5. CASE ReconnectFails
    <2>1. heartbeats' \in 0..2
      BY <1>1, <1>5 DEF ReconnectFails, WsTypes
    <2>2. /\ subscribed' = FALSE /\ tracked' = FALSE /\ StartPolling
          /\ UNCHANGED <<ledger, isRunning, wsQuiet, delivered, lastSig, passedOver>>
      BY <1>5 DEF ReconnectFails
    <2>3. loop' \in [Loop -> LoopState]
      BY <1>1, <2>2, StartPollingKeeps
    <2>4. WsTypes'
      BY <1>1, <2>1, <2>2 DEF WsTypes
    <2> QED BY <1>1, <2>2, <2>3, <2>4 DEF FeedTypes
  <1>6. CASE Silence
    BY <1>1, <1>6 DEF Silence, FeedTypes, WsTypes
  <1> QED BY <1>3, <1>4, <1>5, <1>6

\* A confirmation grows the ledger, a log event marks and perhaps enqueues.
LEMMA EventKeeps ==
  ASSUME IInv, NEW s \in Sig, Confirm(s) \/ \E p \in Program : LogEvent(p, s)
  PROVE  IInv'
  <1>0. WsTypes /\ FeedTypes /\ CacheTypes /\ QueueTypes /\ CreditInv
    BY DEF IInv
  <1>1. CASE Confirm(s)
    <2>1. /\ ledger' \in [Program -> Seq(Sig)]
          /\ UNCHANGED <<isRunning, wsVars, loop, lastSig, seenVars, passedOver, taskVars>>
      BY <1>0, <1>1 DEF Confirm, FeedTypes
    <2>2. WsTypes' /\ FeedTypes' /\ CacheTypes'
      BY <1>0, <2>1 DEF WsTypes, wsVars, FeedTypes, CacheTypes, seenVars
    <2>3. QueueTypes' /\ CreditInv'
      BY <1>0, <2>1, QueueUnchanged DEF seenVars
    <2> QED BY <2>2, <2>3 DEF IInv
  <1>2. ASSUME NEW p \in Program, LogEvent(p, s) PROVE IInv'
    <2>1. /\ delivered' = delivered \cup {<<p, s>>} /\ wsQuiet' = FALSE
          /\ UNCHANGED <<ledger, isRunning, subscribed, heartbeats, tracked, loop, lastSig>>
      BY <1>2 DEF LogEvent
    <2>2. WsTypes'
      <3>1. delivered' \subseteq Program \X Sig
        BY <1>0, <2>1 DEF WsTypes
      <3> QED BY <1>0, <2>1, <3>1, Zenon DEF WsTypes
    <2>3. CASE s \in Failed \cup Range(processed)
      <3>1. UNCHANGED <<seenVars, passedOver, taskVars>>
        BY <1>2, <2>3 DEF LogEvent
      <3>2. FeedTypes' /\ CacheTypes'
        BY <1>0, <2>1, <3>1 DEF FeedTypes, CacheTypes, seenVars
      <3>3. QueueTypes' /\ CreditInv'
        BY <1>0, <3>1, QueueUnchanged DEF seenVars
      <3> QED BY <2>2, <3>2, <3>3 DEF IInv
    <2>4. CASE s \notin Failed \cup Range(processed)
      <3>1. /\ processed' = Trimmed(Append(processed, s)) /\ Mark(s)
            /\ IF s \in Social THEN Enqueue(s)
               ELSE passedOver' = passedOver \cup {s} /\ UNCHANGED taskVars
        BY <1>2, <2>4 DEF LogEvent
      <3>2. CacheTypes'
        <4>1. /\ Append(processed, s) \in Seq(Sig)
              /\ IsInjective(Append(processed, s))
          BY <1>0, <2>4, AppendKeepsCache
        <4> QED BY <3>1, <4>1, TrimKeepsCache DEF CacheTypes
      <3>3. QueueTypes' /\ CreditInv' /\ passedOver' \subseteq Sig
        BY <1>0, <3>1, EnqueueKeeps, MarkKeeps DEF FeedTypes
      <3>4. FeedTypes'
        BY <1>0, <2>1, <3>3 DEF FeedTypes
      <3> QED BY <2>2, <3>2, <3>3, <3>4 DEF IInv
    <2> QED BY <2>3, <2>4
  <1> QED BY <1>1, <1>2

\* A step of a poll loop keeps the invariant.
LEMMA PollKeeps ==
  ASSUME IInv, NEW l \in Loop, PollStep(l)
  PROVE  IInv'
  <1> USE ChannelClaimsAssumption
  <1>0. WsTypes /\ FeedTypes /\ CacheTypes /\ QueueTypes /\ CreditInv
    BY DEF IInv
  <1>1. loop[l] \in LoopState /\ loop[l].prog \in Program /\ loop[l].page \in Pages
    BY <1>0 DEF FeedTypes, LoopState
  <1>2. WsTypes'
    <2>1. UNCHANGED <<isRunning, wsVars>>
      BY DEF PollStep, PollStart, Continue, PageNext, PageEnd, PollError, Answer, pollRest
    <2> QED BY <1>0, <2>1 DEF WsTypes, wsVars
  <1>3. ASSUME NEW new \in LoopState, loop' = [loop EXCEPT ![l] = new],
               UNCHANGED <<ledger, lastSig, seenVars, passedOver, taskVars>>
        PROVE  IInv'
    <2>1. FeedTypes' /\ CacheTypes'
      BY <1>0, <1>3 DEF FeedTypes, CacheTypes, seenVars
    <2>2. QueueTypes' /\ CreditInv'
      BY <1>0, <1>3, QueueUnchanged DEF seenVars
    <2> QED BY <1>2, <2>1, <2>2 DEF IInv
  <1>4. CASE PollStart(l)
    <2>1. 1 \in Program
      BY DEF Program
    <2> QED BY <1>0, <1>3, <1>4, <2>1, StatesTyped DEF PollStart, Ask, pollRest
  <1>5. CASE PollError(l)
    BY <1>0, <1>3, <1>5, StatesTyped DEF PollError, Rearm, pollRest
  <1>6. ASSUME NEW p \in Program, Answer(l, p) PROVE IInv'
    <2> DEFINE new == Newer(p, loop[l].until)
               n == IF Len(new) < LIMIT THEN Len(new) ELSE LIMIT
               page == [k \in 1..n |-> new[Len(new) - k + 1]]
    <2>1. new \in Seq(Sig)
      BY <1>0, NewerType
    <2>2. /\ loop[l].prog = p
          /\ loop' = [loop EXCEPT ![l].at = "answered", ![l].page = page]
          /\ UNCHANGED <<ledger, lastSig, seenVars, passedOver, taskVars>>
      BY <1>6 DEF Answer, pollRest
    <2>3. page \in Pages
      <3> HIDE DEF new
      <3>1. Len(new) \in Nat /\ n \in Nat /\ n <= Len(new) /\ n <= LIMIT
        BY <2>1
      <3>2. \A k \in 1..n : new[Len(new) - k + 1] \in Sig
        BY <2>1, <3>1
      <3> HIDE DEF n
      <3>3. page \in Seq(Sig) /\ Len(page) = n
        BY <3>1, <3>2
      <3> QED BY <3>1, <3>3 DEF Pages
    <2> HIDE DEF page
    <2> DEFINE state == [loop[l] EXCEPT !.at = "answered", !.page = page]
    <2>4. state \in LoopState
      BY <1>1, <2>3 DEF LoopState
    <2>5. loop' = [loop EXCEPT ![l] = state]
      BY <1>0, <2>2 DEF FeedTypes
    <2> QED BY <1>3, <2>2, <2>4, <2>5
  <1>7. CASE Continue(l)
    <2> DEFINE p == loop[l].prog
               page == loop[l].page
               state == [loop[l] EXCEPT !.at = "page"]
    <2>1. loop' = [loop EXCEPT ![l] = state] /\ state \in LoopState
      <3>1. loop' = [loop EXCEPT ![l].at = "page"]
        BY <1>7 DEF Continue
      <3>2. state \in LoopState
        BY <1>1 DEF LoopState
      <3> QED BY <1>0, <3>1, <3>2 DEF FeedTypes
    <2>2. lastSig' \in [Program -> Sig \cup {NoSig}] /\ passedOver' \subseteq Sig
      <3>1. CASE page = <<>>
        BY <1>0, <1>7, <3>1 DEF Continue, FeedTypes
      <3>2. CASE page # <<>>
        <4>1. /\ lastSig' = [lastSig EXCEPT ![p] = page[1]]
              /\ passedOver' = passedOver \cup (Range(Newer(p, loop[l].until))
                                   \ (Range(page) \cup Range(Newer(p, page[1]))))
          BY <1>7, <3>2 DEF Continue
        <4>2. page[1] \in Sig
          BY <1>1, <3>2 DEF Pages
        <4>3. Range(Newer(p, loop[l].until)) \subseteq Sig
          <5>1. Newer(p, loop[l].until) \in Seq(Sig)
            BY <1>0, <1>1, NewerType
          <5> QED BY <5>1 DEF Range
        <4> QED BY <1>0, <4>1, <4>2, <4>3 DEF FeedTypes
      <3> QED BY <3>1, <3>2
    <2>3. UNCHANGED <<ledger, seenVars, taskVars>>
      BY <1>7 DEF Continue, pollRest
    <2>4. FeedTypes' /\ CacheTypes'
      BY <1>0, <2>1, <2>2, <2>3 DEF FeedTypes, CacheTypes, seenVars
    <2>5. QueueTypes' /\ CreditInv'
      BY <1>0, <2>3, QueueUnchanged DEF seenVars
    <2> QED BY <1>2, <2>4, <2>5 DEF IInv
  <1>8. CASE PageNext(l)
    <2> DEFINE page == loop[l].page
               s == Head(page)
               state == [loop[l] EXCEPT !.page = Tail(page)]
    <2>1. page # <<>> /\ UNCHANGED <<ledger, lastSig>>
      BY <1>8 DEF PageNext, pollRest
    <2>2. s \in Sig /\ Tail(page) \in Pages
      BY <1>1, <2>1 DEF Pages
    <2>3. loop' \in [Loop -> LoopState]
      <3>1. state \in LoopState
        BY <1>1, <2>2 DEF LoopState
      <3>2. loop' = [loop EXCEPT ![l].page = Tail(@)]
        BY <1>8 DEF PageNext
      <3> QED BY <1>0, <3>1, <3>2 DEF FeedTypes
    <2>4. CASE Fresh(s)
      <3>1. processed' = Append(processed, s) /\ Mark(s) /\ Enqueue(s)
        BY <1>8, <2>4 DEF PageNext
      <3> HIDE DEF s
      <3>2. CacheTypes'
        <4>1. s \notin Range(processed)
          BY <2>4 DEF Fresh
        <4> QED BY <1>0, <2>2, <3>1, <4>1, AppendKeepsCache DEF CacheTypes
      <3>3. QueueTypes' /\ CreditInv' /\ passedOver' \subseteq Sig
        BY <1>0, <2>2, <3>1, EnqueueKeeps
      <3>4. FeedTypes'
        BY <1>0, <2>1, <2>3, <3>3 DEF FeedTypes
      <3> QED BY <1>2, <3>2, <3>3, <3>4 DEF IInv
    <2>5. CASE ~Fresh(s)
      <3>1. UNCHANGED <<seenVars, passedOver, taskVars>>
        BY <1>8, <2>5 DEF PageNext
      <3>2. FeedTypes' /\ CacheTypes'
        BY <1>0, <2>1, <2>3, <3>1 DEF FeedTypes, CacheTypes, seenVars
      <3>3. QueueTypes' /\ CreditInv'
        BY <1>0, <3>1, QueueUnchanged DEF seenVars
      <3> QED BY <1>2, <3>2, <3>3 DEF IInv
    <2> QED BY <2>4, <2>5
  <1>9. CASE PageEnd(l)
    <2>1. UNCHANGED <<ledger, lastSig, credit, passedOver, taskVars>>
      BY <1>9 DEF PageEnd, pollRest
    <2>2. CASE loop[l].prog < NumPrograms
      <3>1. loop[l].prog + 1 \in Program
        BY <1>1, <2>2 DEF Program
      <3>2. Ask(l, loop[l].prog + 1) /\ UNCHANGED seenVars
        BY <1>9, <2>1, <2>2 DEF PageEnd, seenVars
      <3> QED BY <1>0, <1>3, <2>1, <3>1, <3>2, StatesTyped DEF Ask
    <2>3. CASE ~(loop[l].prog < NumPrograms)
      <3>1. loop' = [loop EXCEPT ![l] = Timer] /\ processed' = Trimmed(processed)
        BY <1>9, <2>3 DEF PageEnd, Rearm
      <3>2. FeedTypes'
        BY <1>0, <2>1, <3>1, StatesTyped DEF FeedTypes
      <3>3. CacheTypes'
        BY <1>0, <3>1, TrimKeepsCache DEF CacheTypes
      <3>4. QueueTypes' /\ CreditInv'
        BY <1>0, <2>1, QueueUnchanged
      <3> QED BY <1>2, <3>2, <3>3, <3>4 DEF IInv
    <2> QED BY <2>2, <2>3
  <1> QED BY <1>4, <1>5, <1>6, <1>7, <1>8, <1>9 DEF PollStep

\* Every step keeps the invariant.
LEMMA StepKeeps == IInv /\ [Next]_vars => IInv'
  <1> SUFFICES ASSUME IInv, [Next]_vars PROVE IInv'
    OBVIOUS
  <1>0. WsTypes /\ FeedTypes /\ CacheTypes /\ QueueTypes /\ CreditInv
    BY DEF IInv
  <1>1. CASE Start \/ Reconnect \/ ReconnectFails \/ Silence
    <2>1. UNCHANGED <<seenVars, taskVars>>
      BY <1>1 DEF Start, Reconnect, ReconnectFails, Silence
    <2>2. CacheTypes' /\ QueueTypes' /\ CreditInv'
      BY <1>0, <2>1, QueueUnchanged DEF CacheTypes, seenVars
    <2> QED BY <1>1, <2>2, WebSocketKeeps DEF IInv
  <1>2. CASE StartTask \/ \E t \in running, found \in BOOLEAN : FinishTask(t, found)
    <2>1. UNCHANGED <<ledger, isRunning, wsVars, loop, lastSig, processed, passedOver>>
      BY <1>2 DEF StartTask, FinishTask, seenVars
    <2>2. WsTypes' /\ FeedTypes' /\ CacheTypes'
      BY <1>0, <2>1 DEF WsTypes, wsVars, FeedTypes, CacheTypes
    <2> QED BY <1>2, <2>2, TaskKeeps DEF IInv
  <1>3. CASE \E s \in Sig : Confirm(s)
    BY <1>3, EventKeeps
  <1>4. CASE \E p \in Program, s \in Sig : LogEvent(p, s)
    BY <1>4, EventKeeps
  <1>5. CASE \E l \in Loop : PollStep(l)
    BY <1>5, PollKeeps
  <1>6. CASE UNCHANGED vars
    <2>1. WsTypes' /\ FeedTypes' /\ CacheTypes'
      BY <1>0, <1>6 DEF vars, WsTypes, wsVars, FeedTypes, CacheTypes, seenVars
    <2>2. QueueTypes' /\ CreditInv'
      BY <1>0, <1>6, QueueUnchanged DEF vars, seenVars
    <2> QED BY <2>1, <2>2 DEF IInv
  <1> QED BY <1>1, <1>2, <1>3, <1>4, <1>5, <1>6 DEF Next

\* The inductive invariant: types, and every open ticket covered by credit.
THEOREM ChannelInvariant == Spec => []IInv
  BY InitIInv, StepKeeps, PTL DEF Spec

\* The variables keep their types: the abstract queue stays within its limits
\* and a heartbeat that can be cleared exists.
THEOREM ChannelTypeOK == Spec => []TypeOK
  <1>1. IInv => TypeOK
    BY DEF IInv, WsTypes, FeedTypes, CacheTypes, QueueTypes, CreditInv, LoopState, Pages,
           TypeOK
  <1> QED BY <1>1, ChannelInvariant, PTL

\* However subscriptions, reconnections and overlapping poll loops find a
\* transaction, it is announced at most once per residency of its signature.
THEOREM ChannelAnnouncedPerResidency == Spec => []AnnouncedPerResidency
  <1>1. ASSUME IInv, NEW s \in Sig PROVE credit[s] >= 0
    <2>1. Cardinality(Open(s)) \in Nat /\ Cardinality(Open(s)) <= credit[s] /\ credit[s] \in Int
      BY <1>1, OpenFinite DEF IInv, CreditInv
    <2> QED BY <2>1
  <1>2. IInv => AnnouncedPerResidency
    BY <1>1 DEF AnnouncedPerResidency
  <1> QED BY <1>2, ChannelInvariant, PTL

------------------------------------------------------------------------------
(* A running monitor has a feed *)

\* startPolling() leaves at least one loop that is not off.
LEMMA StartPollingPolls ==
  ASSUME FeedTypes, StartPolling
  PROVE  Polling'
  <1>1. CASE \A l \in Loop : loop[l].at # "off"
    <2>1. loop' = loop /\ 1 \in Loop
      BY <1>1, ChannelClaimsAssumption DEF StartPolling, Loop
    <2> QED BY <1>1, <2>1 DEF Polling
  <1>2. CASE ~ \A l \in Loop : loop[l].at # "off"
    <2> DEFINE l == CHOOSE l \in Loop : loop[l].at = "off"
    <2>1. loop' = [loop EXCEPT ![l] = At("asked", 1, lastSig[1], <<>>)] /\ l \in Loop
      BY <1>2 DEF StartPolling
    <2> HIDE DEF l
    <2>2. loop'[l].at = "asked"
      BY <2>1 DEF FeedTypes, At
    <2> QED BY <2>1, <2>2 DEF Polling
  <1> QED BY <1>1, <1>2

\* A poll loop that runs never stops: each of its steps leaves it running.
LEMMA PollStepPolls ==
  ASSUME FeedTypes, NEW l \in Loop, PollStep(l)
  PROVE  Polling' /\ UNCHANGED isRunning
  <1> SUFFICES loop'[l].at # "off" /\ UNCHANGED isRunning
    BY DEF Polling
  <1>1. CASE PollStart(l)
    BY <1>1 DEF PollStart, Ask, At, FeedTypes, pollRest
  <1>2. CASE Continue(l)
    BY <1>2 DEF Continue, FeedTypes, LoopState, pollRest
  <1>3. CASE PageNext(l)
    <2>1. loop' = [loop EXCEPT ![l].page = Tail(@)] /\ loop[l].at = "page"
      BY <1>3 DEF PageNext
    <2> QED BY <1>3, <2>1 DEF PageNext, FeedTypes, LoopState, pollRest
  <1>4. CASE PageEnd(l)
    BY <1>4 DEF PageEnd, Ask, Rearm, Timer, At, FeedTypes, pollRest
  <1>5. CASE PollError(l)
    BY <1>5 DEF PollError, Rearm, Timer, At, FeedTypes, pollRest
  <1>6. CASE \E p \in Program : Answer(l, p)
    <2>1. PICK page : loop' = [loop EXCEPT ![l].at = "answered", ![l].page = page]
      BY <1>6 DEF Answer
    <2> QED BY <1>6, <2>1 DEF Answer, FeedTypes, LoopState, pollRest
  <1> QED BY <1>1, <1>2, <1>3, <1>4, <1>5, <1>6 DEF PollStep

\* Every step leaves a running monitor with a feed.
LEMMA StepKeepsFeed == IInv /\ FeedAlive /\ [Next]_vars => FeedAlive'
  <1> SUFFICES ASSUME IInv, FeedAlive, [Next]_vars PROVE FeedAlive'
    OBVIOUS
  <1>0. WsTypes /\ FeedTypes
    BY DEF IInv
  <1>1. ASSUME WebSocketUp PROVE FeedAlive'
    <2>1. subscribed' = TRUE /\ heartbeats' > 0
      BY <1>0, <1>1 DEF WebSocketUp, WsTypes
    <2> QED BY <2>1 DEF FeedAlive
  <1>2. ASSUME StartPolling PROVE FeedAlive'
    BY <1>0, <1>2, StartPollingPolls DEF FeedAlive
  <1>3. ASSUME UNCHANGED <<isRunning, subscribed, heartbeats, loop>> PROVE FeedAlive'
    BY <1>3 DEF FeedAlive, Polling
  <1>4. CASE Start \/ Reconnect \/ ReconnectFails
    BY <1>1, <1>2, <1>4 DEF Start, Reconnect, ReconnectFails
  <1>5. CASE Silence \/ StartTask \/ \E t \in running, found \in BOOLEAN : FinishTask(t, found)
    BY <1>3, <1>5 DEF Silence, StartTask, FinishTask, wsVars
  <1>6. CASE (\E s \in Sig : Confirm(s)) \/ (\E p \in Program, s \in Sig : LogEvent(p, s))
    BY <1>3, <1>6 DEF Confirm, LogEvent, wsVars
  <1>7. CASE \E l \in Loop : PollStep(l)
    BY <1>0, <1>7, PollStepPolls DEF FeedAlive
  <1>8. CASE UNCHANGED vars
    BY <1>3, <1>8 DEF vars, wsVars
  <1> QED BY <1>4, <1>5, <1>6, <1>7, <1>8 DEF Next

\* Whatever connections fail, a running monitor is subscribed with a heartbeat
\* that would notice silence, or one of its poll loops runs.
THEOREM ChannelFeedAlive == Spec => []FeedAlive
  <1>1. Init => FeedAlive
    BY DEF Init, FeedAlive
  <1> QED BY <1>1, StepKeepsFeed, ChannelInvariant, PTL DEF Spec

------------------------------------------------------------------------------
(* The cursors.  A round asks for what came after the cursor it read, and its  *)
(* answer may be old when it arrives; what makes the new cursor safe is that   *)
(* everything up to the one it asked with was already dealt with.              *)

\* The signature s needs no further look.
Handled(s) == s \in Failed \cup Range(asked) \cup passedOver

\* Position k of the ledger of p lies after the signature c.
After(p, c, k) == c = NoSig \/ \E i \in 1..(k - 1) : ledger[p][i] = c

InPage(s) == \E l \in Loop : loop[l].at = "page" /\ s \in Range(loop[l].page)

Known(p, c) == c \in Range(ledger[p]) \cup {NoSig}

\* A loop asks with a known signature up to which all was dealt with.
LoopKnown(state) ==
    /\ Known(state.prog, state.until)
    /\ Range(state.page) \subseteq Range(ledger[state.prog])
    /\ \A k \in DOMAIN ledger[state.prog] :
           After(state.prog, state.until, k) \/ Handled(ledger[state.prog][k])

LedgerInv == \A p \in Program : IsInjective(ledger[p])
SeenInv == Range(processed) \subseteq Range(asked) \cup passedOver
LastInv == \A p \in Program : Known(p, lastSig[p])
Covered == \A p \in Program : \A k \in DOMAIN ledger[p] :
               After(p, lastSig[p], k) \/ Handled(ledger[p][k]) \/ InPage(ledger[p][k])
LoopsInv == \A l \in Loop : LoopKnown(loop[l])
OnePage == /\ \A l, m \in Loop : loop[l].at = "page" /\ loop[m].at = "page" => l = m
           /\ isRunning \/ \A l \in Loop : loop[l].at = "off"

CInv == LedgerInv /\ SeenInv /\ LastInv /\ Covered /\ LoopsInv /\ OnePage

\* Nothing that was dealt with is forgotten.
Grows == Range(asked) \subseteq Range(asked') /\ passedOver \subseteq passedOver'

\* enqueue() deals with its signature, by a ticket or by refusing it.
LEMMA EnqueueHandles ==
  ASSUME QueueTypes, NEW s \in Sig, Enqueue(s)
  PROVE  Grows /\ s \in Range(asked') \cup passedOver'
  <1>1. CASE accepted - started < MAX_QUEUE_SIZE
    <2>1. asked' = Append(asked, s) /\ passedOver' = passedOver /\ asked \in Seq(Sig)
      BY <1>1 DEF Enqueue, QueueTypes
    <2>2. /\ DOMAIN asked' = 1..(Len(asked) + 1) /\ asked'[Len(asked) + 1] = s
          /\ DOMAIN asked = 1..Len(asked) /\ Len(asked) \in Nat
          /\ \A k \in 1..Len(asked) : asked'[k] = asked[k]
      BY <2>1
    <2>3. Range(asked) \subseteq Range(asked') /\ s \in Range(asked')
      BY <2>2 DEF Range
    <2> QED BY <2>1, <2>3 DEF Grows
  <1>2. CASE ~(accepted - started < MAX_QUEUE_SIZE)
    BY <1>2 DEF Enqueue, taskVars, Grows
  <1> QED BY <1>1, <1>2

\* What was dealt with stays dealt with, on the same ledger.
LEMMA KnownStays ==
  ASSUME Grows, UNCHANGED ledger
  PROVE  /\ \A s : Handled(s) => Handled(s)'
         /\ \A p, c, k : After(p, c, k)' <=> After(p, c, k)
         /\ \A p, c : Known(p, c)' <=> Known(p, c)
         /\ \A state : LoopKnown(state) => LoopKnown(state)'
  <1>1. \A s : Handled(s) => Handled(s)'
    BY DEF Handled, Grows
  <1>2. \A p, c, k : After(p, c, k)' <=> After(p, c, k)
    BY DEF After
  <1>3. \A p, c : Known(p, c)' <=> Known(p, c)
    BY DEF Known
  <1>4. \A state : LoopKnown(state) => LoopKnown(state)'
    BY <1>1, <1>2, <1>3 DEF LoopKnown
  <1> QED BY <1>1, <1>2, <1>3, <1>4

\* A step that touches neither the loops nor the ledger.
LEMMA SameLoops ==
  ASSUME CInv, Grows, SeenInv', UNCHANGED <<ledger, loop, lastSig>>,
         isRunning' \/ UNCHANGED isRunning
  PROVE  CInv'
  <1>1. LedgerInv'
    BY DEF CInv, LedgerInv
  <1>2. LastInv'
    BY KnownStays DEF CInv, LastInv
  <1>3. Covered'
    BY KnownStays DEF CInv, Covered, InPage
  <1>4. LoopsInv'
    BY KnownStays DEF CInv, LoopsInv
  <1>5. OnePage'
    BY DEF CInv, OnePage
  <1> QED BY <1>1, <1>2, <1>3, <1>4, <1>5 DEF CInv

\* A loop that works off no page, or has reached the end of one, moves to a known
\* state that is not a page.
LEMMA LoopMoves ==
  ASSUME CInv, FeedTypes, NEW l \in Loop, NEW state, state.at # "page", LoopKnown(state),
         loop[l].at = "page" => loop[l].page = <<>>,
         loop' = [loop EXCEPT ![l] = state], isRunning',
         Range(processed') \subseteq Range(processed),
         UNCHANGED <<ledger, lastSig, asked, passedOver>>
  PROVE  CInv'
  <1>1. Grows /\ SeenInv'
    BY DEF Grows, CInv, SeenInv
  <1>2. loop'[l] = state /\ \A m \in Loop \ {l} : loop'[m] = loop[m]
    BY DEF FeedTypes
  <1>3. \A s : InPage(s) => InPage(s)'
    <2>1. ASSUME NEW s, InPage(s) PROVE InPage(s)'
      <3>1. PICK m \in Loop : loop[m].at = "page" /\ s \in Range(loop[m].page)
        BY <2>1 DEF InPage
      <3>2. Range(<<>>) = {}
        BY DEF Range
      <3>3. m # l
        BY <3>1, <3>2
      <3> QED BY <1>2, <3>1, <3>3 DEF InPage
    <2> QED BY <2>1
  <1>4. LedgerInv' /\ LastInv'
    BY <1>1, KnownStays DEF CInv, LedgerInv, LastInv
  <1>5. Covered'
    BY <1>1, <1>3, KnownStays DEF CInv, Covered
  <1>6. LoopsInv'
    BY <1>1, <1>2, KnownStays DEF CInv, LoopsInv
  <1>7. OnePage'
    BY <1>2 DEF CInv, OnePage
  <1> QED BY <1>1, <1>4, <1>5, <1>6, <1>7 DEF CInv

\* The states in which a loop asks, sleeps or is off are known, the first as long
\* as no page hides what its cursor has passed.
LEMMA StatesKnown ==
  ASSUME CInv, FeedTypes
  PROVE  /\ LoopKnown(Off) /\ LoopKnown(Timer)
         /\ \A p \in Program : (\A s : ~InPage(s)) => LoopKnown(At("asked", p, lastSig[p], <<>>))
  <1>1. Range(<<>>) = {}
    BY DEF Range
  <1>2. LoopKnown(Off) /\ LoopKnown(Timer)
    BY <1>1 DEF LoopKnown, Off, Timer, At, Known, After
  <1>3. ASSUME NEW p \in Program, \A s : ~InPage(s)
        PROVE  LoopKnown(At("asked", p, lastSig[p], <<>>))
    BY <1>1, <1>3 DEF LoopKnown, At, CInv, LastInv, Covered
  <1> QED BY <1>2, <1>3

\* What the node returns is exactly what comes after the signature asked with.
LEMMA NewerIsAfter ==
  ASSUME FeedTypes, LedgerInv, NEW p \in Program, NEW c, Known(p, c)
  PROVE  /\ \A k \in DOMAIN ledger[p] : ledger[p][k] \in Range(Newer(p, c)) <=> After(p, c, k)
         /\ Range(Newer(p, c)) \subseteq Range(ledger[p])
  <1> DEFINE h == ledger[p]
             from == IF c \in Range(h) THEN CHOOSE k \in DOMAIN h : h[k] = c ELSE 0
  <1>1. h \in Seq(Sig) /\ Len(h) \in Nat /\ DOMAIN h = 1..Len(h)
    BY DEF FeedTypes
  <1>2. \A i, k \in DOMAIN h : h[i] = h[k] => i = k
    BY DEF LedgerInv, IsInjective
  <1>3. /\ from \in 0..Len(h)
        /\ \A k \in DOMAIN h : k > from <=> After(p, c, k)
    <2>1. CASE c \in Range(h)
      <3>1. \E k \in DOMAIN h : h[k] = c
        BY <2>1 DEF Range
      <3>2. from \in DOMAIN h /\ h[from] = c
        BY <2>1, <3>1
      <3>3. c # NoSig
        BY <1>1, <2>1, ChannelClaimsAssumption DEF Range
      <3> HIDE DEF from
      <3>4. ASSUME NEW k \in DOMAIN h PROVE k > from <=> After(p, c, k)
        <4>1. \A i \in 1..(k - 1) : i \in DOMAIN h
          BY <1>1
        <4>2. After(p, c, k) <=> \E i \in 1..(k - 1) : i = from
          BY <1>2, <3>2, <3>3, <4>1 DEF After
        <4> QED BY <1>1, <3>2, <4>2
      <3> QED BY <1>1, <3>2, <3>4
    <2>2. CASE c \notin Range(h)
      <3>1. c = NoSig /\ from = 0
        BY <2>2 DEF Known
      <3>2. \A k \in DOMAIN h : After(p, c, k)
        BY <3>1 DEF After
      <3> HIDE DEF from, h
      <3>3. from \in 0..Len(h) /\ \A k \in DOMAIN h : k > from
        BY <1>1, <3>1
      <3> QED BY <3>2, <3>3
    <2> QED BY <2>1, <2>2
  <1>4. Newer(p, c) = SubSeq(h, from + 1, Len(h))
    BY DEF Newer
  <1> HIDE DEF h, from
  <1> DEFINE new == SubSeq(h, from + 1, Len(h))
  <1>5. /\ DOMAIN new = 1..(Len(h) - from)
        /\ \A k \in 1..(Len(h) - from) : new[k] = h[from + k]
    BY <1>1, <1>3
  <1> HIDE DEF new
  <1>6. Range(new) \subseteq Range(h)
    <2>1. \A k \in 1..(Len(h) - from) : from + k \in DOMAIN h
      BY <1>1, <1>3
    <2> QED BY <1>5, <2>1 DEF Range
  <1>7. ASSUME NEW k \in DOMAIN h PROVE h[k] \in Range(new) <=> k > from
    <2>1. CASE k > from
      <3>1. k - from \in 1..(Len(h) - from) /\ from + (k - from) = k
        BY <1>1, <1>3, <2>1
      <3>2. new[k - from] = h[k]
        BY <1>5, <3>1
      <3> QED BY <1>5, <2>1, <3>1, <3>2 DEF Range
    <2>2. CASE ~(k > from)
      <3>1. ASSUME h[k] \in Range(new) PROVE FALSE
        <4>1. PICK i \in 1..(Len(h) - from) : h[from + i] = h[k]
          BY <1>5, <3>1 DEF Range
        <4>2. from + i \in DOMAIN h /\ from + i > from
          BY <1>1, <1>3
        <4> QED BY <1>2, <2>2, <4>1, <4>2
      <3> QED BY <2>2, <3>1
    <2> QED BY <2>1, <2>2
  <1> QED BY <1>3, <1>4, <1>6, <1>7 DEF h, new

\* pollAllPrograms() moves the cursor: what it passes was dealt with before, is on
\* the page, or is cut off.
LEMMA ContinueKeepsCursor ==
  ASSUME IInv, CInv, NEW l \in Loop, Continue(l)
  PROVE  CInv'
  <1>a. PICK p, c, page, state : /\ p = loop[l].prog /\ c = loop[l].until
                                 /\ page = loop[l].page
                                 /\ state = [loop[l] EXCEPT !.at = "page"]
    OBVIOUS
  <1>0. FeedTypes /\ loop[l] \in LoopState /\ p \in Program /\ page \in Seq(Sig)
    BY <1>a DEF IInv, FeedTypes, LoopState, Pages
  <1>1. /\ loop[l].at = "answered" /\ \A m \in Loop : loop[m].at # "page"
        /\ UNCHANGED <<ledger, isRunning, processed, asked>>
    BY DEF Continue, Free, pollRest, seenVars, taskVars
  <1>2. loop'[l] = state /\ \A m \in Loop \ {l} : loop'[m] = loop[m]
    <2>1. loop' = [loop EXCEPT ![l].at = "page"]
      BY DEF Continue
    <2> QED BY <1>0, <1>a, <2>1 DEF FeedTypes
  <1>3. state.at = "page" /\ state.prog = p /\ state.until = c /\ state.page = page
    BY <1>0, <1>a DEF LoopState
  <1>4. /\ LedgerInv /\ Known(p, c) /\ Range(page) \subseteq Range(ledger[p])
        /\ \A k \in DOMAIN ledger[p] : After(p, c, k) \/ Handled(ledger[p][k])
    BY <1>a DEF CInv, LoopsInv, LoopKnown
  <1>5. Grows
    BY <1>1 DEF Continue, Grows
  <1>6. LoopKnown(state)
    BY <1>3, <1>4 DEF LoopKnown
  <1>7. SeenInv' /\ LedgerInv'
    BY <1>1, <1>5 DEF CInv, SeenInv, LedgerInv, Grows
  <1>8. LoopsInv'
    BY <1>2, <1>5, <1>6, <1>1, KnownStays DEF CInv, LoopsInv
  <1>9. OnePage'
    BY <1>1, <1>2 DEF CInv, OnePage
  <1>10. \A s : ~InPage(s)
    BY <1>1 DEF InPage
  <1>11. CASE page = <<>>
    <2>1. UNCHANGED lastSig
      BY <1>11, <1>a DEF Continue
    <2>2. LastInv'
      BY <1>1, <1>5, <2>1, KnownStays DEF CInv, LastInv
    <2>3. Covered'
      BY <1>1, <1>5, <1>10, <2>1, KnownStays DEF CInv, Covered
    <2> QED BY <1>7, <1>8, <1>9, <2>2, <2>3 DEF CInv
  <1>12. CASE page # <<>>
    <2> DEFINE d == page[1]
    <2>1. /\ lastSig' = [lastSig EXCEPT ![p] = d]
          /\ passedOver' = passedOver \cup
                 (Range(Newer(p, c)) \ (Range(page) \cup Range(Newer(p, d))))
      BY <1>12, <1>a DEF Continue
    <2>2. lastSig'[p] = d /\ \A q \in Program \ {p} : lastSig'[q] = lastSig[q]
      BY <1>0, <2>1 DEF FeedTypes
    <2>3. Known(p, c) /\ Known(p, d)
      <3>1. d \in Range(page)
        BY <1>0, <1>12 DEF Range
      <3> QED BY <1>4, <3>1 DEF Known
    <2>4. LastInv'
      BY <1>1, <1>5, <2>2, <2>3, KnownStays DEF CInv, LastInv
    <2>5. ASSUME NEW k \in DOMAIN ledger[p], NEW s, s = ledger[p][k]
          PROVE  After(p, d, k) \/ Handled(s)' \/ InPage(s)'
      <3>1. CASE ~After(p, c, k)
        BY <1>1, <1>4, <1>5, <2>5, <3>1, KnownStays
      <3>2. CASE After(p, c, k) /\ ~After(p, d, k)
        <4>1. s \in Range(Newer(p, c)) /\ s \notin Range(Newer(p, d))
          BY <1>0, <1>4, <2>3, <2>5, <3>2, NewerIsAfter
        <4>2. CASE s \in Range(page)
          BY <1>2, <1>3, <4>2 DEF InPage
        <4>3. CASE s \notin Range(page)
          BY <2>1, <4>1, <4>3 DEF Handled
        <4> QED BY <4>2, <4>3
      <3> QED BY <3>1, <3>2
    <2>6. ASSUME NEW q \in Program \ {p}, NEW k \in DOMAIN ledger[q]
          PROVE  \A s : s = ledger[q][k] => After(q, lastSig[q], k) \/ Handled(s)'
      BY <1>1, <1>5, <1>10, KnownStays DEF CInv, Covered
    <2>7. Covered'
      <3>1. ASSUME NEW q \in Program, NEW k \in DOMAIN ledger[q], NEW s, s = ledger[q][k]
            PROVE  After(q, lastSig'[q], k) \/ Handled(s)' \/ InPage(s)'
        <4>1. CASE q = p
          BY <2>2, <2>5, <3>1, <4>1
        <4>2. CASE q # p
          BY <2>2, <2>6, <3>1, <4>2
        <4> QED BY <4>1, <4>2
      <3> QED BY <1>1, <1>5, <3>1, KnownStays DEF Covered, Handled, InPage
    <2> QED BY <1>7, <1>8, <1>9, <2>4, <2>7 DEF CInv
  <1> QED BY <1>11, <1>12

\* A page is worked off: its next signature is marked with a ticket or refused,
\* or was dealt with before.
LEMMA PageNextKeepsCursor ==
  ASSUME IInv, CInv, NEW l \in Loop, PageNext(l)
  PROVE  CInv'
  <1>a. PICK page, s, state : /\ page = loop[l].page /\ s = Head(page)
                              /\ state = [loop[l] EXCEPT !.page = Tail(page)]
    OBVIOUS
  <1>0. /\ FeedTypes /\ QueueTypes /\ CacheTypes
        /\ loop[l] \in LoopState /\ page \in Seq(Sig) /\ page # <<>>
    BY <1>a DEF IInv, FeedTypes, LoopState, Pages, PageNext
  <1>1. /\ loop[l].at = "page" /\ \A m \in Loop \ {l} : loop[m].at # "page"
        /\ UNCHANGED <<ledger, isRunning, lastSig>>
    BY DEF CInv, OnePage, PageNext, pollRest
  <1>2. loop'[l] = state /\ \A m \in Loop \ {l} : loop'[m] = loop[m]
    <2>1. loop' = [loop EXCEPT ![l].page = Tail(@)]
      BY DEF PageNext
    <2> QED BY <1>0, <1>a, <2>1 DEF FeedTypes
  <1>3. /\ state.at = "page" /\ state.prog = loop[l].prog /\ state.until = loop[l].until
        /\ state.page = Tail(page)
    BY <1>0, <1>a, <1>1 DEF LoopState
  <1>4. s \in Sig /\ Range(page) = {s} \cup Range(Tail(page))
    <2>1. /\ DOMAIN page = 1..Len(page) /\ Len(page) \in Nat /\ Len(page) > 0 /\ s = page[1]
          /\ DOMAIN Tail(page) = 1..(Len(page) - 1)
          /\ \A k \in 1..(Len(page) - 1) : Tail(page)[k] = page[k + 1]
          /\ s \in Sig
      BY <1>0, <1>a
    <2> DEFINE rest == Tail(page)
    <2> HIDE DEF rest
    <2>2. Range(rest) \subseteq Range(page)
      BY <2>1 DEF Range, rest
    <2>3. s \in Range(page)
      BY <2>1 DEF Range
    <2>4. ASSUME NEW k \in DOMAIN page PROVE page[k] = s \/ page[k] \in Range(rest)
      <3>1. CASE k = 1
        BY <2>1, <3>1
      <3>2. CASE k # 1
        <4>1. k - 1 \in 1..(Len(page) - 1) /\ (k - 1) + 1 = k
          BY <2>1, <3>2
        <4>2. rest[k - 1] = page[k] /\ k - 1 \in DOMAIN rest
          BY <2>1, <4>1 DEF rest
        <4> QED BY <4>2 DEF Range
      <3> QED BY <3>1, <3>2
    <2> QED BY <2>1, <2>2, <2>3, <2>4 DEF Range, rest
  <1>5. Grows /\ SeenInv' /\ Handled(s)'
    <2>1. CASE Fresh(s)
      <3>1. processed' = Append(processed, s) /\ Enqueue(s)
        BY <1>a, <2>1 DEF PageNext
      <3>2. Grows /\ s \in Range(asked') \cup passedOver'
        BY <1>0, <1>4, <3>1, EnqueueHandles
      <3>3. Range(processed') \subseteq Range(processed) \cup {s}
        <4>1. /\ DOMAIN processed' = 1..(Len(processed) + 1)
              /\ DOMAIN processed = 1..Len(processed) /\ Len(processed) \in Nat
              /\ \A k \in 1..Len(processed) : processed'[k] = processed[k]
              /\ processed'[Len(processed) + 1] = s
          BY <1>0, <1>4, <3>1 DEF CacheTypes
        <4> QED BY <4>1 DEF Range
      <3> QED BY <3>2, <3>3 DEF CInv, SeenInv, Handled, Grows
    <2>2. CASE ~Fresh(s)
      <3>1. UNCHANGED <<processed, asked, passedOver>>
        BY <1>a, <2>2 DEF PageNext, seenVars, taskVars
      <3> QED BY <2>2, <3>1 DEF CInv, SeenInv, Handled, Grows, Fresh
    <2> QED BY <2>1, <2>2
  <1>6. LedgerInv' /\ LastInv'
    BY <1>1, <1>5, KnownStays DEF CInv, LedgerInv, LastInv
  <1>7. Covered'
    <2>1. ASSUME NEW x, InPage(x) PROVE Handled(x)' \/ InPage(x)'
      <3>1. x \in Range(page)
        BY <1>a, <1>1, <2>1 DEF InPage
      <3>2. CASE x = s
        BY <1>5, <3>2
      <3>3. CASE x \in Range(Tail(page))
        BY <1>2, <1>3, <3>3 DEF InPage
      <3> QED BY <1>4, <3>1, <3>2, <3>3
    <2> QED BY <1>1, <1>5, <2>1, KnownStays DEF CInv, Covered
  <1>8. LoopsInv'
    <2>1. LoopKnown(state)
      <3>1. Range(state.page) \subseteq Range(loop[l].page)
        BY <1>a, <1>3, <1>4
      <3> QED BY <1>3, <3>1 DEF CInv, LoopsInv, LoopKnown
    <2> QED BY <1>1, <1>2, <1>5, <2>1, KnownStays DEF CInv, LoopsInv
  <1>9. OnePage'
    BY <1>1, <1>2, <1>3 DEF CInv, OnePage
  <1> QED BY <1>5, <1>6, <1>7, <1>8, <1>9 DEF CInv

\* Trimming forgets, it adds nothing.
LEMMA TrimShrinks ==
  ASSUME NEW c \in Seq(Sig)
  PROVE  Range(Trimmed(c)) \subseteq Range(c)
  <1>1. CASE Len(c) > CACHE_MAX
    <2> DEFINE from == Len(c) - KEEP
               kept == SubSeq(c, from + 1, Len(c))
    <2>1. Trimmed(c) = kept /\ from \in Nat /\ Len(c) \in Nat /\ from <= Len(c)
      BY <1>1, ChannelClaimsAssumption DEF Trimmed
    <2>2. /\ DOMAIN kept = 1..(Len(c) - from) /\ DOMAIN c = 1..Len(c)
          /\ \A k \in 1..(Len(c) - from) : kept[k] = c[from + k]
      BY <2>1
    <2>3. \A k \in 1..(Len(c) - from) : from + k \in DOMAIN c
      BY <2>1
    <2> HIDE DEF kept, from
    <2> QED BY <2>1, <2>2, <2>3 DEF Range
  <1>2. CASE ~(Len(c) > CACHE_MAX)
    BY <1>2 DEF Trimmed
  <1> QED BY <1>1, <1>2

\* The other steps of a poll loop.
LEMMA PollKeepsCursor ==
  ASSUME IInv, CInv, NEW l \in Loop, PollStep(l)
  PROVE  CInv'
  <1>0. FeedTypes /\ CacheTypes /\ loop[l] \in LoopState
    BY DEF IInv, FeedTypes
  <1>1. loop[l].at # "off" => isRunning
    BY DEF CInv, OnePage
  <1>2. LoopKnown(loop[l]) /\ LedgerInv
    BY DEF CInv, LoopsInv
  <1>3. ASSUME Free PROVE \A s : ~InPage(s)
    BY <1>3 DEF Free, InPage
  <1>4. CASE PollStart(l)
    <2>1. 1 \in Program
      BY ChannelClaimsAssumption DEF Program
    <2>2. /\ loop' = [loop EXCEPT ![l] = At("asked", 1, lastSig[1], <<>>)]
          /\ Free /\ loop[l].at = "timer" /\ isRunning'
          /\ UNCHANGED <<ledger, lastSig, processed, asked, passedOver>>
      BY <1>1, <1>4 DEF PollStart, Ask, pollRest, seenVars, taskVars
    <2>3. LoopKnown(At("asked", 1, lastSig[1], <<>>))
      BY <1>0, <1>3, <2>1, <2>2, StatesKnown
    <2>4. At("asked", 1, lastSig[1], <<>>).at # "page"
      BY DEF At
    <2> QED BY <1>0, <2>2, <2>3, <2>4, LoopMoves
  <1>5. CASE PollError(l)
    <2>1. /\ loop' = [loop EXCEPT ![l] = Timer] /\ loop[l].at = "asked" /\ isRunning'
          /\ UNCHANGED <<ledger, lastSig, processed, asked, passedOver>>
      BY <1>1, <1>5 DEF PollError, Rearm, pollRest, seenVars, taskVars
    <2>2. Timer.at # "page"
      BY DEF Timer, At
    <2> QED BY <1>0, <2>1, <2>2, StatesKnown, LoopMoves
  <1>6. ASSUME NEW p \in Program, Answer(l, p) PROVE CInv'
    <2>1. PICK new, n, page :
            /\ new = Newer(p, loop[l].until)
            /\ n = IF Len(new) < LIMIT THEN Len(new) ELSE LIMIT
            /\ page = [k \in 1..n |-> new[Len(new) - k + 1]]
      OBVIOUS
    <2>2. PICK state : state = [loop[l] EXCEPT !.at = "answered", !.page = page]
      OBVIOUS
    <2>3. /\ loop' = [loop EXCEPT ![l].at = "answered", ![l].page = page]
          /\ loop[l].at = "asked" /\ loop[l].prog = p /\ isRunning'
          /\ UNCHANGED <<ledger, lastSig, processed, asked, passedOver>>
      BY <1>1, <1>6, <2>1 DEF Answer, pollRest, seenVars, taskVars
    <2>4. loop' = [loop EXCEPT ![l] = state]
      BY <1>0, <2>2, <2>3 DEF FeedTypes
    <2>5. /\ state.at = "answered" /\ state.prog = p /\ state.until = loop[l].until
          /\ state.page = page
      BY <1>0, <2>2, <2>3 DEF LoopState
    <2>6. Range(page) \subseteq Range(new)
      <3>1. new \in Seq(Sig)
        BY <1>0, <2>1, NewerType
      <3>2. n \in Nat /\ n <= Len(new) /\ Len(new) \in Nat /\ DOMAIN new = 1..Len(new)
        BY <2>1, <3>1, ChannelClaimsAssumption
      <3>3. \A k \in 1..n : Len(new) - k + 1 \in DOMAIN new
        BY <3>2
      <3> QED BY <2>1, <3>3 DEF Range
    <2>7. Range(new) \subseteq Range(ledger[p])
      BY <1>0, <1>2, <2>1, <2>3, NewerIsAfter DEF LoopKnown
    <2>8. LoopKnown(state)
      BY <1>2, <2>3, <2>5, <2>6, <2>7 DEF LoopKnown
    <2> QED BY <1>0, <2>3, <2>4, <2>5, <2>8, LoopMoves
  <1>7. CASE PageEnd(l)
    <2>1. /\ loop[l].at = "page" /\ loop[l].page = <<>> /\ isRunning'
          /\ UNCHANGED <<ledger, lastSig, asked, passedOver>>
      BY <1>1, <1>7 DEF PageEnd, pollRest, taskVars
    <2>2. CASE loop[l].prog < NumPrograms
      <3>1. PICK p \in Program : p = loop[l].prog + 1
        BY <1>0, <2>2, ChannelClaimsAssumption DEF LoopState, Program
      <3>2. /\ loop' = [loop EXCEPT ![l] = At("asked", p, lastSig[p], <<>>)]
            /\ UNCHANGED processed
        BY <1>7, <2>2, <3>1 DEF PageEnd, Ask
      <3>3. \A s : ~InPage(s)
        <4>1. Range(<<>>) = {}
          BY DEF Range
        <4> QED BY <2>1, <4>1 DEF InPage, CInv, OnePage
      <3>4. LoopKnown(At("asked", p, lastSig[p], <<>>))
        BY <1>0, <3>3, StatesKnown
      <3>5. At("asked", p, lastSig[p], <<>>).at # "page"
        BY DEF At
      <3> QED BY <1>0, <2>1, <3>2, <3>4, <3>5, LoopMoves
    <2>3. CASE ~(loop[l].prog < NumPrograms)
      <3>1. loop' = [loop EXCEPT ![l] = Timer] /\ processed' = Trimmed(processed)
        BY <1>7, <2>3 DEF PageEnd, Rearm
      <3>2. Timer.at # "page"
        BY DEF Timer, At
      <3>3. Range(processed') \subseteq Range(processed)
        BY <1>0, <3>1, TrimShrinks DEF CacheTypes
      <3> QED BY <1>0, <2>1, <3>1, <3>2, <3>3, StatesKnown, LoopMoves
    <2> QED BY <2>2, <2>3
  <1> QED BY <1>4, <1>5, <1>6, <1>7, ContinueKeepsCursor, PageNextKeepsCursor DEF PollStep

\* A confirmed transaction is behind every cursor.
LEMMA ConfirmKeepsCursor ==
  ASSUME IInv, CInv, NEW s \in Sig, Confirm(s)
  PROVE  CInv'
  <1>0. FeedTypes /\ \A l \in Loop : loop[l] \in LoopState
    BY DEF IInv, FeedTypes
  <1>1. /\ \A m \in Loop : loop[m].at # "page"
        /\ UNCHANGED <<isRunning, loop, lastSig, processed, asked, passedOver>>
    BY DEF Confirm, Free, wsVars, seenVars, taskVars
  <1>2. ASSUME NEW p \in Program
        PROVE  /\ DOMAIN ledger[p] \subseteq DOMAIN ledger'[p] /\ DOMAIN ledger[p] \subseteq Nat
               /\ \A k \in DOMAIN ledger[p] : ledger'[p][k] = ledger[p][k]
               /\ Range(ledger[p]) \subseteq Range(ledger'[p])
               /\ IsInjective(ledger'[p])
               /\ \A k \in DOMAIN ledger'[p] : k \notin DOMAIN ledger[p] =>
                      \A c \in Range(ledger[p]) : \E i \in 1..(k - 1) : ledger'[p][i] = c
    <2>1. ledger[p] \in Seq(Sig) /\ IsInjective(ledger[p]) /\ s \notin Range(ledger[p])
      BY <1>0 DEF FeedTypes, CInv, LedgerInv, Confirm
    <2>2. CASE s \in Touches[p]
      <3>1. ledger'[p] = Append(ledger[p], s)
        BY <2>2 DEF Confirm
      <3>2. PICK h, new : h = ledger[p] /\ new = ledger'[p]
        OBVIOUS
      <3>3. /\ DOMAIN new = 1..(Len(h) + 1) /\ DOMAIN h = 1..Len(h) /\ Len(h) \in Nat
            /\ \A k \in 1..Len(h) : new[k] = h[k]
            /\ new[Len(h) + 1] = s
        BY <2>1, <3>1, <3>2
      <3>4. IsInjective(new)
        BY <2>1, <3>2, <3>3 DEF IsInjective, Range
      <3>5. ASSUME NEW k \in DOMAIN new, k \notin DOMAIN h, NEW c \in Range(h)
            PROVE  \E i \in 1..(k - 1) : new[i] = c
        <4>1. PICK i \in 1..Len(h) : h[i] = c
          BY <3>3 DEF Range
        <4>2. k = Len(h) + 1
          BY <3>3, <3>5
        <4> QED BY <3>3, <4>1, <4>2
      <3>6. Range(h) \subseteq Range(new)
        BY <3>3 DEF Range
      <3> QED BY <3>2, <3>3, <3>4, <3>5, <3>6
    <2>3. CASE s \notin Touches[p]
      <3>1. ledger'[p] = ledger[p]
        BY <2>3 DEF Confirm
      <3> QED BY <2>1, <3>1
    <2> QED BY <2>2, <2>3
  <1>3. ASSUME NEW p \in Program, NEW c
        PROVE  /\ Known(p, c) => Known(p, c)'
               /\ \A k \in DOMAIN ledger[p] : After(p, c, k) => After(p, c, k)'
               /\ \A k \in DOMAIN ledger'[p] :
                      k \notin DOMAIN ledger[p] /\ Known(p, c) => After(p, c, k)'
    <2>1. Known(p, c) => Known(p, c)'
      BY <1>2 DEF Known
    <2>2. ASSUME NEW k \in DOMAIN ledger[p], After(p, c, k) PROVE After(p, c, k)'
      <3>1. CASE c = NoSig
        BY <3>1 DEF After
      <3>2. CASE c # NoSig
        <4>1. PICK i \in 1..(k - 1) : ledger[p][i] = c
          BY <2>2, <3>2 DEF After
        <4>2. i \in DOMAIN ledger[p]
          <5>1. ledger[p] \in Seq(Sig)
            BY <1>0 DEF FeedTypes
          <5> QED BY <4>1, <5>1
        <4> QED BY <1>2, <4>1, <4>2 DEF After
      <3> QED BY <3>1, <3>2
    <2>3. ASSUME NEW k \in DOMAIN ledger'[p], k \notin DOMAIN ledger[p], Known(p, c)
          PROVE  After(p, c, k)'
      BY <1>2, <2>3 DEF After, Known
    <2> QED BY <2>1, <2>2, <2>3
  <1>4. \A x : Handled(x) => Handled(x)'
    BY <1>1 DEF Handled
  <1>5. LedgerInv' /\ SeenInv' /\ OnePage'
    BY <1>1, <1>2 DEF CInv, LedgerInv, SeenInv, OnePage
  <1>6. LastInv'
    BY <1>1, <1>3 DEF CInv, LastInv
  <1>7. Covered'
    <2>1. ASSUME NEW p \in Program, NEW k \in DOMAIN ledger'[p]
          PROVE  After(p, lastSig[p], k)' \/ Handled(ledger[p][k])'
      <3>1. CASE k \in DOMAIN ledger[p]
        <4>1. After(p, lastSig[p], k) \/ Handled(ledger[p][k])
          BY <1>1, <3>1 DEF CInv, Covered, InPage
        <4>2. ledger'[p][k] = ledger[p][k] /\ lastSig'[p] = lastSig[p]
          BY <1>1, <1>2, <3>1
        <4>3. CASE After(p, lastSig[p], k)
          <5>1. \A c : c = lastSig[p] => After(p, c, k)'
            BY <1>3, <3>1, <4>3
          <5> QED BY <4>2, <5>1 DEF After
        <4>4. CASE Handled(ledger[p][k])
          BY <1>1, <4>2, <4>4 DEF Handled
        <4> QED BY <4>1, <4>3, <4>4
      <3>2. CASE k \notin DOMAIN ledger[p]
        <4>1. \A c : c = lastSig[p] => After(p, c, k)'
          BY <1>3, <3>2 DEF CInv, LastInv
        <4>2. lastSig'[p] = lastSig[p]
          BY <1>1
        <4> QED BY <4>1, <4>2 DEF After
      <3> QED BY <3>1, <3>2
    <2> QED BY <2>1 DEF Covered
  <1>8. LoopsInv'
    <2>1. ASSUME NEW l \in Loop PROVE LoopKnown(loop[l])'
      <3>1. PICK p, c, page : /\ p \in Program /\ p = loop[l].prog
                                 /\ c = loop[l].until /\ page = loop[l].page
        BY <1>0 DEF LoopState
      <3>2. /\ Known(p, c) /\ Range(page) \subseteq Range(ledger[p])
            /\ \A k \in DOMAIN ledger[p] : After(p, c, k) \/ Handled(ledger[p][k])
        BY <3>1 DEF CInv, LoopsInv, LoopKnown
      <3>3. Known(p, c)' /\ Range(page) \subseteq Range(ledger'[p])
        BY <1>2, <1>3, <3>1, <3>2
      <3>4. ASSUME NEW k \in DOMAIN ledger'[p]
            PROVE  After(p, c, k)' \/ Handled(ledger[p][k])'
        <4>1. CASE k \in DOMAIN ledger[p]
          <5>1. ledger'[p][k] = ledger[p][k]
            BY <1>2, <3>1, <4>1
          <5> QED BY <1>1, <1>3, <3>1, <3>2, <4>1, <5>1 DEF Handled
        <4>2. CASE k \notin DOMAIN ledger[p]
          BY <1>3, <3>1, <3>2, <4>2
        <4> QED BY <4>1, <4>2
      <3>5. p = loop'[l].prog /\ c = loop'[l].until /\ page = loop'[l].page
        BY <1>1, <3>1
      <3> QED BY <3>3, <3>4, <3>5 DEF LoopKnown, Known, After
    <2> QED BY <2>1 DEF LoopsInv
  <1> QED BY <1>5, <1>6, <1>7, <1>8 DEF CInv

\* A log event deals with its signature or leaves everything as it was.
LEMMA LogEventKeepsCursor ==
  ASSUME IInv, CInv, NEW p \in Program, NEW s \in Sig, LogEvent(p, s)
  PROVE  CInv'
  <1>0. QueueTypes /\ CacheTypes
    BY DEF IInv
  <1>1. UNCHANGED <<ledger, loop, lastSig, isRunning>>
    BY DEF LogEvent
  <1>2. CASE s \in Failed \cup Range(processed)
    <2>1. UNCHANGED <<processed, asked, passedOver>>
      BY <1>2 DEF LogEvent, seenVars, taskVars
    <2>2. Grows /\ SeenInv'
      BY <2>1 DEF Grows, SeenInv, CInv
    <2> QED BY <1>1, <2>2, SameLoops
  <1>3. CASE s \notin Failed \cup Range(processed)
    <2>1. /\ processed' = Trimmed(Append(processed, s))
          /\ IF s \in Social THEN Enqueue(s)
             ELSE passedOver' = passedOver \cup {s} /\ UNCHANGED taskVars
      BY <1>3 DEF LogEvent
    <2>2. Grows /\ s \in Range(asked') \cup passedOver'
      BY <1>0, <2>1, EnqueueHandles DEF Grows, taskVars
    <2>3. Range(processed') \subseteq Range(processed) \cup {s}
      <3>1. PICK all : all = Append(processed, s)
        OBVIOUS
      <3>2. /\ DOMAIN all = 1..(Len(processed) + 1) /\ DOMAIN processed = 1..Len(processed)
            /\ Len(processed) \in Nat /\ \A k \in 1..Len(processed) : all[k] = processed[k]
            /\ all[Len(processed) + 1] = s /\ all \in Seq(Sig)
        BY <1>0, <3>1 DEF CacheTypes
      <3>3. Range(all) \subseteq Range(processed) \cup {s}
        BY <3>2 DEF Range
      <3> QED BY <2>1, <3>1, <3>2, <3>3, TrimShrinks
    <2>4. SeenInv'
      BY <2>2, <2>3 DEF CInv, SeenInv, Grows
    <2> QED BY <1>1, <2>2, <2>4, SameLoops
  <1> QED BY <1>2, <1>3

\* startPolling() begins a round while no page is being worked off.
LEMMA StartPollingKeepsCursor ==
  ASSUME CInv, FeedTypes, Free, StartPolling, isRunning',
         UNCHANGED <<ledger, lastSig, processed, asked, passedOver>>
  PROVE  CInv'
  <1>1. CASE \A l \in Loop : loop[l].at # "off"
    <2>1. UNCHANGED loop
      BY <1>1 DEF StartPolling
    <2>2. Grows /\ SeenInv'
      BY DEF Grows, SeenInv, CInv
    <2> QED BY <2>1, <2>2, SameLoops
  <1>2. CASE ~ \A l \in Loop : loop[l].at # "off"
    <2>1. PICK l \in Loop : /\ loop[l].at = "off"
                            /\ loop' = [loop EXCEPT ![l] = At("asked", 1, lastSig[1], <<>>)]
      BY <1>2 DEF StartPolling
    <2>2. 1 \in Program
      BY ChannelClaimsAssumption DEF Program
    <2>3. LoopKnown(At("asked", 1, lastSig[1], <<>>))
      BY <2>2, StatesKnown DEF Free, InPage
    <2>4. At("asked", 1, lastSig[1], <<>>).at # "page"
      BY DEF At
    <2> QED BY <2>1, <2>3, <2>4, LoopMoves
  <1> QED BY <1>1, <1>2

\* Every step keeps what the cursors need.
LEMMA StepKeepsCursor == IInv /\ CInv /\ [Next]_vars => CInv'
  <1> SUFFICES ASSUME IInv, CInv, [Next]_vars PROVE CInv'
    OBVIOUS
  <1>0. FeedTypes
    BY DEF IInv
  <1>1. ASSUME UNCHANGED <<ledger, loop, lastSig, processed, asked, passedOver>>,
               isRunning' \/ UNCHANGED isRunning
        PROVE  CInv'
    <2>1. Grows /\ SeenInv'
      BY <1>1 DEF Grows, SeenInv, CInv
    <2> QED BY <1>1, <2>1, SameLoops
  <1>2. CASE Start
    <2>1. isRunning' /\ UNCHANGED <<ledger, lastSig, processed, asked, passedOver>>
      BY <1>2 DEF Start, seenVars, taskVars
    <2>2. Free
      BY <1>2 DEF Start, CInv, OnePage, Free
    <2>3. CASE UNCHANGED loop
      BY <1>1, <2>1, <2>3
    <2>4. CASE StartPolling
      BY <1>0, <2>1, <2>2, <2>4, StartPollingKeepsCursor
    <2> QED BY <1>2, <2>3, <2>4 DEF Start
  <1>3. CASE ReconnectFails
    <2>1. /\ Free /\ StartPolling /\ isRunning'
          /\ UNCHANGED <<ledger, lastSig, processed, asked, passedOver>>
      BY <1>3 DEF ReconnectFails, seenVars, taskVars
    <2> QED BY <1>0, <2>1, StartPollingKeepsCursor
  <1>4. CASE Reconnect \/ Silence
    BY <1>1, <1>4 DEF Reconnect, Silence, seenVars, taskVars
  <1>5. CASE StartTask \/ \E t \in running, found \in BOOLEAN : FinishTask(t, found)
    BY <1>1, <1>5 DEF StartTask, FinishTask, seenVars
  <1>6. CASE \E s \in Sig : Confirm(s)
    BY <1>6, ConfirmKeepsCursor
  <1>7. CASE \E p \in Program, s \in Sig : LogEvent(p, s)
    BY <1>7, LogEventKeepsCursor
  <1>8. CASE \E l \in Loop : PollStep(l)
    BY <1>8, PollKeepsCursor
  <1>9. CASE UNCHANGED vars
    BY <1>1, <1>9 DEF vars, seenVars, taskVars
  <1> QED BY <1>2, <1>3, <1>4, <1>5, <1>6, <1>7, <1>8, <1>9 DEF Next

\* The ledgers are empty and the cursors unset at first.
LEMMA InitCursor == Init => CInv
  <1> SUFFICES ASSUME Init PROVE CInv
    OBVIOUS
  <1>1. Range(<<>>) = {} /\ IsInjective(<<>>)
    BY DEF Range, IsInjective
  <1>2. /\ \A p \in Program : ledger[p] = <<>> /\ lastSig[p] = NoSig
        /\ \A l \in Loop : loop[l] = Off
        /\ processed = <<>>
    BY DEF Init
  <1>3. LedgerInv /\ SeenInv /\ LastInv /\ Covered
    BY <1>1, <1>2 DEF LedgerInv, SeenInv, LastInv, Covered, Known, After
  <1>4. LoopsInv /\ OnePage
    BY <1>1, <1>2 DEF LoopsInv, OnePage, LoopKnown, Off, At, Known, After
  <1> QED BY <1>3, <1>4 DEF CInv

\* However rounds overlap, fail or come from old answers, the cursor of a program
\* passes no transaction without a reason.
THEOREM ChannelCursorCoverage == Spec => []CursorCoverage
  <1>1. ASSUME IInv, CInv, NEW p \in Program, NEW k \in DOMAIN ledger[p],
               After(p, lastSig[p], k)
        PROVE  lastSig[p] \in Range(SubSeq(ledger[p], 1, k - 1)) \cup {NoSig}
    <2>1. PICK h : h = ledger[p] /\ h \in Seq(Sig)
      BY <1>1 DEF IInv, FeedTypes
    <2>2. k \in 1..Len(h) /\ Len(h) \in Nat
      BY <2>1
    <2> DEFINE old == SubSeq(h, 1, k - 1)
    <2>3. DOMAIN old = 1..(k - 1) /\ \A i \in 1..(k - 1) : old[i] = h[i]
      BY <2>1, <2>2
    <2> HIDE DEF old
    <2>4. lastSig[p] = NoSig \/ lastSig[p] \in Range(old)
      BY <1>1, <2>1, <2>3 DEF After, Range
    <2> QED BY <2>1, <2>4 DEF old
  <1>2. IInv /\ CInv => CursorCoverage
    BY <1>1 DEF CInv, Covered, CursorCoverage, Handled, InPage
  <1> QED BY <1>2, InitCursor, StepKeepsCursor, ChannelInvariant, PTL DEF Spec

=============================================================================
