-------------------------- MODULE EventMonitorsProofs --------------------------
(***************************************************************************)
(* Proofs about EventMonitors, for every kind of monitor and any numbers   *)
(* of transactions, polls and cache entries.  No event is announced twice  *)
(* for one stay of its transaction in the cache because every fetch under  *)
(* way has a mark of its own behind it: the credit of a signature covers   *)
(* the polls and the log handler that fetch it (Covered).  That a poll     *)
(* does not meet the signature it has just fetched in the rest of its page *)
(* again is part of the argument, and so is that of the page (PageFresh).  *)
(***************************************************************************)
EXTENDS EventMonitors, FiniteSetTheorems, WellFoundedInduction, TLAPS

Poll == [at : {"off", "timer", "asked", "answered", "fetch"}, until : Sig \cup {NoSig},
         page : Seq(Sig), sig : Sig \cup {NoSig}]

\* What a poll holds: a page without repetition, which no longer has the
\* signature that is fetched; that one is marked.
PageFresh(q) ==
    /\ Len(q.page) <= LIMIT /\ IsInjective(q.page)
    /\ q.at = "fetch" => q.sig \notin Range(q.page)
Marked(q) == q.at = "fetch" => q.sig \in taken /\ q.sig \in polled

\* The polls that fetch s, and the fetches of s under way.
Fetchers(p, s) == {i \in Slots : p[i].at = "fetch" /\ p[i].sig = s}
Pending(p, f, s) == Cardinality(Fetchers(p, s)) + (IF s \in f THEN 1 ELSE 0)

Covered == \A s \in Sig : credit[s] >= IF Channel THEN 0 ELSE Pending(poll, fetching, s)

PollsInv == /\ poll \in [Slots -> Poll]
            /\ \A i \in Slots : PageFresh(poll[i]) /\ Marked(poll[i])
            /\ fetching \subseteq taken
            /\ Channel => fetching = {}

\* The types of the variables apart from the polls and the books.
Shell == /\ kind \in Kinds /\ state \in {"new", "running", "stopped"}
         /\ ledger \in Seq(Sig) /\ IsInjective(ledger)
         /\ subscribed \in BOOLEAN /\ quiet \in BOOLEAN /\ interval \in BOOLEAN
         /\ heartbeats \in 0..2 /\ tracked \in BOOLEAN /\ (tracked => heartbeats > 0)
Seen == /\ lastSignature \in Sig \cup {NoSig}
        /\ processed \in Seq(Sig) /\ IsInjective(processed)
        /\ delivered \subseteq Sig /\ fetching \subseteq Carrying
        /\ skipped \subseteq Sig

\* The types of the books.
Books == /\ credit \in [Sig -> Int] /\ \A s \in Sig : credit[s] <= MaxCredit
         /\ taken \subseteq Sig /\ told \subseteq taken /\ lost \subseteq taken
         /\ polled \subseteq taken

IInv == Shell /\ Seen /\ Books /\ PollsInv /\ Covered /\ MarkedIsAnnounced

\* The invariant gives every variable its type.
LEMMA TypeFollows == IInv => TypeOK
  <1>1. PollsInv => \A i \in Slots :
           /\ poll[i].at \in {"off", "timer", "asked", "answered", "fetch"}
           /\ poll[i].until \in Sig \cup {NoSig} /\ poll[i].sig \in Sig \cup {NoSig}
           /\ poll[i].page \in Seq(Sig) /\ Len(poll[i].page) <= LIMIT
    BY DEF PollsInv, Poll, PageFresh
  <1> QED BY <1>1 DEF IInv, TypeOK, Shell, Seen, Books

------------------------------------------------------------------------------
(* Pages and caches *)

\* A set of natural numbers that is not empty has a least element.
LEMMA Least ==
    ASSUME NEW T \in SUBSET Nat, T # {}
    PROVE  \E n \in T : \A m \in T : n <= m
<1> DEFINE R == OpToRel(<, Nat)
<1>1. IsWellFoundedOn(R, Nat)
  BY NatLessThanWellFounded
<1>2. \A x, y \in Nat : x < y => <<x, y>> \in R
  BY DEF OpToRel
<1> HIDE DEF R
<1>3. \E n \in T : \A m \in T : ~ (<<m, n>> \in R)
  BY <1>1, WFMin
<1>4. PICK n \in T : \A m \in T : ~ (<<m, n>> \in R)
  BY <1>3
<1>5. ASSUME NEW m \in T PROVE n <= m
  <2>1. m \in Nat /\ n \in Nat /\ ~(m < n)
    BY <1>2, <1>4
  <2> QED BY <2>1
<1> QED BY <1>5

\* A part of a sequence without repetition has none.
LEMMA PartFresh ==
  ASSUME NEW q \in Seq(Sig), IsInjective(q), NEW a \in Nat \ {0}, NEW b \in 0..Len(q)
  PROVE  /\ SubSeq(q, a, b) \in Seq(Sig) /\ IsInjective(SubSeq(q, a, b))
         /\ Len(SubSeq(q, a, b)) <= Len(q)
         /\ \A j \in DOMAIN SubSeq(q, a, b) :
                (a + j) - 1 \in a..b /\ SubSeq(q, a, b)[j] = q[(a + j) - 1]
  <1> DEFINE t == SubSeq(q, a, b)
  <1>1. /\ t \in Seq(Sig) /\ Len(t) = (IF a <= b THEN (b - a) + 1 ELSE 0)
        /\ DOMAIN t = 1..Len(t) /\ DOMAIN q = 1..Len(q) /\ Len(q) \in Nat
    OBVIOUS
  <1>2. \A j \in 1..Len(t) : t[j] = q[(a + j) - 1]
    OBVIOUS
  <1> HIDE DEF t
  <1>3. ASSUME NEW j \in 1..Len(t) PROVE (a + j) - 1 \in a..b /\ (a + j) - 1 \in DOMAIN q
    BY <1>1
  <1>4. IsInjective(t)
    <2> SUFFICES ASSUME NEW j \in 1..Len(t), NEW k \in 1..Len(t), t[j] = t[k] PROVE j = k
      BY <1>1 DEF IsInjective
    <2>1. (a + j) - 1 = (a + k) - 1
      BY <1>2, <1>3 DEF IsInjective
    <2> QED BY <2>1
  <1>5. Len(t) <= Len(q)
    BY <1>1
  <1>6. \A j \in DOMAIN t : (a + j) - 1 \in a..b /\ t[j] = q[(a + j) - 1]
    BY <1>1, <1>2, <1>3
  <1> QED BY <1>1, <1>4, <1>5, <1>6 DEF t

\* The transactions after a signature, in the order of the ledger.
LEMMA NewerFresh ==
  ASSUME TypeOK, NEW u
  PROVE  Newer(u) \in Seq(Sig) /\ IsInjective(Newer(u))
  <1> DEFINE from == IF u \in Range(ledger) THEN CHOOSE k \in DOMAIN ledger : ledger[k] = u ELSE 0
  <1>1. /\ ledger \in Seq(Sig) /\ IsInjective(ledger) /\ DOMAIN ledger = 1..Len(ledger)
        /\ Len(ledger) \in Nat
    BY DEF TypeOK
  <1>2. from \in 0..Len(ledger)
    BY <1>1 DEF Range
  <1>3. Newer(u) = SubSeq(ledger, from + 1, Len(ledger))
    BY DEF Newer
  <1> HIDE DEF from
  <1>4. from + 1 \in Nat \ {0} /\ Len(ledger) \in 0..Len(ledger)
    BY <1>1, <1>2
  <1> QED BY <1>1, <1>3, <1>4, PartFresh

\* A page is a sequence read backwards, in whole or in part.
LEMMA BackwardFresh ==
  ASSUME NEW q \in Seq(Sig), IsInjective(q), NEW n \in 0..Len(q)
  PROVE  LET b == [k \in 1..n |-> q[(Len(q) - k) + 1]]
         IN b \in Seq(Sig) /\ IsInjective(b) /\ Len(b) = n
  <1> DEFINE b == [k \in 1..n |-> q[(Len(q) - k) + 1]]
  <1>1. DOMAIN q = 1..Len(q) /\ Len(q) \in Nat /\ n \in Nat /\ DOMAIN b = 1..n
    OBVIOUS
  <1>2. ASSUME NEW k \in 1..n PROVE (Len(q) - k) + 1 \in DOMAIN q
    BY <1>1
  <1>3. b \in Seq(Sig) /\ Len(b) = n
    BY <1>1, <1>2
  <1>4. IsInjective(b)
    <2> SUFFICES ASSUME NEW j \in 1..n, NEW k \in 1..n, b[j] = b[k] PROVE j = k
      BY <1>1 DEF IsInjective
    <2>1. (Len(q) - j) + 1 = (Len(q) - k) + 1
      BY <1>2 DEF IsInjective
    <2> QED BY <1>1, <2>1
  <1> QED BY <1>3, <1>4

\* A signature appended to a cache that has none twice.
LEMMA AppendFresh ==
  ASSUME NEW q \in Seq(Sig), IsInjective(q), NEW s \in Sig, s \notin Range(q)
  PROVE  Append(q, s) \in Seq(Sig) /\ IsInjective(Append(q, s))
  <1> DEFINE t == Append(q, s)
             n == Len(q)
  <1>1. t \in Seq(Sig) /\ Len(t) = n + 1 /\ n \in Nat /\ DOMAIN t = 1..(n + 1) /\ DOMAIN q = 1..n
    OBVIOUS
  <1>2. (\A k \in 1..n : t[k] = q[k]) /\ t[n + 1] = s
    OBVIOUS
  <1> HIDE DEF t, n
  <1>3. \A k \in 1..n : t[k] # s
    BY <1>1, <1>2 DEF Range
  <1>4. \A k \in 1..(n + 1) : k \in 1..n \/ k = n + 1
    BY <1>1
  <1>5. IsInjective(t)
    BY <1>1, <1>2, <1>3, <1>4 DEF IsInjective
  <1> QED BY <1>1, <1>5 DEF t

\* trimCache() and markProcessed() keep a cache without repetition.
LEMMA CacheKeeps ==
  ASSUME NEW q \in Seq(Sig), IsInjective(q)
  PROVE  /\ Trimmed(q) \in Seq(Sig) /\ IsInjective(Trimmed(q))
         /\ Evicted(q) \in Seq(Sig) /\ IsInjective(Evicted(q))
         /\ \A s \in Sig, b \in BOOLEAN : Added(q, s, b) \in Seq(Sig) /\ IsInjective(Added(q, s, b))
  <1>1. /\ CACHE_MAX \in Nat /\ KEEP \in Nat /\ EVICT \in Nat
        /\ KEEP <= CACHE_MAX /\ EVICT <= CACHE_MAX
    BY EventMonitorsAssumption
  <1>2. ASSUME NEW r \in Seq(Sig), IsInjective(r)
        PROVE  Trimmed(r) \in Seq(Sig) /\ IsInjective(Trimmed(r))
    <2>1. CASE Len(r) > CACHE_MAX
      <3>1. (Len(r) - KEEP) + 1 \in Nat \ {0} /\ Len(r) \in 0..Len(r)
        BY <1>1, <2>1
      <3> QED BY <1>2, <2>1, <3>1, PartFresh DEF Trimmed
    <2> QED BY <1>2, <2>1 DEF Trimmed
  <1>3. ASSUME NEW r \in Seq(Sig), IsInjective(r)
        PROVE  Evicted(r) \in Seq(Sig) /\ IsInjective(Evicted(r))
    <2>1. CASE Len(r) > CACHE_MAX
      <3>1. EVICT + 1 \in Nat \ {0} /\ Len(r) \in 0..Len(r)
        BY <1>1
      <3> QED BY <1>3, <2>1, <3>1, PartFresh DEF Evicted
    <2> QED BY <1>3, <2>1 DEF Evicted
  <1>4. ASSUME NEW s \in Sig, NEW b \in BOOLEAN
        PROVE  Added(q, s, b) \in Seq(Sig) /\ IsInjective(Added(q, s, b))
    <2> DEFINE all == IF s \in Range(q) THEN q ELSE Append(q, s)
    <2>1. all \in Seq(Sig) /\ IsInjective(all)
      BY AppendFresh
    <2>2. Added(q, s, b) = IF ~Channel THEN Evicted(all) ELSE IF b THEN all ELSE Trimmed(all)
      BY DEF Added
    <2> HIDE DEF all
    <2> QED BY <1>2, <1>3, <2>1, <2>2
  <1> QED BY <1>2, <1>3, <1>4

------------------------------------------------------------------------------
(* Counting fetches *)

\* At most one fetch per slot and one of the log handler: fewer than the bound.
LEMMA PendingBounded ==
  ASSUME NEW p, NEW f, NEW s
  PROVE  /\ IsFiniteSet(Fetchers(p, s)) /\ Cardinality(Fetchers(p, s)) \in Nat
         /\ Pending(p, f, s) \in Nat /\ Pending(p, f, s) <= MaxCredit
  <1>1. Fetchers(p, s) \subseteq Slots
    BY DEF Fetchers
  <1>2. IsFiniteSet(Slots) /\ MaxCredit \in Nat /\ MaxCredit > Cardinality(Slots)
    BY EventMonitorsAssumption
  <1>3. IsFiniteSet(Fetchers(p, s)) /\ Cardinality(Fetchers(p, s)) <= Cardinality(Slots)
    BY <1>1, <1>2, FS_Subset
  <1>4. Cardinality(Fetchers(p, s)) \in Nat /\ Cardinality(Slots) \in Nat
    BY <1>2, <1>3, FS_CardinalityType
  <1> QED BY <1>2, <1>3, <1>4 DEF Pending

\* Whether a poll fetches s, as a number.
Fetches(q, s) == IF q.at = "fetch" /\ q.sig = s THEN 1 ELSE 0

\* How the count changes with the poll of one slot.
LEMMA FetchersMove ==
  ASSUME NEW p \in [Slots -> Poll], NEW i \in Slots, NEW q \in Poll, NEW s
  PROVE  Cardinality(Fetchers([p EXCEPT ![i] = q], s)) =
             Cardinality(Fetchers(p, s)) + Fetches(q, s) - Fetches(p[i], s)
  <1> DEFINE p1 == [p EXCEPT ![i] = q]
             was == p[i].at = "fetch" /\ p[i].sig = s
             is == q.at = "fetch" /\ q.sig = s
             F == Fetchers(p, s)
  <1>1. IsFiniteSet(F) /\ Cardinality(F) \in Nat
    BY PendingBounded
  <1>2. Fetchers(p1, s) = IF is THEN F \cup {i} ELSE F \ {i}
    BY DEF Fetchers
  <1>3. i \in F <=> was
    BY DEF Fetchers
  <1>4. Fetches(q, s) = (IF is THEN 1 ELSE 0) /\ Fetches(p[i], s) = (IF was THEN 1 ELSE 0)
    BY DEF Fetches
  <1> HIDE DEF F, was, is, p1
  <1>5. Cardinality(F \cup {i}) = IF i \in F THEN Cardinality(F) ELSE Cardinality(F) + 1
    BY <1>1, FS_AddElement
  <1>6. Cardinality(F \ {i}) = IF i \in F THEN Cardinality(F) - 1 ELSE Cardinality(F)
    BY <1>1, FS_RemoveElement
  <1>7. Cardinality(Fetchers(p1, s)) = Cardinality(F) + Fetches(q, s) - Fetches(p[i], s)
    BY <1>1, <1>2, <1>3, <1>4, <1>5, <1>6
  <1> QED BY <1>7 DEF F, p1

\* Polls that change without a fetch on either side leave the fetches as they are.
LEMMA QuietPolls ==
  ASSUME IInv, poll' \in [Slots -> Poll], \A i \in Slots : PageFresh(poll'[i]),
         \A i \in Slots : poll'[i] = poll[i] \/ (poll[i].at # "fetch" /\ poll'[i].at # "fetch"),
         UNCHANGED <<kind, fetching, history>>
  PROVE  PollsInv' /\ Covered' /\ MarkedIsAnnounced'
  <1>1. /\ kind' = kind /\ fetching' = fetching /\ credit' = credit /\ taken' = taken
        /\ told' = told /\ lost' = lost /\ polled' = polled
    BY DEF history
  <1>2. \A i \in Slots : poll'[i].at = "fetch" => poll'[i] = poll[i]
    OBVIOUS
  <1>3. \A i \in Slots : poll[i].at = "fetch" => poll'[i] = poll[i]
    OBVIOUS
  <1>4. \A s : Fetchers(poll', s) = Fetchers(poll, s)
    BY <1>2, <1>3 DEF Fetchers
  <1>5. PollsInv'
    BY <1>1, <1>2 DEF IInv, PollsInv, Marked, Channel
  <1>6. Covered'
    BY <1>1, <1>4 DEF IInv, Covered, Pending, Channel
  <1>7. InFlight' = InFlight
    BY <1>1, <1>2, <1>3 DEF InFlight
  <1> QED BY <1>1, <1>5, <1>6, <1>7 DEF IInv, MarkedIsAnnounced, Channel

\* A poll is asked when a timer or the start of the polling says so.
LEMMA AskedQuiet ==
  ASSUME IInv, NEW i \in Slots, poll[i].at # "fetch", NEW q \in Poll,
         q.at # "fetch", PageFresh(q), poll' = [poll EXCEPT ![i] = q]
  PROVE  /\ poll' \in [Slots -> Poll] /\ \A j \in Slots : PageFresh(poll'[j])
         /\ \A j \in Slots : poll'[j] = poll[j] \/ (poll[j].at # "fetch" /\ poll'[j].at # "fetch")
  <1>1. poll \in [Slots -> Poll] /\ \A j \in Slots : PageFresh(poll[j])
    BY DEF IInv, PollsInv
  <1>2. \A j \in Slots : poll'[j] = IF j = i THEN q ELSE poll[j]
    BY <1>1
  <1> QED BY <1>1, <1>2

\* The polls that have no page yet.
LEMMA EmptyPolls ==
  ASSUME NEW w \in {"off", "timer", "asked"}, NEW u \in Sig \cup {NoSig}
  PROVE  /\ At(w, u, <<>>, NoSig) \in Poll /\ At(w, u, <<>>, NoSig).at = w
         /\ PageFresh(At(w, u, <<>>, NoSig))
  <1>1. <<>> \in Seq(Sig) /\ Len(<<>>) = 0 /\ DOMAIN <<>> = {} /\ LIMIT \in Nat
    BY EventMonitorsAssumption
  <1>2. IsInjective(<<>>)
    BY <1>1 DEF IsInjective
  <1> QED BY <1>1, <1>2 DEF At, Poll, PageFresh

\* startPolling() in any of its callers.
LEMMA StartPollingKeeps ==
  ASSUME IInv, StartPolling
  PROVE  /\ poll' \in [Slots -> Poll] /\ \A j \in Slots : PageFresh(poll'[j])
         /\ \A j \in Slots : poll'[j] = poll[j] \/ (poll[j].at # "fetch" /\ poll'[j].at # "fetch")
         /\ interval' \in BOOLEAN
  <1>1. interval' \in BOOLEAN
    BY DEF StartPolling, Channel
  <1>2. CASE \A i \in Slots : poll[i].at # "off"
    <2>1. poll' = poll
      BY <1>2 DEF StartPolling
    <2> QED BY <1>1, <2>1 DEF IInv, PollsInv
  <1>3. CASE ~\A i \in Slots : poll[i].at # "off"
    <2>1. PICK i : /\ i \in Slots /\ poll[i].at = "off"
                   /\ poll' = [poll EXCEPT ![i] = At("asked", lastSignature, <<>>, NoSig)]
      BY <1>3 DEF StartPolling
    <2>2. lastSignature \in Sig \cup {NoSig}
      BY TypeFollows DEF TypeOK
    <2>3. /\ At("asked", lastSignature, <<>>, NoSig) \in Poll
          /\ At("asked", lastSignature, <<>>, NoSig).at = "asked"
          /\ PageFresh(At("asked", lastSignature, <<>>, NoSig))
      BY <2>2, EmptyPolls
    <2> QED BY <1>1, <2>1, <2>3, AskedQuiet
  <1> QED BY <1>2, <1>3

------------------------------------------------------------------------------
(* poll() goes on *)

\* What GoOn() leaves: the poll q of slot i, which fetches the signature of nxt or
\* has ended, and the books with the marks of nxt.
Went(i, q, nxt, rest, new, out, gone) ==
    /\ q \in Poll /\ PageFresh(q) /\ nxt \in SUBSET Sig
    /\ \/ q.at # "fetch" /\ nxt = {}
       \/ q.at = "fetch" /\ nxt = {q.sig} /\ q.sig \in Range(rest)
    /\ poll' = [poll EXCEPT ![i] = q]
    /\ processed' \in Seq(Sig) /\ IsInjective(processed')
    /\ Account(new \cup nxt, out, gone, nxt)

\* A stretch of a poll's loop is such a step.
LEMMA GoOnGoes ==
  ASSUME NEW i \in Slots, NEW rest \in Seq(Sig), IsInjective(rest), Len(rest) <= LIMIT,
         NEW cache \in Seq(Sig), IsInjective(cache), NEW new, NEW out, NEW gone,
         GoOn(i, rest, cache, new, out, gone)
  PROVE  \E q, nxt : Went(i, q, nxt, rest, new, out, gone)
  <1> DEFINE open == Open(rest, cache)
  <1>1. /\ DOMAIN rest = 1..Len(rest) /\ Len(rest) \in Nat /\ LIMIT \in Nat
        /\ open \subseteq DOMAIN rest
    BY EventMonitorsAssumption DEF Open
  <1>2. CASE open = {}
    <2>1. /\ poll' = [poll EXCEPT ![i] = AfterPoll]
          /\ processed' = IF Channel THEN Trimmed(cache) ELSE cache
          /\ Account(new, out, gone, {})
      BY <1>2 DEF GoOn
    <2>2. NoSig \in Sig \cup {NoSig} /\ AfterPoll \in {Timer, Off}
      BY DEF AfterPoll
    <2>3. AfterPoll \in Poll /\ PageFresh(AfterPoll) /\ AfterPoll.at # "fetch"
      <3>1. Timer \in Poll /\ PageFresh(Timer) /\ Timer.at = "timer"
        BY <2>2, EmptyPolls DEF Timer
      <3>2. Off \in Poll /\ PageFresh(Off) /\ Off.at = "off"
        BY <2>2, EmptyPolls DEF Off
      <3> QED BY <2>2, <3>1, <3>2
    <2>4. processed' \in Seq(Sig) /\ IsInjective(processed')
      BY <2>1, CacheKeeps
    <2>5. new \cup {} = new
      OBVIOUS
    <2>6. Went(i, AfterPoll, {}, rest, new, out, gone)
      BY <2>1, <2>3, <2>4, <2>5 DEF Went
    <2> QED BY <2>6
  <1>3. CASE open # {}
    <2> DEFINE k == CHOOSE k \in open : \A j \in open : k <= j
    <2>1. \E n \in open : \A j \in open : n <= j
      <3>1. open \in SUBSET Nat
        BY <1>1
      <3> QED BY <1>3, <3>1, Least
    <2>2. k \in open
      BY <2>1
    <2> DEFINE s == rest[k]
               q == At("fetch", NoSig, SubSeq(rest, k + 1, Len(rest)), s)
    <2>3. /\ poll' = [poll EXCEPT ![i] = q]
          /\ processed' = Added(cache, s, TRUE)
          /\ Account(new \cup ({s} \ Range(cache)), out, gone, {s})
      BY <1>3 DEF GoOn
    <2> HIDE DEF k, open
    <2>4. k \in 1..Len(rest) /\ k + 1 \in Nat \ {0} /\ Len(rest) \in 0..Len(rest)
      BY <1>1, <2>2
    <2>5. s \in Sig /\ s \in Range(rest) /\ s \notin Range(cache)
      BY <1>1, <2>2, <2>4 DEF Open, open, Range
    <2> DEFINE page == SubSeq(rest, k + 1, Len(rest))
    <2>6. /\ page \in Seq(Sig) /\ IsInjective(page) /\ Len(page) <= Len(rest)
          /\ \A j \in DOMAIN page : /\ ((k + 1) + j) - 1 \in (k + 1)..Len(rest)
                                    /\ page[j] = rest[((k + 1) + j) - 1]
      BY <2>4, PartFresh
    <2> HIDE DEF page
    <2>7. s \notin Range(page)
      <3>1. ASSUME NEW j \in DOMAIN page PROVE page[j] # s
        <4>1. ((k + 1) + j) - 1 \in DOMAIN rest /\ ((k + 1) + j) - 1 # k /\ k \in DOMAIN rest
          BY <1>1, <2>4, <2>6
        <4>2. rest[((k + 1) + j) - 1] # rest[k]
          BY <4>1 DEF IsInjective
        <4> QED BY <2>6, <4>2
      <3> QED BY <3>1 DEF Range
    <2>8. Len(page) <= LIMIT
      BY <1>1, <2>6
    <2>9. q.at = "fetch" /\ q.page = page /\ q.sig = s /\ q \in Poll
      BY <2>5, <2>6 DEF At, Poll, page
    <2>10. PageFresh(q)
      BY <2>6, <2>7, <2>8, <2>9 DEF PageFresh
    <2>11. processed' \in Seq(Sig) /\ IsInjective(processed')
      BY <2>3, <2>5, CacheKeeps
    <2>12. {s} \ Range(cache) = {s}
      BY <2>5
    <2> HIDE DEF q
    <2>13. Went(i, q, {s}, rest, new, out, gone)
      BY <2>3, <2>5, <2>9, <2>10, <2>11, <2>12 DEF Went
    <2> QED BY <2>13
  <1> QED BY <1>2, <1>3

\* The poll of slot i goes on: done is the signature it had fetched, if any.
Done(q) == IF q.at = "fetch" THEN {q.sig} ELSE {}

\* The books stay balanced when it does. In the monitor bot it announces at most
\* what it had fetched; in the channel bot, only what it marks anew.
LEMMA WentCovers ==
  ASSUME IInv, NEW i \in Slots, NEW q, NEW nxt, NEW rest, NEW new \in SUBSET Sig,
         NEW out \in SUBSET Sig, NEW gone,
         Went(i, q, nxt, rest, new, out, gone), UNCHANGED <<kind, fetching>>,
         Done(poll[i]) \cap Range(rest) = {},
         IF Channel THEN out \subseteq new ELSE out \subseteq Done(poll[i])
  PROVE  Covered'
  <1>1. /\ credit' = Credits(new \cup nxt, out) /\ poll' = [poll EXCEPT ![i] = q] /\ q \in Poll
        /\ kind' = kind /\ fetching' = fetching /\ poll \in [Slots -> Poll]
    BY DEF Went, Account, IInv, PollsInv
  <1>2. MaxCredit \in Nat /\ MaxCredit > 0
    BY EventMonitorsAssumption, FS_CardinalityType
  <1> SUFFICES ASSUME NEW s \in Sig
               PROVE  credit'[s] >= IF Channel THEN 0 ELSE Pending(poll', fetching, s)
    BY <1>1 DEF Covered, Channel
  <1> DEFINE up == IF s \in new \cup nxt /\ credit[s] < MaxCredit THEN credit[s] + 1 ELSE credit[s]
  <1>3. credit[s] \in Int /\ credit[s] <= MaxCredit
    BY TypeFollows DEF TypeOK
  <1>4. credit'[s] = IF s \in out THEN up - 1 ELSE up
    BY <1>1 DEF Credits
  <1>5. CASE Channel
    <2>1. credit[s] >= 0
      BY <1>5 DEF IInv, Covered
    <2>2. s \in out => s \in new
      BY <1>5
    <2>3. s \in out => up >= 1
      BY <1>2, <1>3, <2>1, <2>2
    <2>4. up >= 0 /\ up \in Int
      BY <1>3, <2>1
    <2> HIDE DEF up
    <2> QED BY <1>4, <1>5, <2>3, <2>4
  <1>6. CASE ~Channel
    <2> DEFINE old == Pending(poll, fetching, s)
               more == Pending(poll', fetching, s)
               was == poll[i].at = "fetch" /\ poll[i].sig = s
               is == q.at = "fetch" /\ q.sig = s
    <2>1. credit[s] >= old
      BY <1>6 DEF IInv, Covered
    <2>2. old \in Nat /\ more \in Nat /\ old <= MaxCredit /\ more <= MaxCredit
      BY PendingBounded
    <2>3. Cardinality(Fetchers(poll, s)) \in Nat /\ Cardinality(Fetchers(poll', s)) \in Nat
      BY PendingBounded
    <2>4. Cardinality(Fetchers(poll', s)) =
              Cardinality(Fetchers(poll, s)) + Fetches(q, s) - Fetches(poll[i], s)
      BY <1>1, FetchersMove
    <2>5. more = old + (IF is THEN 1 ELSE 0) - (IF was THEN 1 ELSE 0)
      BY <2>3, <2>4 DEF Pending, Fetches
    <2>6. is <=> s \in nxt
      BY DEF Went
    <2>7. was <=> s \in Done(poll[i])
      BY DEF Done
    <2>8. is => ~was
      <3>1. is => s \in Range(rest)
        BY DEF Went
      <3> QED BY <2>7, <3>1
    <2>9. s \in out => was
      BY <1>6, <2>7
    <2> HIDE DEF old, more, was, is
    <2>10. CASE is
      <3>1. up = IF credit[s] < MaxCredit THEN credit[s] + 1 ELSE credit[s]
        BY <2>6, <2>10
      <3>2. ~was /\ s \notin out /\ more = old + 1
        BY <2>2, <2>5, <2>8, <2>9, <2>10
      <3>3. credit'[s] = up
        BY <1>4, <3>2
      <3> HIDE DEF up
      <3>4. credit'[s] >= more
        BY <1>2, <1>3, <2>1, <2>2, <3>1, <3>2, <3>3
      <3> QED BY <1>6, <3>4 DEF more
    <2>11. CASE ~is
      <3>1. up >= credit[s] /\ up \in Int
        BY <1>3
      <3> HIDE DEF up
      <3>2. more = old - (IF was THEN 1 ELSE 0)
        BY <2>2, <2>5, <2>11
      <3>3. credit'[s] >= credit[s] - (IF was THEN 1 ELSE 0)
        BY <1>3, <1>4, <2>9, <3>1
      <3>4. credit'[s] \in Int
        BY <1>4, <3>1
      <3>5. credit'[s] >= more
        BY <1>3, <2>1, <2>2, <3>2, <3>3, <3>4
      <3> QED BY <1>6, <3>5 DEF more
    <2> QED BY <2>10, <2>11
  <1> QED BY <1>5, <1>6

\* So do the fetches: they are marked, and a poll of another slot keeps its own.
LEMMA WentPolls ==
  ASSUME IInv, NEW i \in Slots, NEW q, NEW nxt, NEW rest, NEW new, NEW out, NEW gone,
         Went(i, q, nxt, rest, new, out, gone), UNCHANGED <<kind, fetching>>
  PROVE  PollsInv'
  <1>1. /\ poll' = [poll EXCEPT ![i] = q] /\ q \in Poll /\ PageFresh(q)
        /\ kind' = kind /\ fetching' = fetching
        /\ taken' = taken \cup (new \cup nxt) /\ polled' = polled \cup nxt
        /\ q.at = "fetch" => nxt = {q.sig}
    BY DEF Went, Account
  <1>2. poll \in [Slots -> Poll] /\ \A j \in Slots : poll'[j] = IF j = i THEN q ELSE poll[j]
    BY <1>1 DEF IInv, PollsInv
  <1>3. poll' \in [Slots -> Poll]
    BY <1>1, <1>2
  <1>4. \A j \in Slots : PageFresh(poll'[j])
    BY <1>1, <1>2 DEF IInv, PollsInv
  <1>5. \A j \in Slots :
            poll'[j].at = "fetch" => poll'[j].sig \in taken' /\ poll'[j].sig \in polled'
    BY <1>1, <1>2 DEF IInv, PollsInv, Marked
  <1>6. fetching' \subseteq taken' /\ (Channel' => fetching' = {})
    BY <1>1 DEF IInv, PollsInv, Channel
  <1> QED BY <1>3, <1>4, <1>5, <1>6 DEF PollsInv, Marked

\* And no marked event is lost sight of, when what the poll had fetched is
\* announced, was not found, or is the channel bot's.
LEMMA WentAnnounces ==
  ASSUME IInv, NEW i \in Slots, NEW q, NEW nxt, NEW rest, NEW new, NEW out, NEW gone,
         Went(i, q, nxt, rest, new, out, gone), UNCHANGED <<kind, fetching>>,
         new \cap Relevant \subseteq out,
         Channel \/ Done(poll[i]) \cap Relevant \subseteq out \cup gone
  PROVE  MarkedIsAnnounced'
  <1>1. /\ poll' = [poll EXCEPT ![i] = q] /\ q \in Poll
        /\ kind' = kind /\ fetching' = fetching
        /\ taken' = taken \cup (new \cup nxt) /\ polled' = polled \cup nxt
        /\ told' = told \cup out /\ lost' = lost \cup gone
        /\ (q.at # "fetch" /\ nxt = {}) \/ (q.at = "fetch" /\ nxt = {q.sig})
    BY DEF Went, Account
  <1>2. poll \in [Slots -> Poll] /\ \A j \in Slots : poll'[j] = IF j = i THEN q ELSE poll[j]
    BY <1>1 DEF IInv, PollsInv
  <1>3. nxt \subseteq InFlight'
    BY <1>1, <1>2 DEF InFlight
  <1>4. InFlight \subseteq InFlight' \cup Done(poll[i])
    BY <1>1, <1>2 DEF InFlight, Done
  <1>5. ASSUME NEW j \in Slots, poll[j].at = "fetch" PROVE poll[j].sig \in polled
    BY <1>5 DEF IInv, PollsInv, Marked
  <1>6. Channel => Done(poll[i]) \subseteq polled
    BY <1>5 DEF Done
  <1> SUFFICES ASSUME NEW s \in taken' \cap Relevant
               PROVE  s \in told' \cup InFlight' \cup lost' \/ (Channel /\ s \in polled')
    BY <1>1 DEF MarkedIsAnnounced, Channel
  <1>7. CASE s \in nxt
    BY <1>3, <1>7
  <1>8. CASE s \in new
    BY <1>1, <1>8
  <1>9. CASE s \in taken
    <2>1. s \in told \cup InFlight \cup lost \/ (Channel /\ s \in polled)
      BY <1>9 DEF IInv, MarkedIsAnnounced
    <2>2. CASE s \in Done(poll[i])
      BY <1>1, <1>6, <2>2
    <2> QED BY <1>1, <1>4, <2>1, <2>2
  <1> QED BY <1>1, <1>7, <1>8, <1>9

------------------------------------------------------------------------------
(* The steps *)

\* How an entry keeps the types of the books.
LEMMA AccountTypes ==
  ASSUME Books, NEW new \in SUBSET Sig, NEW out \in SUBSET (taken \cup new),
         NEW gone \in SUBSET taken, NEW byPoll \in SUBSET new, Account(new, out, gone, byPoll)
  PROVE  Books'
  <1>1. /\ credit' = Credits(new, out) /\ taken' = taken \cup new /\ told' = told \cup out
        /\ lost' = lost \cup gone /\ polled' = polled \cup byPoll
    BY DEF Account
  <1>2. MaxCredit \in Nat
    BY EventMonitorsAssumption
  <1>3. credit' \in [Sig -> Int] /\ \A s \in Sig : credit'[s] <= MaxCredit
    BY <1>1, <1>2 DEF Books, Credits
  <1> QED BY <1>1, <1>3 DEF Books

\* Steps that mark, fetch and announce nothing.
Calm == UNCHANGED <<kind, fetching, history, processed, skipped>>

\* Such steps keep what is said of the marked and announced signatures.
LEMMA CalmKeeps ==
  ASSUME IInv, Calm, Shell', lastSignature' = lastSignature, delivered' = delivered,
         poll' \in [Slots -> Poll], \A i \in Slots : PageFresh(poll'[i]),
         \A i \in Slots : poll'[i] = poll[i] \/ (poll[i].at # "fetch" /\ poll'[i].at # "fetch")
  PROVE  IInv'
  <1>1. PollsInv' /\ Covered' /\ MarkedIsAnnounced'
    BY QuietPolls DEF Calm
  <1>2. Seen' /\ Books'
    BY DEF IInv, Calm, Seen, Books, history
  <1> QED BY <1>1, <1>2 DEF IInv

\* Polls that do not change are calm.
LEMMA SamePolls ==
  ASSUME IInv, poll' = poll
  PROVE  /\ poll' \in [Slots -> Poll] /\ \A i \in Slots : PageFresh(poll'[i])
         /\ \A i \in Slots : poll'[i] = poll[i] \/ (poll[i].at # "fetch" /\ poll'[i].at # "fetch")
  BY DEF IInv, PollsInv

\* start() and the heartbeat.
LEMMA WebSocketUpTypes ==
  ASSUME Shell, WebSocketUp
  PROVE  /\ subscribed' \in BOOLEAN /\ quiet' \in BOOLEAN /\ tracked' \in BOOLEAN
         /\ heartbeats' \in 0..2 /\ (tracked' => heartbeats' > 0)
  <1>1. heartbeats \in 0..2
    BY DEF Shell
  <1>2. CASE Channel
    <2>1. heartbeats' \in 0..2 /\ heartbeats' > 0
      BY <1>1, <1>2 DEF WebSocketUp
    <2> QED BY <1>2, <2>1 DEF WebSocketUp, Channel
  <1>3. CASE ~Channel
    <2>1. heartbeats' \in 0..2 /\ ~tracked'
      BY <1>1, <1>3 DEF WebSocketUp
    <2> QED BY <1>3, <2>1 DEF WebSocketUp, Channel
  <1> QED BY <1>2, <1>3

\* Starting the monitor keeps the invariant.
LEMMA StartKeeps ==
  ASSUME IInv, Start
  PROVE  IInv'
  <1>1. Shell
    BY DEF IInv
  <1>2. Calm /\ lastSignature' = lastSignature /\ delivered' = delivered
    BY DEF Start, Calm
  <1>3. kind' = kind /\ state' = "running" /\ ledger' = ledger
    BY DEF Start
  <1>4. CASE WebSocketUp /\ UNCHANGED <<interval, poll>>
    <2>1. Shell'
      BY <1>1, <1>3, <1>4, WebSocketUpTypes DEF Shell
    <2> QED BY <1>2, <1>4, <2>1, SamePolls, CalmKeeps
  <1>5. CASE StartPolling /\ UNCHANGED wsVars
    <2>1. Shell'
      BY <1>1, <1>3, <1>5, StartPollingKeeps DEF Shell, wsVars
    <2> QED BY <1>2, <1>5, <2>1, StartPollingKeeps, CalmKeeps
  <1> QED BY <1>4, <1>5 DEF Start

\* A heartbeat, which may start the polling, keeps the invariant.
LEMMA HeartbeatKeeps ==
  ASSUME IInv, Heartbeat
  PROVE  IInv'
  <1>1. Shell
    BY DEF IInv
  <1>2. Calm /\ lastSignature' = lastSignature /\ delivered' = delivered
    BY DEF Heartbeat, Calm
  <1>3. kind' = kind /\ state' = state /\ ledger' = ledger
    BY DEF Heartbeat
  <1>4. CASE WebSocketUp /\ UNCHANGED <<interval, poll>>
    <2>1. Shell'
      BY <1>1, <1>3, <1>4, WebSocketUpTypes DEF Shell
    <2> QED BY <1>2, <1>4, <2>1, SamePolls, CalmKeeps
  <1>5. CASE /\ subscribed' = FALSE /\ tracked' = FALSE /\ UNCHANGED quiet
             /\ \/ tracked /\ heartbeats' = heartbeats - 1
                \/ (tracked => heartbeats = 2) /\ UNCHANGED heartbeats
             /\ StartPolling
    <2>1. heartbeats' \in 0..2 /\ interval' \in BOOLEAN
      <3>1. heartbeats \in 0..2 /\ (tracked => heartbeats > 0)
        BY <1>1 DEF Shell
      <3> QED BY <1>5, <3>1, StartPollingKeeps
    <2>2. Shell'
      BY <1>1, <1>3, <1>5, <2>1 DEF Shell
    <2> QED BY <1>2, <1>5, <2>2, StartPollingKeeps, CalmKeeps
  <1> QED BY <1>4, <1>5 DEF Heartbeat

\* stop(), silence and a confirmation touch neither polls nor books.
LEMMA OutsideKeeps ==
  ASSUME IInv, Stop \/ Silence \/ \E s \in Sig : Confirm(s)
  PROVE  IInv'
  <1>1. Shell
    BY DEF IInv
  <1>2. /\ Calm /\ lastSignature' = lastSignature /\ delivered' = delivered /\ poll' = poll
        /\ kind' = kind
    BY DEF Stop, Silence, Confirm, Calm
  <1>3. CASE Stop
    <2>1. heartbeats' \in 0..2 /\ tracked' = FALSE
      BY <1>1, <1>3 DEF Shell, Stop
    <2>2. /\ state' = "stopped" /\ subscribed' = FALSE /\ interval' = FALSE
          /\ UNCHANGED <<kind, ledger, quiet>>
      BY <1>3 DEF Stop
    <2>3. Shell'
      BY <1>1, <2>1, <2>2 DEF Shell
    <2> QED BY <1>2, <2>3, SamePolls, CalmKeeps
  <1>4. CASE Silence
    <2>1. Shell'
      BY <1>1, <1>4 DEF Shell, Silence
    <2> QED BY <1>2, <2>1, SamePolls, CalmKeeps
  <1>5. ASSUME NEW s \in Sig, Confirm(s) PROVE IInv'
    <2>1. ledger' \in Seq(Sig) /\ IsInjective(ledger')
      BY <1>1, <1>5, AppendFresh DEF Shell, Confirm
    <2>2. Shell'
      BY <1>1, <1>5, <2>1 DEF Shell, Confirm, wsVars
    <2> QED BY <1>2, <2>2, SamePolls, CalmKeeps
  <1> QED BY <1>3, <1>4, <1>5

\* A poll starts, is answered or fails.
LEMMA PollCalm ==
  ASSUME IInv, NEW i \in Slots, PollStart(i) \/ Answer(i) \/ PollError(i)
  PROVE  IInv'
  <1>1. Shell /\ Seen /\ poll \in [Slots -> Poll] /\ PageFresh(poll[i])
    BY DEF IInv, PollsInv
  <1>2. /\ Calm /\ lastSignature' = lastSignature /\ delivered' = delivered
        /\ kind' = kind /\ state' = state /\ ledger' = ledger /\ interval' = interval
        /\ UNCHANGED wsVars
    BY DEF PollStart, Answer, PollError, Calm, pollRest, history
  <1>3. Shell'
    BY <1>1, <1>2 DEF Shell, wsVars
  <1>4. Off \in Poll /\ PageFresh(Off) /\ Off.at = "off"
    BY EmptyPolls DEF Off
  <1>5. Timer \in Poll /\ PageFresh(Timer) /\ Timer.at = "timer"
    BY EmptyPolls DEF Timer
  <1>6. \E q \in Poll : /\ poll[i].at # "fetch" /\ q.at # "fetch" /\ PageFresh(q)
                        /\ poll' = [poll EXCEPT ![i] = q]
    <2>1. CASE PollStart(i)
      <3> DEFINE new == At("asked", lastSignature, <<>>, NoSig)
      <3>1. new \in Poll /\ PageFresh(new) /\ new.at = "asked"
        BY <1>1, EmptyPolls DEF Seen
      <3>2. /\ poll[i].at # "fetch"
            /\ poll' = [poll EXCEPT ![i] = IF Channel /\ state = "stopped" THEN Off ELSE new]
        BY <2>1 DEF PollStart
      <3> HIDE DEF new
      <3> QED BY <1>4, <3>1, <3>2
    <2>2. CASE PollError(i)
      <3>1. poll[i].at # "fetch" /\ poll' = [poll EXCEPT ![i] = AfterPoll]
        BY <2>2 DEF PollError
      <3>2. AfterPoll = Timer \/ AfterPoll = Off
        BY DEF AfterPoll
      <3> QED BY <1>4, <1>5, <3>1, <3>2
    <2>3. CASE Answer(i)
      <3> DEFINE new == Newer(poll[i].until)
                 n == IF Len(new) < LIMIT THEN Len(new) ELSE LIMIT
                 page == [k \in 1..n |-> new[Len(new) - k + 1]]
                 q == [poll[i] EXCEPT !.at = "answered", !.page = page]
      <3>1. poll[i].at = "asked" /\ poll' = [poll EXCEPT ![i].at = "answered", ![i].page = page]
        BY <2>3 DEF Answer
      <3>2. new \in Seq(Sig) /\ IsInjective(new)
        BY NewerFresh, TypeFollows
      <3> HIDE DEF new
      <3>3. LIMIT \in Nat /\ Len(new) \in Nat /\ n \in 0..Len(new) /\ n <= LIMIT
        BY <3>2, EventMonitorsAssumption
      <3> HIDE DEF n
      <3>4. page \in Seq(Sig) /\ IsInjective(page) /\ Len(page) = n
        BY <3>2, <3>3, BackwardFresh
      <3> HIDE DEF page
      <3>5. q \in Poll /\ q.at = "answered" /\ q.page = page
        BY <1>1, <3>4 DEF Poll
      <3>6. PageFresh(q)
        BY <3>3, <3>4, <3>5 DEF PageFresh
      <3>7. poll' = [poll EXCEPT ![i] = q]
        BY <1>1, <3>1
      <3> HIDE DEF q
      <3> QED BY <3>1, <3>5, <3>6, <3>7
    <2> QED BY <2>1, <2>2, <2>3
  <1> QED BY <1>2, <1>3, <1>6, AskedQuiet, CalmKeeps

\* handleLogEvent(): the channel bot announces what it marks; in the monitor bot
\* the mark stands for the fetch that begins.
LEMMA LogEventKeeps ==
  ASSUME IInv, NEW s \in Sig, LogEvent(s)
  PROVE  IInv'
  <1>1. /\ UNCHANGED <<kind, ledger, state, subscribed, heartbeats, tracked, interval, poll,
                       lastSignature, skipped>>
        /\ delivered' = delivered \cup {s} /\ quiet' = FALSE
    BY DEF LogEvent
  <1>2. Shell'
    BY <1>1 DEF IInv, Shell
  <1>3. CASE s \in Failed \cup Range(processed) \/ (~Channel /\ s \notin Carrying)
    <2>1. UNCHANGED <<processed, fetching, history>>
      BY <1>3 DEF LogEvent
    <2>2. PollsInv' /\ Covered' /\ MarkedIsAnnounced'
      BY <1>1, <2>1, SamePolls, QuietPolls
    <2>3. Seen' /\ Books'
      BY <1>1, <2>1 DEF IInv, Seen, Books, history
    <2> QED BY <1>2, <2>2, <2>3 DEF IInv
  <1>4. CASE ~(s \in Failed \cup Range(processed) \/ (~Channel /\ s \notin Carrying))
    <2> DEFINE out == IF Channel THEN {s} \cap Relevant ELSE {}
    <2>1. /\ processed' = Added(processed, s, FALSE)
          /\ fetching' = IF Channel THEN fetching ELSE fetching \cup {s}
          /\ Account({s}, out, {}, {})
      BY <1>4 DEF LogEvent
    <2>2. /\ credit' = Credits({s}, out) /\ taken' = taken \cup {s} /\ told' = told \cup out
          /\ lost' = lost /\ polled' = polled /\ poll' = poll /\ (Channel' <=> Channel)
      BY <1>1, <2>1 DEF Account, Channel
    <2>3. processed' \in Seq(Sig) /\ IsInjective(processed')
      <3>1. processed \in Seq(Sig) /\ IsInjective(processed)
        BY DEF IInv, Seen
      <3> QED BY <2>1, <3>1, CacheKeeps
    <2>4. Seen'
      BY <1>1, <1>4, <2>1, <2>3 DEF IInv, Seen
    <2>5. Books'
      <3>1. {s} \in SUBSET Sig /\ out \in SUBSET (taken \cup {s}) /\ {} \in SUBSET taken
        OBVIOUS
      <3> HIDE DEF out
      <3> QED BY <2>1, <3>1, AccountTypes DEF IInv
    <2>6. PollsInv'
      BY <2>1, <2>2 DEF IInv, PollsInv, Marked
    <2>7. Covered'
      <3> SUFFICES ASSUME NEW t \in Sig
                   PROVE  credit'[t] >= IF Channel THEN 0 ELSE Pending(poll, fetching', t)
        BY <2>2 DEF Covered
      <3>1. credit[t] \in Int /\ credit[t] <= MaxCredit /\ MaxCredit \in Nat /\ MaxCredit > 0
        BY EventMonitorsAssumption, FS_CardinalityType DEF IInv, Books
      <3> DEFINE up == IF t = s /\ credit[t] < MaxCredit THEN credit[t] + 1 ELSE credit[t]
      <3>2. credit'[t] = IF t \in out THEN up - 1 ELSE up
        BY <2>2 DEF Credits
      <3>3. CASE Channel
        <4>1. credit[t] >= 0 /\ (t \in out => t = s)
          BY <3>3 DEF IInv, Covered
        <4> QED BY <3>1, <3>2, <3>3, <4>1
      <3>4. CASE ~Channel
        <4> DEFINE old == Pending(poll, fetching, t)
                   more == Pending(poll, fetching', t)
        <4>1. credit[t] >= old /\ credit'[t] = up
          BY <3>2, <3>4 DEF IInv, Covered
        <4>2. old \in Nat /\ more \in Nat /\ more <= MaxCredit
          BY PendingBounded
        <4>3. more <= (IF t = s THEN old + 1 ELSE old)
          <5>1. Cardinality(Fetchers(poll, t)) \in Nat
            BY PendingBounded
          <5>2. t \in fetching' => t \in fetching \/ t = s
            BY <2>1
          <5> QED BY <5>1, <5>2 DEF Pending
        <4> HIDE DEF old, more
        <4>4. credit'[t] >= more
          BY <3>1, <4>1, <4>2, <4>3
        <4> QED BY <3>4, <4>4 DEF more
      <3> QED BY <3>3, <3>4
    <2>8. MarkedIsAnnounced'
      <3>1. InFlight' = InFlight \cup (fetching' \ fetching)
        BY <2>1, <2>2 DEF InFlight
      <3>2. s \in Relevant => s \in told' \cup InFlight'
        BY <2>1, <2>2 DEF InFlight
      <3> QED BY <2>2, <3>1, <3>2 DEF IInv, MarkedIsAnnounced
    <2> QED BY <1>2, <2>4, <2>5, <2>6, <2>7, <2>8 DEF IInv
  <1> QED BY <1>3, <1>4

\* The transaction of a log handler of the monitor bot.
LEMMA LogFetchedKeeps ==
  ASSUME IInv, NEW s \in fetching, NEW found \in BOOLEAN, LogFetched(s, found)
  PROVE  IInv'
  <1> DEFINE heard == found \/ kind = "pump"
             out == IF heard THEN {s} \cap Relevant ELSE {}
             gone == IF heard THEN {} ELSE {s}
  <1>1. /\ UNCHANGED <<kind, ledger, state, wsVars, delivered, interval, poll, lastSignature,
                       processed, skipped>>
        /\ fetching' = fetching \ {s} /\ Account({}, out, gone, {})
    BY DEF LogFetched
  <1>2. /\ credit' = Credits({}, out) /\ taken' = taken /\ told' = told \cup out
        /\ lost' = lost \cup gone /\ polled' = polled /\ poll' = poll /\ (Channel' <=> Channel)
    BY <1>1 DEF Account, Channel
  <1>3. ~Channel /\ s \in taken /\ s \in Sig
    BY DEF IInv, PollsInv, Books
  <1>4. out \subseteq {s} /\ gone \subseteq {s} /\ {s} \cap Relevant \subseteq out \cup gone
    OBVIOUS
  <1> HIDE DEF out, gone, heard
  <1>5. Shell' /\ Seen'
    BY <1>1 DEF IInv, Shell, Seen, wsVars
  <1>6. Books'
    <2>1. {} \in SUBSET Sig /\ out \in SUBSET (taken \cup {}) /\ gone \in SUBSET taken
      BY <1>3, <1>4
    <2> QED BY <1>1, <2>1, AccountTypes DEF IInv
  <1>7. PollsInv'
    BY <1>1, <1>2 DEF IInv, PollsInv, Marked
  <1>8. Covered'
    <2> SUFFICES ASSUME NEW t \in Sig PROVE credit'[t] >= Pending(poll, fetching', t)
      BY <1>2, <1>3 DEF Covered
    <2>1. credit[t] \in Int /\ credit[t] >= Pending(poll, fetching, t)
      BY <1>3 DEF IInv, Books, Covered
    <2>2. credit'[t] = IF t \in out THEN credit[t] - 1 ELSE credit[t]
      BY <1>2 DEF Credits
    <2>3. Cardinality(Fetchers(poll, t)) \in Nat
      BY PendingBounded
    <2>4. Pending(poll, fetching', t) =
              IF t = s THEN Pending(poll, fetching, t) - 1 ELSE Pending(poll, fetching, t)
      BY <1>1, <2>3 DEF Pending
    <2>5. Pending(poll, fetching, t) \in Nat
      BY PendingBounded
    <2> QED BY <1>4, <2>1, <2>2, <2>4, <2>5
  <1>9. MarkedIsAnnounced'
    <2>1. InFlight \subseteq InFlight' \cup {s}
      BY <1>1, <1>2 DEF InFlight
    <2>2. {s} \cap Relevant \subseteq told' \cup lost'
      BY <1>2, <1>4
    <2> QED BY <1>2, <2>1, <2>2 DEF IInv, MarkedIsAnnounced
  <1> QED BY <1>5, <1>6, <1>7, <1>8, <1>9 DEF IInv

\* A poll that goes on keeps the invariant.
LEMMA WentKeeps ==
  ASSUME IInv, NEW i \in Slots, NEW q, NEW nxt, NEW rest, NEW new \in SUBSET Sig,
         NEW out \in SUBSET (taken \cup new), NEW gone \in SUBSET taken,
         Went(i, q, nxt, rest, new, out, gone), UNCHANGED pollRest,
         lastSignature' \in Sig \cup {NoSig}, skipped' \subseteq Sig,
         Done(poll[i]) \cap Range(rest) = {},
         IF Channel THEN out \subseteq new ELSE out \subseteq Done(poll[i]),
         new \cap Relevant \subseteq out,
         Channel \/ Done(poll[i]) \cap Relevant \subseteq out \cup gone
  PROVE  IInv'
  <1>1. kind' = kind /\ fetching' = fetching
    BY DEF pollRest
  <1>2. Shell'
    BY DEF IInv, Shell, pollRest, wsVars
  <1>3. Seen'
    BY DEF IInv, Seen, pollRest, Went
  <1>4. Books'
    <2>1. nxt \in SUBSET Sig /\ Account(new \cup nxt, out, gone, nxt)
      BY DEF Went
    <2>2. /\ new \cup nxt \in SUBSET Sig /\ out \in SUBSET (taken \cup (new \cup nxt))
          /\ nxt \in SUBSET (new \cup nxt)
      BY <2>1
    <2> QED BY <2>1, <2>2, AccountTypes DEF IInv
  <1>5. out \in SUBSET Sig
    BY DEF IInv, Books
  <1>6. PollsInv'
    BY <1>1, WentPolls
  <1>7. Covered'
    BY <1>1, <1>5, WentCovers
  <1>8. MarkedIsAnnounced'
    BY <1>1, WentAnnounces
  <1> QED BY <1>2, <1>3, <1>4, <1>6, <1>7, <1>8 DEF IInv

\* poll() after its page arrived.
LEMMA ContinueKeeps ==
  ASSUME IInv, NEW i \in Slots, Continue(i)
  PROVE  IInv'
  <1> DEFINE page == IF Channel THEN poll[i].page ELSE Oldest(poll[i].page)
  <1>1. /\ poll[i].at = "answered" /\ UNCHANGED pollRest
        /\ lastSignature' = IF page = <<>> THEN lastSignature ELSE page[1]
        /\ skipped' = IF page = <<>> THEN skipped
                      ELSE skipped \cup (Range(Newer(poll[i].until))
                               \ (Range(page) \cup Range(Newer(poll[i].page[Len(page)]))))
        /\ GoOn(i, page, processed, {}, {}, {})
    BY DEF Continue
  <1>2. /\ poll[i] \in Poll /\ IsInjective(poll[i].page) /\ Len(poll[i].page) <= LIMIT
        /\ poll[i].page \in Seq(Sig)
    BY DEF IInv, PollsInv, PageFresh, Poll
  <1>3. /\ Oldest(poll[i].page) \in Seq(Sig) /\ IsInjective(Oldest(poll[i].page))
        /\ Len(Oldest(poll[i].page)) = Len(poll[i].page)
    <2>1. Len(poll[i].page) \in 0..Len(poll[i].page) /\ DOMAIN poll[i].page = 1..Len(poll[i].page)
      BY <1>2
    <2>2. Oldest(poll[i].page) =
              [k \in 1..Len(poll[i].page) |-> poll[i].page[(Len(poll[i].page) - k) + 1]]
      BY <2>1 DEF Oldest
    <2> QED BY <1>2, <2>1, <2>2, BackwardFresh
  <1>4. page \in Seq(Sig) /\ IsInjective(page) /\ Len(page) <= LIMIT
    BY <1>2, <1>3
  <1> HIDE DEF page
  <1>5. lastSignature' \in Sig \cup {NoSig}
    BY <1>1, <1>4 DEF IInv, Seen
  <1>6. skipped' \subseteq Sig
    <2>1. Range(Newer(poll[i].until)) \subseteq Sig
      <3>1. Newer(poll[i].until) \in Seq(Sig)
        BY NewerFresh, TypeFollows
      <3> QED BY <3>1 DEF Range
    <2> QED BY <1>1, <2>1 DEF IInv, Seen
  <1>7. processed \in Seq(Sig) /\ IsInjective(processed)
    BY DEF IInv, Seen
  <1>8. PICK q, nxt : Went(i, q, nxt, page, {}, {}, {})
    BY <1>1, <1>4, <1>7, GoOnGoes
  <1>9. Done(poll[i]) = {}
    BY <1>1 DEF Done
  <1>10. {} \in SUBSET Sig /\ {} \in SUBSET (taken \cup {}) /\ {} \in SUBSET taken
    OBVIOUS
  <1> QED BY <1>1, <1>5, <1>6, <1>8, <1>9, <1>10, WentKeeps

\* poll() after the transaction of a signature arrived, or did not.
LEMMA FetchedKeeps ==
  ASSUME IInv, NEW i \in Slots, NEW found \in BOOLEAN, Fetched(i, found)
  PROVE  IInv'
  <1> DEFINE s == poll[i].sig
             again == found /\ Channel /\ s \notin Range(processed)
             new == IF again THEN {s} ELSE {}
             out == IF found /\ (Channel => again) THEN {s} \cap Relevant ELSE {}
             gone == IF found THEN {} ELSE {s}
             cache == IF again THEN Added(processed, s, FALSE) ELSE processed
  <1>1. /\ poll[i].at = "fetch" /\ UNCHANGED <<pollRest, lastSignature, skipped>>
        /\ GoOn(i, poll[i].page, cache, new, out, gone)
    BY DEF Fetched
  <1>2. /\ poll[i] \in Poll /\ IsInjective(poll[i].page) /\ Len(poll[i].page) <= LIMIT
        /\ poll[i].page \in Seq(Sig) /\ s \notin Range(poll[i].page) /\ s \in taken /\ s \in Sig
    BY <1>1 DEF IInv, PollsInv, PageFresh, Poll, Marked, Books
  <1>3. cache \in Seq(Sig) /\ IsInjective(cache)
    <2>1. processed \in Seq(Sig) /\ IsInjective(processed)
      BY DEF IInv, Seen
    <2> QED BY <1>2, <2>1, CacheKeeps
  <1>4. Done(poll[i]) = {s}
    BY <1>1 DEF Done
  <1>5. new \in SUBSET Sig /\ out \in SUBSET (taken \cup new) /\ gone \in SUBSET taken
    BY <1>2
  <1>6. IF Channel THEN out \subseteq new ELSE out \subseteq {s}
    OBVIOUS
  <1>7. new \cap Relevant \subseteq out
    OBVIOUS
  <1>8. Channel \/ {s} \cap Relevant \subseteq out \cup gone
    OBVIOUS
  <1> HIDE DEF s, new, out, gone, cache
  <1>9. PICK q, nxt : Went(i, q, nxt, poll[i].page, new, out, gone)
    BY <1>1, <1>2, <1>3, GoOnGoes
  <1>10. lastSignature' \in Sig \cup {NoSig} /\ skipped' \subseteq Sig
    BY <1>1 DEF IInv, Seen
  <1>11. {s} \cap Range(poll[i].page) = {}
    BY <1>2
  <1> QED BY <1>1, <1>4, <1>5, <1>6, <1>7, <1>8, <1>9, <1>10, <1>11, WentKeeps

------------------------------------------------------------------------------
(* The theorems *)

\* The invariant holds at the start.
LEMMA InitInv == Init => IInv
  <1> SUFFICES ASSUME Init PROVE IInv
    OBVIOUS
  <1>1. <<>> \in Seq(Sig) /\ IsInjective(<<>>)
    <2>1. <<>> \in Seq(Sig) /\ DOMAIN <<>> = {}
      OBVIOUS
    <2> QED BY <2>1 DEF IsInjective
  <1>2. Shell /\ Seen
    <2>1. /\ ledger = <<>> /\ processed = <<>> /\ heartbeats = 0 /\ tracked = FALSE
          /\ subscribed = FALSE /\ quiet = FALSE /\ interval = FALSE
          /\ kind \in Kinds /\ state = "new"
      BY DEF Init
    <2>2. Shell
      <3>1. heartbeats \in 0..2
        BY <2>1
      <3>5. ~tracked /\ tracked \in BOOLEAN
        BY <2>1, Zenon
      <3>2. subscribed \in BOOLEAN /\ quiet \in BOOLEAN /\ interval \in BOOLEAN
        BY <2>1
      <3>3. ledger \in Seq(Sig) /\ IsInjective(ledger)
        BY <1>1, <2>1
      <3>4. kind \in Kinds /\ state \in {"new", "running", "stopped"}
        BY <2>1
      <3> QED BY <3>1, <3>2, <3>3, <3>4, <3>5 DEF Shell
    <2>3. lastSignature = NoSig /\ delivered = {} /\ fetching = {} /\ skipped = {}
      BY DEF Init
    <2>4. Seen
      BY <1>1, <2>1, <2>3 DEF Seen
    <2> QED BY <2>2, <2>4
  <1>3. Books
    BY EventMonitorsAssumption DEF Init, Books
  <1>4. Off \in Poll /\ PageFresh(Off) /\ Off.at = "off"
    BY EmptyPolls DEF Off
  <1>5. poll = [i \in Slots |-> Off] /\ fetching = {} /\ taken = {}
    BY DEF Init
  <1>6. PollsInv
    BY <1>4, <1>5 DEF PollsInv, Marked
  <1>7. Covered
    <2>1. \A s : Fetchers(poll, s) = {}
      BY <1>4, <1>5 DEF Fetchers
    <2>2. \A s : Pending(poll, fetching, s) = 0
      BY <1>5, <2>1, FS_EmptySet DEF Pending
    <2> QED BY <2>2 DEF Init, Covered
  <1>8. MarkedIsAnnounced
    BY <1>5 DEF MarkedIsAnnounced
  <1> QED BY <1>2, <1>3, <1>6, <1>7, <1>8 DEF IInv

\* Every step keeps the invariant.
LEMMA StepInv == IInv /\ [Next]_vars => IInv'
  <1> SUFFICES ASSUME IInv, [Next]_vars PROVE IInv'
    OBVIOUS
  <1>1. CASE UNCHANGED vars
    BY <1>1, SamePolls, CalmKeeps DEF vars, wsVars, Calm, IInv, Shell, history
  <1>2. CASE Start
    BY <1>2, StartKeeps
  <1>3. CASE Heartbeat
    BY <1>3, HeartbeatKeeps
  <1>4. CASE Stop \/ Silence \/ \E s \in Sig : Confirm(s)
    BY <1>4, OutsideKeeps
  <1>5. ASSUME NEW s \in Sig, LogEvent(s) PROVE IInv'
    BY <1>5, LogEventKeeps
  <1>6. ASSUME NEW s \in fetching, NEW found \in BOOLEAN, LogFetched(s, found) PROVE IInv'
    BY <1>6, LogFetchedKeeps
  <1>7. ASSUME NEW i \in Slots, PollStart(i) \/ Answer(i) \/ PollError(i) PROVE IInv'
    BY <1>7, PollCalm
  <1>8. ASSUME NEW i \in Slots, Continue(i) PROVE IInv'
    BY <1>8, ContinueKeeps
  <1>9. ASSUME NEW i \in Slots, NEW found \in BOOLEAN, Fetched(i, found) PROVE IInv'
    BY <1>9, FetchedKeeps
  <1> QED BY <1>1, <1>2, <1>3, <1>4, <1>5, <1>6, <1>7, <1>8, <1>9 DEF Next, Settles

\* The invariant of the three event monitors, whatever polls, log handlers, reconnections,
\* start() and stop() interleave.
THEOREM MonitorsInvariant == Spec => []IInv
  BY InitInv, StepInv, PTL DEF Spec

\* Every variable of the event monitors keeps its type, the caches and pages among
\* them without repetition.
THEOREM MonitorsTypeOK == Spec => []TypeOK
  BY MonitorsInvariant, TypeFollows, PTL

\* No event is announced more often than its transaction entered processedSignatures,
\* although polls overlap each other and the log handlers and the cache forgets.
THEOREM MonitorsAnnounceOnce == Spec => []AnnouncedPerResidency
  <1>1. IInv => AnnouncedPerResidency
    <2> SUFFICES ASSUME IInv, NEW s \in Sig PROVE credit[s] >= 0
      BY DEF AnnouncedPerResidency
    <2>1. credit[s] \in Int /\ credit[s] >= IF Channel THEN 0 ELSE Pending(poll, fetching, s)
      BY DEF IInv, Books, Covered
    <2>2. Pending(poll, fetching, s) \in Nat
      BY PendingBounded
    <2> QED BY <2>1, <2>2
  <1> QED BY <1>1, MonitorsInvariant, PTL

\* A marked transaction with an event was announced, is being fetched or could not be
\* fetched, except for what the channel bot's polls mark.
THEOREM MonitorsAnnounceMarked == Spec => []MarkedIsAnnounced
  BY MonitorsInvariant, PTL DEF IInv

=============================================================================
