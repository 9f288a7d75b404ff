------------------------------- MODULE ApiProofs -------------------------------
(***************************************************************************)
(* Proofs about the REST API of the monitor bot: ApiClaims with its rate   *)
(* limiter, and ApiWatches, for any rate, window, buffer size, page size,  *)
(* limits and numbers of clients, streams, wallets and URLs.  The rate is  *)
(* respected because a bucket still holds every request of the last        *)
(* window; pages miss nothing because a reader that has had the pages up   *)
(* to p has seen all that is newer than its place in the buffer.  The      *)
(* watch limit holds because what the file holds respects it too: a        *)
(* restart may read back more than the process had last.  A receiver is    *)
(* not posted to again without a late answer because every stage of a      *)
(* delivery accounts for the answers that came too late.                   *)
(***************************************************************************)
EXTENDS ApiClaims, ApiWatches, FiniteSetTheorems, TLAPS

\* Types of one client's limiter, and the order of its history.
LimiterOf(c) ==
    /\ lastClean[c] \in Nat /\ lastClean[c] <= now
    /\ allowedAt[c] \in Seq(0..MaxTime)
    /\ bucket[c] \subseteq DOMAIN allowedAt[c]
    /\ \A i \in DOMAIN allowedAt[c] : allowedAt[c][i] \in Nat /\ allowedAt[c][i] <= lastClean[c]
    /\ \A i, j \in DOMAIN allowedAt[c] : i <= j => allowedAt[c][i] <= allowedAt[c][j]

\* The bucket holds every request of the last window.
HoldsWindow(c) ==
    \A i \in DOMAIN allowedAt[c] : allowedAt[c][i] > now - rateLimitWindowMs => i \in bucket[c]

RespectedBy(c) ==
    \A i \in DOMAIN allowedAt[c] :
        i + rateLimitMax \in DOMAIN allowedAt[c]
            => allowedAt[c][i + rateLimitMax] - allowedAt[c][i] >= rateLimitWindowMs

RateInv == /\ now \in 0..MaxTime
           /\ bucket = [c \in Client |-> bucket[c]]
           /\ lastClean = [c \in Client |-> lastClean[c]]
           /\ allowedAt = [c \in Client |-> allowedAt[c]]
           /\ \A c \in Client : LimiterOf(c) /\ HoldsWindow(c) /\ RespectedBy(c)

\* Requests that are all in the recent part of the bucket are few.
LEMMA RecentIsFew ==
  ASSUME NEW c \in Client, LimiterOf(c), now \in Nat,
         Cardinality(Recent(c)) < rateLimitMax,
         NEW i \in Nat, i + rateLimitMax = Len(allowedAt[c]) + 1, i > 0
  PROVE  ~(i..Len(allowedAt[c]) \subseteq Recent(c))
  <1> DEFINE n == Len(allowedAt[c])
             S == i..n
             R == Recent(c)
  <1>1. n \in Nat /\ DOMAIN allowedAt[c] = 1..n
    BY DEF LimiterOf
  <1>2. R \in SUBSET (1..n)
    BY <1>1 DEF Recent, LimiterOf
  <1>3. IsFiniteSet(1..n)
    <2> HIDE DEF n
    <2> QED BY <1>1, FS_Interval
  <1>4. IsFiniteSet(R)
    BY <1>2, <1>3, FS_Subset
  <1>5. Cardinality(S) = IF i > n THEN 0 ELSE n - i + 1
    <2> HIDE DEF n
    <2> QED BY <1>1, FS_Interval
  <1>6. rateLimitMax \in Nat
    BY RateAssumption
  <1>7. Cardinality(S) = rateLimitMax
    BY <1>1, <1>5, <1>6
  <1>8. ASSUME S \in SUBSET R PROVE FALSE
    <2> HIDE DEF S, R
    <2>1. Cardinality(S) <= Cardinality(R)
      BY <1>4, <1>8, FS_Subset
    <2>2. Cardinality(R) \in Nat
      BY <1>4, FS_CardinalityType
    <2>3. Cardinality(R) < rateLimitMax
      BY DEF R
    <2> QED BY <1>6, <1>7, <2>1, <2>2, <2>3
  <1> QED BY <1>8

\* check() keeps the invariant of its client when it allows the request ...
LEMMA AllowKeeps ==
  ASSUME RateInv, NEW c \in Client, Allow(c)
  PROVE  LimiterOf(c)' /\ HoldsWindow(c)' /\ RespectedBy(c)'
  <1> DEFINE s == allowedAt[c]
             n == Len(s)
  <1>1. /\ s \in Seq(0..MaxTime) /\ now \in 0..MaxTime /\ n \in Nat /\ DOMAIN s = 1..n
        /\ now \in Nat /\ lastClean[c] \in Nat
        /\ lastClean[c] <= now /\ bucket[c] \subseteq 1..n
        /\ (\A i \in 1..n : s[i] \in Nat /\ s[i] <= lastClean[c])
        /\ (\A i, j \in 1..n : i <= j => s[i] <= s[j])
    BY DEF RateInv, LimiterOf
  <1>2. allowedAt'[c] = Append(s, now) /\ bucket'[c] = Recent(c) \cup {n + 1}
        /\ lastClean'[c] = now /\ now' = now
    BY DEF Allow, RateInv
  <1>3. Len(Append(s, now)) = n + 1 /\ DOMAIN Append(s, now) = 1..(n + 1)
        /\ (\A i \in 1..n : Append(s, now)[i] = s[i]) /\ Append(s, now)[n + 1] = now
        /\ Append(s, now) \in Seq(0..MaxTime)
    BY <1>1
  <1>4. Recent(c) = {i \in bucket[c] : s[i] > now - rateLimitWindowMs}
    BY DEF Recent
  <1>5. rateLimitMax \in Nat /\ rateLimitWindowMs \in Nat
    BY RateAssumption
  <1>6. HoldsWindow(c) /\ RespectedBy(c) /\ LimiterOf(c)
    BY DEF RateInv
  <1>7. \A i \in 1..n : s[i] > now - rateLimitWindowMs => i \in Recent(c)
    BY <1>1, <1>4, <1>6 DEF HoldsWindow
  <1> HIDE DEF n, s
  <1>8. LimiterOf(c)'
    <2>1. \A i \in 1..(n + 1) : i \in 1..n \/ i = n + 1
      BY <1>1
    <2>2. \A i \in 1..(n + 1) : Append(s, now)[i] <= now
      BY <1>1, <1>3, <2>1
    <2>3. \A i, j \in 1..(n + 1) : i <= j => Append(s, now)[i] <= Append(s, now)[j]
      BY <1>1, <1>3, <2>1
    <2>4. bucket'[c] \subseteq 1..(n + 1)
      BY <1>1, <1>2, <1>4
    <2> QED BY <1>1, <1>2, <1>3, <2>2, <2>3, <2>4 DEF LimiterOf
  <1>9. HoldsWindow(c)'
    BY <1>1, <1>2, <1>3, <1>7 DEF HoldsWindow
  <1>10. RespectedBy(c)'
    <2> SUFFICES ASSUME NEW i \in 1..(n + 1), i + rateLimitMax \in 1..(n + 1)
                 PROVE  Append(s, now)[i + rateLimitMax] - Append(s, now)[i] >= rateLimitWindowMs
      BY <1>2, <1>3, <1>5 DEF RespectedBy
    <2>1. CASE i + rateLimitMax \in 1..n
      <3>1. i \in 1..n
        BY <1>1, <1>5, <2>1
      <3> QED BY <1>3, <1>6, <1>1, <2>1, <3>1 DEF RespectedBy, s
    <2>2. CASE i + rateLimitMax = n + 1
      <3>0. Cardinality(Recent(c)) < rateLimitMax
        BY DEF Allow
      <3>1. ~(i..n \subseteq Recent(c))
        BY <1>1, <1>6, <2>2, <3>0, RecentIsFew DEF n, s
      <3>2. PICK j \in i..n : j \notin Recent(c)
        BY <3>1
      <3>3. j \in 1..n /\ i \in 1..n /\ i <= j
        BY <1>1, <3>2
      <3>4. s[j] <= now - rateLimitWindowMs
        BY <1>1, <1>5, <1>7, <3>2, <3>3
      <3>5. s[i] <= s[j] /\ s[i] \in Nat /\ s[j] \in Nat
        BY <1>1, <3>3
      <3>6. Append(s, now)[i] = s[i] /\ Append(s, now)[i + rateLimitMax] = now
        BY <1>3, <2>2, <3>3
      <3> QED BY <1>1, <1>5, <3>4, <3>5, <3>6
    <2> QED BY <1>1, <1>5, <2>1, <2>2
  <1> QED BY <1>8, <1>9, <1>10

\* ... and all the other steps of the limiter keep it too.
LEMMA RateStepKeeps ==
  ASSUME RateInv, (\E c \in Client : Allow(c) \/ Refuse(c)) \/ Tick \/ Cleanup \/ UNCHANGED rateVars
  PROVE  RateInv'
  <1>0. rateLimitMax \in Nat /\ rateLimitWindowMs \in Nat /\ MaxTime \in Nat
    BY RateAssumption
  <1>1. ASSUME NEW c \in Client, Allow(c) PROVE RateInv'
    <2>1. LimiterOf(c)' /\ HoldsWindow(c)' /\ RespectedBy(c)'
      BY <1>1, AllowKeeps
    <2>2. ASSUME NEW d \in Client, d # c PROVE LimiterOf(d)' /\ HoldsWindow(d)' /\ RespectedBy(d)'
      <3>1. bucket'[d] = bucket[d] /\ lastClean'[d] = lastClean[d] /\ allowedAt'[d] = allowedAt[d]
            /\ now' = now
        BY <1>1, <2>2 DEF Allow, RateInv
      <3>2. LimiterOf(d) /\ HoldsWindow(d) /\ RespectedBy(d)
        BY DEF RateInv
      <3> QED BY <3>1, <3>2 DEF LimiterOf, HoldsWindow, RespectedBy
    <2>3. /\ bucket' = [d \in Client |-> bucket'[d]]
          /\ lastClean' = [d \in Client |-> lastClean'[d]]
          /\ allowedAt' = [d \in Client |-> allowedAt'[d]] /\ now' \in 0..MaxTime
      BY <1>1 DEF Allow, RateInv
    <2> QED BY <2>1, <2>2, <2>3 DEF RateInv
  <1>2. ASSUME NEW c \in Client, Refuse(c) PROVE RateInv'
    <2>1. ASSUME NEW d \in Client PROVE LimiterOf(d)' /\ HoldsWindow(d)' /\ RespectedBy(d)'
      <3>1. /\ bucket'[d] = bucket[d] \/ bucket'[d] = Recent(d)
            /\ lastClean'[d] = lastClean[d] \/ lastClean'[d] = now
            /\ allowedAt'[d] = allowedAt[d] /\ now' = now
        BY <1>2 DEF Refuse, RateInv
      <3>2. LimiterOf(d) /\ HoldsWindow(d) /\ RespectedBy(d) /\ now \in Nat
        BY DEF RateInv
      <3>3. \A i \in DOMAIN allowedAt[d] : allowedAt[d][i] \in Nat
        BY <3>2 DEF LimiterOf
      <3>4. LimiterOf(d)'
        BY <3>1, <3>2, <3>3 DEF LimiterOf, Recent
      <3>5. HoldsWindow(d)'
        BY <3>1, <3>2 DEF HoldsWindow, Recent
      <3> QED BY <3>1, <3>2, <3>4, <3>5 DEF RespectedBy
    <2>2. /\ bucket' = [d \in Client |-> bucket'[d]]
          /\ lastClean' = [d \in Client |-> lastClean'[d]]
          /\ allowedAt' = [d \in Client |-> allowedAt'[d]] /\ now' \in 0..MaxTime
      BY <1>2 DEF Refuse, RateInv
    <2> QED BY <2>1, <2>2 DEF RateInv
  <1>3. ASSUME Tick PROVE RateInv'
    <2>1. now' = now + 1 /\ now' \in 0..MaxTime /\ now \in Nat
      BY <1>0, <1>3 DEF Tick, RateInv
    <2>2. ASSUME NEW d \in Client PROVE LimiterOf(d)' /\ HoldsWindow(d)' /\ RespectedBy(d)'
      <3>1. LimiterOf(d) /\ HoldsWindow(d) /\ RespectedBy(d)
        BY DEF RateInv
      <3>2. \A i \in DOMAIN allowedAt[d] : allowedAt[d][i] \in Nat
        BY <3>1 DEF LimiterOf
      <3> QED BY <1>0, <1>3, <2>1, <3>1, <3>2 DEF Tick, LimiterOf, HoldsWindow, RespectedBy
    <2> QED BY <1>3, <2>1, <2>2 DEF Tick, RateInv
  <1>4. ASSUME Cleanup PROVE RateInv'
    <2>1. now' = now /\ now \in Nat /\ lastClean' = lastClean /\ allowedAt' = allowedAt
      BY <1>4 DEF Cleanup, RateInv
    <2>2. ASSUME NEW d \in Client PROVE LimiterOf(d)' /\ HoldsWindow(d)' /\ RespectedBy(d)'
      <3>1. LimiterOf(d) /\ HoldsWindow(d) /\ RespectedBy(d)
        BY DEF RateInv
      <3>2. \A i \in DOMAIN allowedAt[d] : allowedAt[d][i] \in Nat
        BY <3>1 DEF LimiterOf
      <3>3. bucket'[d] = IF Stale(d) THEN {} ELSE bucket[d]
        BY <1>4 DEF Cleanup
      <3>4. LimiterOf(d)' /\ RespectedBy(d)'
        BY <2>1, <3>1, <3>3 DEF LimiterOf, RespectedBy
      <3>5. HoldsWindow(d)'
        <4>1. CASE ~Stale(d)
          BY <2>1, <3>1, <3>3, <4>1 DEF HoldsWindow
        <4>2. CASE Stale(d)
          <5>1. lastClean[d] < now - 2 * rateLimitWindowMs /\ lastClean[d] \in Nat
            BY <4>2, <3>1 DEF Stale, LimiterOf
          <5>2. \A i \in DOMAIN allowedAt[d] : allowedAt[d][i] <= now - rateLimitWindowMs
            BY <1>0, <2>1, <3>1, <3>2, <5>1 DEF LimiterOf
          <5> QED BY <1>0, <2>1, <3>2, <5>2 DEF HoldsWindow
        <4> QED BY <4>1, <4>2
      <3> QED BY <3>4, <3>5
    <2>3. bucket' = [d \in Client |-> bucket'[d]]
      BY <1>4 DEF Cleanup
    <2> QED BY <2>1, <2>2, <2>3 DEF RateInv
  <1>5. CASE UNCHANGED rateVars
    BY <1>5 DEF rateVars, RateInv, LimiterOf, HoldsWindow, RespectedBy
  <1> QED BY <1>1, <1>2, <1>3, <1>4, <1>5

\* Every step of the server takes at most one step of the limiter.
LEMMA NextTakesRateStep ==
  ASSUME [Next]_vars
  PROVE  (\E c \in Client : Allow(c) \/ Refuse(c)) \/ Tick \/ Cleanup \/ UNCHANGED rateVars
  BY DEF Next, vars, TooMany, OtherRequest, ReadPage, HandleClaim, OpenStream, CloseStream

\* Initially nothing has been allowed.
LEMMA RateInitInv == RateInit => RateInv
  BY RateAssumption DEF RateInit, RateInv, LimiterOf, HoldsWindow, RespectedBy

------------------------------------------------------------------------------
(* The buffer, its reader and the streams *)

BufferInv ==
    /\ detected \in 0..MaxClaims
    /\ buffer \in Seq(Nat) /\ Len(buffer) <= claimBufferSize /\ Len(buffer) <= detected
    /\ \A k \in 1..Len(buffer) : buffer[k] = detected - Len(buffer) + k

\* A reader on its way to page `page` has seen what is newer than that page, of
\* the claims that were there when it began.
\* What a reader that goes on has seen: everything newer than its place.
ReadSoFar ==
    reader.at = "reading" =>
        \A n \in reader.there \cap Range(buffer) :
            n > detected - (reader.page - 1) * PageLimit => n \in reader.seen

ReaderInv ==
    /\ reader.at \in {"idle", "reading", "done"} /\ reader.page \in Nat \ {0}
    /\ reader.there \subseteq 1..detected /\ reader.seen \subseteq 1..detected
    /\ ReadSoFar
    /\ PagesMissNothing

StreamInv ==
    /\ stream \in [Stream -> Connection]
    /\ subscribers = [k \in DOMAIN subscribers |-> subscribers[k]]
    /\ DOMAIN subscribers \subseteq Client \X (0..now)
    /\ \A k \in DOMAIN subscribers :
           /\ subscribers[k] \in Stream /\ stream[subscribers[k]].at = "open"
           /\ k = SubscriberId(stream[subscribers[k]].client, stream[subscribers[k]].since)
    /\ OpenStreamsHear

IInv == RateInv /\ BufferInv /\ ReaderInv /\ StreamInv

\* A buffered claim is on page p when it is among the PageLimit claims that
\* follow the (p - 1) * PageLimit newest.
LEMMA PageHolds ==
  ASSUME BufferInv, NEW p \in Nat \ {0}, NEW n \in Range(buffer),
         n <= detected - (p - 1) * PageLimit, n > detected - p * PageLimit
  PROVE  n \in Range(PageOf(p))
  <1> DEFINE from == (p - 1) * PageLimit
             len == Len(buffer)
             R == Reverse(buffer)
             to == IF from + PageLimit < len THEN from + PageLimit ELSE len
             j == detected - n + 1
  <1>1. PageLimit \in Nat \ {0} /\ detected \in Nat /\ len \in Nat /\ from \in Nat
    BY ApiAssumption DEF BufferInv
  <1>2. p * PageLimit = from + PageLimit
    BY <1>1
  <1>3. n \in Nat /\ n >= detected - len + 1 /\ n <= detected
    BY <1>1 DEF BufferInv, Range
  <1>4. /\ R \in Seq(Nat) /\ Len(R) = len
        /\ \A k \in 1..len : R[k] = buffer[(len - k) + 1]
    BY <1>1 DEF BufferInv, Reverse
  <1> HIDE DEF from
  <1>5. j \in 1..len /\ j > from /\ j <= from + PageLimit /\ j <= to
    BY <1>1, <1>2, <1>3 DEF from
  <1>6. R[j] = n
    <2>1. (len - j) + 1 \in 1..len
      BY <1>1, <1>5
    <2>2. buffer[(len - j) + 1] = detected - len + ((len - j) + 1)
      BY <2>1 DEF BufferInv
    <2> QED BY <1>1, <1>3, <1>4, <1>5, <2>2
  <1>7. to \in Nat /\ to <= len /\ from + 1 <= to
    BY <1>1, <1>5
  <1> DEFINE P == SubSeq(R, from + 1, to)
  <1>8. PageOf(p) = P
    BY <1>4 DEF PageOf, Slice, from
  <1> HIDE DEF R, to, len
  <1>9. /\ Len(P) = to - from /\ DOMAIN P = 1..(to - from)
        /\ \A k \in 1..(to - from) : P[k] = R[from + k]
    <2> DEFINE a == from + 1
    <2>0. a \in 1..to /\ to \in 0..Len(R) /\ R \in Seq(Nat)
      BY <1>1, <1>4, <1>7
    <2>1. Len(P) = to - from /\ DOMAIN P = 1..(to - from)
      <3>1. (to - a) + 1 = to - from
        BY <1>1, <1>7
      <3> HIDE DEF a
      <3>2. Len(SubSeq(R, a, to)) = (to - a) + 1 /\ DOMAIN SubSeq(R, a, to) = 1..((to - a) + 1)
        BY <2>0
      <3> QED BY <3>1, <3>2 DEF a
    <2>2. \A k \in 1..(to - from) : P[k] = R[((from + 1) + k) - 1]
      BY <1>1, <1>4, <1>7
    <2>3. \A k \in 1..(to - from) : ((from + 1) + k) - 1 = from + k
      BY <1>1
    <2> QED BY <2>1, <2>2, <2>3
  <1> HIDE DEF P
  <1>10. j - from \in 1..(to - from) /\ from + (j - from) = j
    BY <1>1, <1>3, <1>5, <1>7
  <1>11. P[j - from] = n
    BY <1>6, <1>9, <1>10
  <1> QED BY <1>8, <1>9, <1>10, <1>11 DEF Range

\* A page shows only what is in the buffer.
LEMMA PageShowsBuffer ==
  ASSUME BufferInv, NEW p \in Nat \ {0}
  PROVE  Range(PageOf(p)) \subseteq 1..detected
  <1> DEFINE from == (p - 1) * PageLimit
             len == Len(buffer)
             R == Reverse(buffer)
             to == IF from + PageLimit < len THEN from + PageLimit ELSE len
             P == SubSeq(R, from + 1, to)
  <1>1. /\ PageLimit \in Nat \ {0} /\ detected \in Nat /\ len \in Nat /\ from \in Nat
        /\ len <= detected
    BY ApiAssumption DEF BufferInv
  <1>2. R \in Seq(Nat) /\ Len(R) = len /\ DOMAIN R = 1..len
    BY <1>1 DEF BufferInv, Reverse
  <1>3. \A k \in 1..len : R[k] \in 1..detected
    <2> SUFFICES ASSUME NEW k \in 1..len PROVE R[k] \in 1..detected
      OBVIOUS
    <2>1. (len - k) + 1 \in 1..len
      BY <1>1
    <2>2. R[k] = buffer[(len - k) + 1]
      BY <1>1 DEF Reverse
    <2>3. buffer[(len - k) + 1] = detected - len + ((len - k) + 1)
      BY <2>1 DEF BufferInv
    <2> QED BY <1>1, <2>1, <2>2, <2>3
  <1>4. PageOf(p) = P
    BY <1>2 DEF PageOf, Slice
  <1>4a. Len(R) = len
    BY <1>2
  <1> HIDE DEF R, from
  <1>5. to \in Nat /\ to <= len
    BY <1>1
  <1> HIDE DEF to, len
  <1>6. \A k \in DOMAIN P : from + k \in 1..len /\ P[k] = R[from + k]
    BY <1>1, <1>2, <1>5
  <1> QED BY <1>3, <1>4, <1>6 DEF Range

\* A new claim joins the buffer and may push the oldest out.
LEMMA HandleClaimKeeps ==
  ASSUME BufferInv, ReaderInv, HandleClaim
  PROVE  BufferInv' /\ ReaderInv'
  <1> DEFINE b == Append(buffer, detected + 1)
             n == Len(buffer)
  <1>1. /\ n \in Nat /\ detected \in Nat /\ claimBufferSize \in Nat \ {0} /\ MaxClaims \in Nat
        /\ n <= detected /\ n <= claimBufferSize /\ buffer \in Seq(Nat)
    BY ApiAssumption DEF BufferInv
  <1>2. detected' = detected + 1 /\ detected' \in 0..MaxClaims
    BY <1>1 DEF HandleClaim
  <1>3. b \in Seq(Nat) /\ Len(b) = n + 1 /\ b # <<>> /\ DOMAIN b = 1..(n + 1)
    BY <1>1
  <1>4. \A k \in 1..(n + 1) : b[k] = detected - n + k
    BY <1>1 DEF BufferInv
  <1>5. buffer' = IF Len(b) > claimBufferSize THEN Tail(b) ELSE b
    BY DEF HandleClaim
  <1>6. \A m \in Range(buffer') : m \in Range(buffer) \/ m = detected + 1
    <2>1. \A k \in DOMAIN b : b[k] \in Range(buffer) \cup {detected + 1}
      BY <1>1 DEF Range
    <2> HIDE DEF b
    <2>2. \A k \in DOMAIN Tail(b) : k + 1 \in DOMAIN b /\ Tail(b)[k] = b[k + 1]
      BY <1>1, <1>3
    <2> QED BY <1>5, <2>1, <2>2 DEF Range
  <1> HIDE DEF b
  <1>7. BufferInv'
    <2>1. CASE n + 1 > claimBufferSize
      <3>1. buffer' = Tail(b)
        BY <1>3, <1>5, <2>1
      <3>2. Tail(b) \in Seq(Nat) /\ Len(Tail(b)) = n
        BY <1>1, <1>3
      <3>3. \A k \in 1..n : Tail(b)[k] = b[k + 1] /\ k + 1 \in 1..(n + 1)
        BY <1>1, <1>3
      <3>4. \A k \in 1..n : Tail(b)[k] = ((detected + 1) - n) + k
        <4> HIDE DEF n
        <4> TAKE k \in 1..n
        <4>1. k + 1 \in 1..(n + 1) /\ Tail(b)[k] = b[k + 1]
          BY <3>3
        <4>2. b[k + 1] = (detected - n) + (k + 1)
          BY <1>4, <4>1
        <4>3. (detected - n) + (k + 1) = ((detected + 1) - n) + k
          BY <1>1
        <4> QED BY <4>1, <4>2, <4>3
      <3> HIDE DEF n
      <3>5. Len(buffer') = n /\ buffer' \in Seq(Nat)
        BY <3>1, <3>2
      <3>6. \A k \in 1..n : buffer'[k] = (detected' - n) + k
        BY <1>2, <3>1, <3>4
      <3>7. n <= claimBufferSize /\ n <= detected'
        BY <1>1, <1>2
      <3> QED BY <1>2, <3>5, <3>6, <3>7 DEF BufferInv
    <2>2. CASE ~(n + 1 > claimBufferSize)
      <3>1. buffer' = b
        BY <1>3, <1>5, <2>2
      <3> HIDE DEF n
      <3>2. \A k \in 1..(n + 1) : b[k] = ((detected + 1) - (n + 1)) + k
        BY <1>1, <1>4
      <3>3. Len(buffer') = n + 1 /\ buffer' \in Seq(Nat)
        BY <1>3, <3>1
      <3>4. \A k \in 1..(n + 1) : buffer'[k] = (detected' - (n + 1)) + k
        BY <1>2, <3>1, <3>2
      <3>5. n + 1 <= claimBufferSize /\ n + 1 <= detected'
        BY <1>1, <1>2, <2>2
      <3> QED BY <1>2, <3>3, <3>4, <3>5 DEF BufferInv
    <2> QED BY <2>1, <2>2
  <1>8. ReaderInv'
    <2>1. reader' = reader
      BY DEF HandleClaim
    <2>2. \A m \in reader.there \cap Range(buffer') : m \in Range(buffer) /\ m \in Nat
      BY <1>1, <1>6 DEF ReaderInv, ReadSoFar
    <2>3. (reader.page - 1) * PageLimit \in Nat
      BY ApiAssumption DEF ReaderInv, ReadSoFar
    <2> DEFINE K == (reader.page - 1) * PageLimit
    <2>4. reader.at = "reading" =>
              \A m \in reader.there \cap Range(buffer) : m > detected - K => m \in reader.seen
      BY DEF ReaderInv, ReadSoFar
    <2> HIDE DEF K
    <2>5. K \in Nat
      BY <2>3 DEF K
    <2>6. reader.at = "reading" =>
              \A m \in reader.there \cap Range(buffer') : m > detected' - K => m \in reader.seen
      BY <1>1, <1>2, <2>2, <2>4, <2>5
    <2>7. PagesMissNothing'
      BY <2>1, <2>2 DEF ReaderInv, ReadSoFar, PagesMissNothing
    <2>8. reader.there \subseteq 1..detected' /\ reader.seen \subseteq 1..detected'
      BY <1>1, <1>2 DEF ReaderInv, ReadSoFar
    <2>9. reader.at \in {"idle", "reading", "done"} /\ reader.page \in Nat \ {0}
      BY DEF ReaderInv, ReadSoFar
    <2>10. /\ reader'.there = reader.there /\ reader'.seen = reader.seen
           /\ reader'.at = reader.at /\ reader'.page = reader.page
      BY <2>1
    <2>11. reader'.there \subseteq 1..detected' /\ reader'.seen \subseteq 1..detected'
      BY <2>8, <2>10
    <2>12. reader'.at \in {"idle", "reading", "done"} /\ reader'.page \in Nat \ {0}
      BY <2>9, <2>10
    <2>13. ReadSoFar'
      BY <2>6, <2>10 DEF ReadSoFar, K
    <2> QED BY <2>7, <2>11, <2>12, <2>13 DEF ReaderInv
  <1> QED BY <1>7, <1>8

\* Reading a page keeps what is said of the reader.
LEMMA ReadPageKeeps ==
  ASSUME BufferInv, ReaderInv, NEW c, ReadPage(c)
  PROVE  ReaderInv'
  <1> DEFINE first == reader.at # "reading"
             p == IF first THEN 1 ELSE reader.page
             K == (p - 1) * PageLimit
             len == Len(buffer)
             seenNow == Range(PageOf(p)) \cup (IF first THEN {} ELSE reader.seen)
             thereNow == IF first THEN Range(buffer) ELSE reader.there
  <1>1. p \in Nat \ {0} /\ PageLimit \in Nat \ {0} /\ len \in Nat /\ detected \in Nat /\ K \in Nat
    <2>1. p \in Nat \ {0}
      BY DEF ReaderInv
    <2>2. PageLimit \in Nat \ {0}
      BY ApiAssumption
    <2>3. len \in Nat /\ detected \in Nat
      BY DEF BufferInv
    <2>4. \A a, b \in Nat \ {0} : (a - 1) * b \in Nat
      OBVIOUS
    <2> QED BY <2>1, <2>2, <2>3, <2>4
  <1>2. /\ reader'.at = IF p * PageLimit < len THEN "reading" ELSE "done"
        /\ reader'.page = p + 1 /\ reader'.seen = seenNow /\ reader'.there = thereNow
        /\ buffer' = buffer /\ detected' = detected
    BY DEF ReadPage, claimVars
  <1>3. p * PageLimit = K + PageLimit /\ ((p + 1) - 1) * PageLimit = K + PageLimit
    BY <1>1
  <1>4. \A n \in Range(buffer) : n \in 1..detected /\ n > detected - len
    BY <1>1 DEF BufferInv, Range
  <1>5. \A n \in thereNow \cap Range(buffer) : n > detected - (K + PageLimit) => n \in seenNow
    <2> SUFFICES ASSUME NEW n \in thereNow \cap Range(buffer), n > detected - (K + PageLimit)
                 PROVE  n \in seenNow
      OBVIOUS
    <2>1. CASE n <= detected - K
      <3>1. n \in Range(PageOf(p))
        BY <1>1, <1>3, <2>1, PageHolds
      <3> QED BY <3>1
    <2>2. CASE ~(n <= detected - K)
      <3>1. n > detected - K
        BY <1>1, <1>4, <2>2
      <3>2. ~first
        BY <1>1, <1>4, <3>1
      <3> QED BY <3>1, <3>2 DEF ReaderInv, ReadSoFar
    <2> QED BY <2>1, <2>2
  <1>6. thereNow \subseteq 1..detected /\ seenNow \subseteq 1..detected
    <2>1. Range(PageOf(p)) \subseteq 1..detected
      BY <1>1, PageShowsBuffer
    <2> QED BY <1>4, <2>1 DEF ReaderInv, ReadSoFar
  <1> HIDE DEF seenNow, thereNow, K, p, len
  <1>7. reader'.at = "done" => (thereNow \cap Range(buffer)) \subseteq seenNow
    <2> SUFFICES ASSUME ~(K + PageLimit < len), NEW n \in thereNow \cap Range(buffer)
                 PROVE  n \in seenNow
      BY <1>2, <1>3
    <2> QED BY <1>1, <1>4, <1>5
  <1>8. \A n \in reader'.there \cap Range(buffer') :
            n > detected' - (reader'.page - 1) * PageLimit => n \in reader'.seen
    BY <1>2, <1>3, <1>5
  <1>9. PagesMissNothing'
    BY <1>2, <1>7 DEF PagesMissNothing
  <1> QED BY <1>1, <1>2, <1>6, <1>8, <1>9 DEF ReaderInv, ReadSoFar

\* Only ReadPage and HandleClaim touch what is said of the reader.
LEMMA ClaimsKeep ==
  ASSUME BufferInv, ReaderInv, [Next]_vars
  PROVE  BufferInv' /\ ReaderInv'
  <1>1. ASSUME HandleClaim PROVE BufferInv' /\ ReaderInv'
    BY <1>1, HandleClaimKeeps
  <1>2. ASSUME NEW c, ReadPage(c) PROVE BufferInv' /\ ReaderInv'
    <2>1. ReaderInv'
      BY <1>2, ReadPageKeeps
    <2>2. BufferInv'
      BY <1>2 DEF ReadPage, claimVars, BufferInv
    <2> QED BY <2>1, <2>2
  <1>3. ASSUME UNCHANGED <<claimVars, reader>> PROVE BufferInv' /\ ReaderInv'
    BY <1>3 DEF claimVars, BufferInv, ReaderInv, ReadSoFar, PagesMissNothing
  <1> QED BY <1>1, <1>2, <1>3 DEF Next, vars, TooMany, OtherRequest, OpenStream, CloseStream

\* The ids of two streams are equal when their clients and instants are.
LEMMA SameId ==
  ASSUME NEW a, NEW b, NEW x, NEW y, SubscriberId(a, x) = SubscriberId(b, y)
  PROVE  a = b /\ x = y
  BY DEF SubscriberId

\* Opening a stream: it takes over its id.
LEMMA OpenStreamKeeps ==
  ASSUME RateInv, StreamInv, NEW c \in Client, NEW s \in Stream, OpenStream(c, s)
  PROVE  StreamInv'
  <1> DEFINE id == SubscriberId(c, now)
             new == [at |-> "open", client |-> c, since |-> now]
             subs == [k \in (DOMAIN subscribers) \cup {id} |-> IF k = id THEN s ELSE subscribers[k]]
  <1>1. /\ stream[s] = NotOpened /\ stream' = [stream EXCEPT ![s] = new]
        /\ subscribers' = subs /\ now' = now /\ now \in 0..MaxTime
    BY DEF OpenStream, Allow, RateInv
  <1>2. /\ new \in Connection /\ new.at = "open" /\ new.client = c /\ new.since = now
        /\ new # NotOpened
    BY <1>1 DEF Connection, NotOpened
  <1>3. stream' \in [Stream -> Connection] /\ stream'[s] = new
        /\ (\A t \in Stream \ {s} : stream'[t] = stream[t])
    BY <1>1, <1>2 DEF StreamInv
  <1>4. id \in Client \X (0..now)
    BY <1>1 DEF SubscriberId
  <1>5. DOMAIN subs = (DOMAIN subscribers) \cup {id} /\ subs[id] = s
        /\ (\A k \in (DOMAIN subscribers) \ {id} : subs[k] = subscribers[k])
    OBVIOUS
  <1> HIDE DEF new, id, subs
  <1>6. \A k \in DOMAIN subscribers : subscribers[k] # s
    BY <1>1 DEF StreamInv, NotOpened
  <1>7. \A k \in DOMAIN subs :
            /\ subs[k] \in Stream /\ stream'[subs[k]].at = "open"
            /\ k = SubscriberId(stream'[subs[k]].client, stream'[subs[k]].since)
    <2> TAKE k \in DOMAIN subs
    <2>1. CASE k = id
      BY <1>2, <1>3, <1>5, <2>1 DEF id
    <2>2. CASE k # id
      <3>1. k \in DOMAIN subscribers /\ subs[k] = subscribers[k]
        BY <1>5, <2>2
      <3>2. subs[k] # s /\ subs[k] \in Stream /\ stream'[subs[k]] = stream[subs[k]]
        BY <1>3, <1>6, <3>1 DEF StreamInv
      <3> QED BY <3>1, <3>2 DEF StreamInv
    <2> QED BY <2>1, <2>2
  <1>8. OpenStreamsHear'
    <2> SUFFICES ASSUME NEW u \in Stream, stream'[u].at = "open", u \notin Range(subs)
                 PROVE  \E t \in Stream \ {u} : /\ stream'[t] # NotOpened
                                               /\ stream'[t].client = stream'[u].client
                                               /\ stream'[t].since = stream'[u].since
      BY <1>1 DEF OpenStreamsHear
    <2>1. u # s
      BY <1>5 DEF Range
    <2>2. stream'[u] = stream[u] /\ stream[u].at = "open"
      BY <1>3, <2>1
    <2>3. CASE u \in Range(subscribers)
      <3>1. PICK k \in DOMAIN subscribers : subscribers[k] = u
        BY <2>3 DEF Range
      <3>2. k = id
        BY <1>5, <3>1 DEF Range
      <3>3. SubscriberId(stream[u].client, stream[u].since) = SubscriberId(c, now)
        BY <3>1, <3>2 DEF StreamInv, id
      <3>4. stream[u].client = c /\ stream[u].since = now
        BY <3>3, SameId
      <3> QED BY <1>2, <1>3, <2>1, <2>2, <3>4
    <2>4. CASE u \notin Range(subscribers)
      <3>1. PICK t \in Stream \ {u} : /\ stream[t] # NotOpened
                                     /\ stream[t].client = stream[u].client
                                     /\ stream[t].since = stream[u].since
        BY <2>2, <2>4 DEF StreamInv, OpenStreamsHear
      <3>2. t # s
        BY <1>1, <3>1
      <3> QED BY <1>3, <2>2, <3>1, <3>2
    <2> QED BY <2>3, <2>4
  <1>9. DOMAIN subs \subseteq Client \X (0..now)
    BY <1>4, <1>5 DEF StreamInv
  <1>10. subs = [k \in DOMAIN subs |-> subs[k]]
    BY DEF subs
  <1> QED BY <1>1, <1>3, <1>7, <1>8, <1>9, <1>10 DEF StreamInv

\* Closing a stream: its id loses its subscriber, which may be another stream.
LEMMA CloseStreamKeeps ==
  ASSUME RateInv, StreamInv, NEW s \in Stream, CloseStream(s)
  PROVE  StreamInv'
  <1> DEFINE id == SubscriberId(stream[s].client, stream[s].since)
             subs == [k \in (DOMAIN subscribers) \ {id} |-> subscribers[k]]
  <1>1. /\ stream[s].at = "open" /\ stream' = [stream EXCEPT ![s].at = "closed"]
        /\ subscribers' = subs /\ now' = now
    BY DEF CloseStream, rateVars
  <1>2. stream[s] \in [at : {"open", "closed"}, client : Client, since : 0..MaxTime]
    BY <1>1 DEF StreamInv, Connection, NotOpened
  <1>3. /\ stream' \in [Stream -> Connection]
        /\ stream'[s].at = "closed" /\ stream'[s].client = stream[s].client
        /\ stream'[s].since = stream[s].since /\ stream'[s] # NotOpened
        /\ (\A t \in Stream \ {s} : stream'[t] = stream[t])
    <2> DEFINE old == stream[s]
               new == [at |-> "closed", client |-> old.client, since |-> old.since]
    <2>1. [old EXCEPT !.at = "closed"] = new
      BY <1>2
    <2>2. stream' = [stream EXCEPT ![s] = new]
      BY <1>1, <2>1 DEF StreamInv
    <2>3. new \in Connection /\ new.at = "closed" /\ new.client = old.client
          /\ new.since = old.since /\ new # NotOpened
      BY <1>2 DEF Connection, NotOpened
    <2> HIDE DEF new
    <2> QED BY <2>2, <2>3 DEF StreamInv
  <1>4. DOMAIN subs = (DOMAIN subscribers) \ {id}
        /\ (\A k \in (DOMAIN subscribers) \ {id} : subs[k] = subscribers[k])
    OBVIOUS
  <1> HIDE DEF subs, id
  <1>5. \A k \in DOMAIN subs :
            /\ subs[k] \in Stream /\ stream'[subs[k]].at = "open"
            /\ k = SubscriberId(stream'[subs[k]].client, stream'[subs[k]].since)
    <2> TAKE k \in DOMAIN subs
    <2>1. k \in DOMAIN subscribers /\ subs[k] = subscribers[k] /\ k # id
      BY <1>4
    <2>2. subs[k] # s
      BY <2>1 DEF StreamInv, id
    <2>3. subs[k] \in Stream /\ stream'[subs[k]] = stream[subs[k]]
      BY <1>3, <2>1, <2>2 DEF StreamInv
    <2> QED BY <2>1, <2>3 DEF StreamInv
  <1>6. OpenStreamsHear'
    <2> SUFFICES ASSUME NEW u \in Stream, stream'[u].at = "open", u \notin Range(subs)
                 PROVE  \E t \in Stream \ {u} : /\ stream'[t] # NotOpened
                                               /\ stream'[t].client = stream'[u].client
                                               /\ stream'[t].since = stream'[u].since
      BY <1>1 DEF OpenStreamsHear
    <2>1. u # s
      BY <1>3
    <2>2. stream'[u] = stream[u] /\ stream[u].at = "open"
      BY <1>3, <2>1
    <2>3. CASE u \in Range(subscribers)
      <3>1. PICK k \in DOMAIN subscribers : subscribers[k] = u
        BY <2>3 DEF Range
      <3>2. k = id
        BY <1>4, <3>1 DEF Range
      <3>3. SubscriberId(stream[u].client, stream[u].since)
              = SubscriberId(stream[s].client, stream[s].since)
        BY <3>1, <3>2 DEF StreamInv, id
      <3>4. stream[u].client = stream[s].client /\ stream[u].since = stream[s].since
        BY <3>3, SameId
      <3> QED BY <1>3, <2>1, <2>2, <3>4
    <2>4. CASE u \notin Range(subscribers)
      <3>1. PICK t \in Stream \ {u} : /\ stream[t] # NotOpened
                                     /\ stream[t].client = stream[u].client
                                     /\ stream[t].since = stream[u].since
        BY <2>2, <2>4 DEF StreamInv, OpenStreamsHear
      <3>2. stream'[t] # NotOpened /\ stream'[t].client = stream[t].client
            /\ stream'[t].since = stream[t].since
        BY <1>3, <3>1
      <3> QED BY <2>2, <3>1, <3>2
    <2> QED BY <2>3, <2>4
  <1>7. DOMAIN subs \subseteq Client \X (0..now)
    BY <1>4 DEF StreamInv
  <1>8. subs = [k \in DOMAIN subs |-> subs[k]]
    BY DEF subs
  <1> QED BY <1>1, <1>3, <1>5, <1>6, <1>7, <1>8 DEF StreamInv

\* The other steps leave the streams alone; time only goes on.
LEMMA StreamsKeep ==
  ASSUME RateInv, StreamInv, [Next]_vars
  PROVE  StreamInv'
  <1>1. ASSUME NEW c \in Client, NEW s \in Stream, OpenStream(c, s) PROVE StreamInv'
    BY <1>1, OpenStreamKeeps
  <1>2. ASSUME NEW s \in Stream, CloseStream(s) PROVE StreamInv'
    BY <1>2, CloseStreamKeeps
  <1>3. ASSUME UNCHANGED streamVars, now' \in Nat, now' >= now PROVE StreamInv'
    <2>1. now \in Nat /\ (0..now) \subseteq 0..now'
      BY <1>3 DEF RateInv
    <2>2. Client \X (0..now) \subseteq Client \X (0..now')
      BY <2>1
    <2>3. OpenStreamsHear'
      BY <1>3 DEF StreamInv, OpenStreamsHear, streamVars
    <2> QED BY <1>3, <2>2, <2>3 DEF StreamInv, streamVars
  <1>4. now \in Nat
    BY DEF RateInv
  <1>5. ASSUME Tick \/ Cleanup \/ (\E c \in Client : Allow(c) \/ Refuse(c)) \/ UNCHANGED rateVars
        PROVE  now' \in Nat /\ now' >= now
    BY <1>4, <1>5 DEF Tick, Cleanup, Allow, Refuse, rateVars
  <1>6. now' \in Nat /\ now' >= now
    BY <1>5, NextTakesRateStep
  <1>7. \/ \E c \in Client, s \in Stream : OpenStream(c, s)
        \/ \E s \in Stream : CloseStream(s)
        \/ UNCHANGED streamVars
    BY DEF Next, vars, TooMany, OtherRequest, ReadPage, HandleClaim
  <1> QED BY <1>1, <1>2, <1>3, <1>6, <1>7

------------------------------------------------------------------------------
(* Theorems *)

\* The inductive invariant of the API's view of the claims.
THEOREM ApiInvariant == Spec => []IInv
  <1>1. Init => IInv
    <2> SUFFICES ASSUME Init PROVE IInv
      OBVIOUS
    <2>1. RateInv
      BY RateInitInv DEF Init
    <2>2. BufferInv
      BY ApiAssumption DEF Init, BufferInv
    <2>3. ReaderInv
      BY DEF Init, ReaderInv, ReadSoFar, PagesMissNothing
    <2>4. StreamInv
      BY DEF Init, StreamInv, OpenStreamsHear, Connection, NotOpened
    <2> QED BY <2>1, <2>2, <2>3, <2>4 DEF IInv
  <1>2. IInv /\ [Next]_vars => IInv'
    BY RateStepKeeps, NextTakesRateStep, ClaimsKeep, StreamsKeep DEF IInv
  <1> QED BY <1>1, <1>2, PTL DEF Spec

\* Types, the buffer as the newest claims in order, and no subscriber left of a
\* connection that is closed.
THEOREM ApiTypeOK == Spec => []TypeOK
  <1>1. IInv => TypeOK
    <2> SUFFICES ASSUME IInv PROVE TypeOK
      OBVIOUS
    <2>1. RateTypeOK
      <3>1. lastClean \in [Client -> 0..MaxTime]
        BY RateAssumption DEF IInv, RateInv, LimiterOf
      <3>2. allowedAt \in [Client -> Seq(0..MaxTime)]
        BY DEF IInv, RateInv, LimiterOf
      <3> QED BY <3>1, <3>2 DEF IInv, RateInv, LimiterOf, RateTypeOK
    <2>2. buffer = [k \in 1..Len(buffer) |-> detected - Len(buffer) + k]
      BY DEF IInv, BufferInv
    <2> QED BY <2>1, <2>2 DEF IInv, BufferInv, ReaderInv, ReadSoFar, StreamInv, TypeOK
  <1> QED BY <1>1, ApiInvariant, PTL

\* The server admits at most rateLimitMax requests of a client in any window,
\* although check() and the cleanup timer keep dropping timestamps.
THEOREM ApiRateRespected == Spec => []RateRespected
  <1>1. IInv => RateRespected
    BY DEF IInv, RateInv, RespectedBy, RateRespected
  <1> QED BY <1>1, ApiInvariant, PTL

\* A client that follows the pages to the end has seen every claim that was
\* buffered all the time, however many arrived and were evicted meanwhile.
THEOREM ApiPagesMissNothing == Spec => []PagesMissNothing
  <1>1. IInv => PagesMissNothing
    BY DEF IInv, ReaderInv, ReadSoFar
  <1> QED BY <1>1, ApiInvariant, PTL

\* Only a stream that shares its subscriber id can miss a claim.
THEOREM ApiOpenStreamsHear == Spec => []OpenStreamsHear
  <1>1. IInv => OpenStreamsHear
    BY DEF IInv, StreamInv
  <1> QED BY <1>1, ApiInvariant, PTL

------------------------------------------------------------------------------
\* The watches: their limit, and the deliveries to their URLs.

\* Limits and bounds are numbers.
Bounds == {maxWatchesPerClient, MAX_RETRIES, MaxWatches, MaxHooked, MaxRestarts} \subseteq Nat

LimitedTo(ws, c) == /\ IsFiniteSet(Owned(ws, c))
                    /\ Cardinality(Owned(ws, c)) <= maxWatchesPerClient

\* What the process and the file may hold when ids up to i were given out.
Kept(ws, i) == /\ ws \subseteq Watch
               /\ \A w \in ws : w.id <= i
               /\ \A v, w \in ws : v.id = w.id => v = w
               /\ \A c \in Client : LimitedTo(ws, c)

WatchInv == /\ idCounter \in 0..MaxWatches
            /\ Kept(watches, idCounter)
            /\ file = Torn \/ Kept(file, idCounter)
            /\ request \in [Request -> Body \cup {Idle}]

\* What a delivery's stage says of the posts processed and the answers too late.
Accounts(k) ==
    /\ k.attempt <= MAX_RETRIES
    /\ k.at = "posted" => k.received = k.late /\ k.received <= k.attempt
    /\ k.at = "processed" => k.received = k.late + 1
    /\ k.at = "backoff" => k.received = k.late /\ k.attempt < MAX_RETRIES
    /\ k.at = "givenUp" => k.received = k.late /\ k.attempt = MAX_RETRIES
    /\ k.at = "delivered" => k.received = k.late + 1
    /\ k.received <= k.late + 1
    /\ k.received <= k.attempt + 1

Delivery == [at : Stages, attempt : 0..MAX_RETRIES, received : Nat, late : Nat]

HookInv == /\ claims \in Seq(Wallet) /\ Len(claims) <= MaxHooked
           /\ hook \in [Hook -> Delivery]
           /\ \A h \in Hook : Accounts(hook[h])
           /\ \A h \in Hook : h[1] > Len(claims) => hook[h] = Unused

WatchesInv == WatchInv /\ HookInv

------------------------------------------------------------------------------
\* Ids given out later do not disturb what is kept.
LEMMA KeptGrows ==
  ASSUME Bounds, NEW i \in 0..MaxWatches, NEW j \in 0..MaxWatches, i <= j,
         NEW ws, Kept(ws, i)
  PROVE  Kept(ws, j)
  <1>1. MaxWatches \in Nat
    BY DEF Bounds
  <1>2. \A w \in ws : w.id \in 1..MaxWatches
    BY DEF Kept, Watch, Id
  <1> QED BY <1>1, <1>2 DEF Kept

\* addApiWatch(), after the test of the limit.
LEMMA AddKeeps ==
  ASSUME Bounds, NEW i \in 0..MaxWatches, i < MaxWatches, NEW ws, Kept(ws, i),
         NEW w \in Watch, w.id = i + 1,
         Cardinality(Owned(ws, w.client)) < maxWatchesPerClient
  PROVE  Kept(ws \cup {w}, i + 1)
  <1> DEFINE new == ws \cup {w}
  <1>1. MaxWatches \in Nat /\ maxWatchesPerClient \in Nat
    BY DEF Bounds
  <1>2. \A v \in ws : v.id \in 1..MaxWatches /\ v.id <= i
    BY DEF Kept, Watch, Id
  <1>3. new \subseteq Watch /\ \A v \in new : v.id <= i + 1
    BY <1>1, <1>2 DEF Kept
  <1>4. \A u, v \in new : u.id = v.id => u = v
    BY <1>1, <1>2 DEF Kept
  <1>5. ASSUME NEW c \in Client PROVE LimitedTo(new, c)
    <2> DEFINE S == Owned(ws, c)
    <2>1. IsFiniteSet(S) /\ Cardinality(S) <= maxWatchesPerClient
      BY DEF Kept, LimitedTo
    <2>2. Cardinality(S) \in Nat
      BY <2>1, FS_CardinalityType
    <2>3. CASE w.client = c
      <3>1. Owned(new, c) = S \cup {w}
        BY <2>3 DEF Owned
      <3>2. w \notin S
        BY <1>1, <1>2 DEF Owned
      <3>3. Cardinality(S) < maxWatchesPerClient
        BY <2>3
      <3> HIDE DEF S, new
      <3>4. IsFiniteSet(S \cup {w}) /\ Cardinality(S \cup {w}) = Cardinality(S) + 1
        BY <2>1, <3>2, FS_AddElement
      <3> QED BY <1>1, <2>2, <3>1, <3>3, <3>4 DEF LimitedTo
    <2>4. CASE w.client # c
      <3>1. Owned(new, c) = S
        BY <2>4 DEF Owned
      <3> QED BY <2>1, <3>1 DEF LimitedTo
    <2> QED BY <2>3, <2>4
  <1> QED BY <1>3, <1>4, <1>5 DEF Kept

\* updateApiWatch() replaces a watch by one of the same id and client.
LEMMA ReplaceKeeps ==
  ASSUME Bounds, NEW i, NEW ws, Kept(ws, i), NEW w \in ws,
         NEW v \in Watch, v.id = w.id, v.client = w.client
  PROVE  Kept((ws \ {w}) \cup {v}, i)
  <1> DEFINE new == (ws \ {w}) \cup {v}
  <1>1. new \subseteq Watch /\ \A u \in new : u.id <= i
    BY DEF Kept
  <1>2. \A t, u \in new : t.id = u.id => t = u
    BY DEF Kept
  <1>3. ASSUME NEW c \in Client PROVE LimitedTo(new, c)
    <2> DEFINE S == Owned(ws, c)
               R == S \ {w}
    <2>1. IsFiniteSet(S) /\ Cardinality(S) <= maxWatchesPerClient
      BY DEF Kept, LimitedTo
    <2>2. Cardinality(S) \in Nat /\ maxWatchesPerClient \in Nat
      BY <2>1, FS_CardinalityType DEF Bounds
    <2>3. CASE w.client = c
      <3>1. w \in S /\ Owned(new, c) = R \cup {v}
        BY <2>3 DEF Owned
      <3> HIDE DEF S, new
      <3>2. IsFiniteSet(R) /\ Cardinality(R) = Cardinality(S) - 1
        BY <2>1, <3>1, FS_RemoveElement
      <3> HIDE DEF R
      <3>3. IsFiniteSet(R \cup {v}) /\ Cardinality(R \cup {v}) <= Cardinality(R) + 1
        <4>1. Cardinality(R) \in Nat
          BY <3>2, FS_CardinalityType
        <4>2. IsFiniteSet(R)
          BY <3>2
        <4>3. /\ IsFiniteSet(R \cup {v})
              /\ Cardinality(R \cup {v}) = IF v \in R THEN Cardinality(R) ELSE Cardinality(R) + 1
          BY <4>2, FS_AddElement
        <4> QED BY <4>1, <4>3
      <3>4. Cardinality(R \cup {v}) \in Nat
        BY <3>3, FS_CardinalityType
      <3> QED BY <2>1, <2>2, <3>1, <3>2, <3>3, <3>4 DEF LimitedTo
    <2>4. CASE w.client # c
      <3>1. Owned(new, c) = S
        BY <2>4 DEF Owned
      <3> QED BY <2>1, <3>1 DEF LimitedTo
    <2> QED BY <2>3, <2>4
  <1> QED BY <1>1, <1>2, <1>3 DEF Kept

\* removeApiWatch()
LEMMA RemoveKeeps ==
  ASSUME Bounds, NEW i, NEW ws, Kept(ws, i), NEW new \in SUBSET ws
  PROVE  Kept(new, i)
  <1>1. ASSUME NEW c \in Client PROVE LimitedTo(new, c)
    <2> DEFINE S == Owned(ws, c)
               R == Owned(new, c)
    <2>1. IsFiniteSet(S) /\ Cardinality(S) <= maxWatchesPerClient
      BY DEF Kept, LimitedTo
    <2>2. R \subseteq S
      BY DEF Owned
    <2> SUFFICES IsFiniteSet(R) /\ Cardinality(R) <= maxWatchesPerClient
      BY DEF LimitedTo
    <2> HIDE DEF S, R
    <2>3. IsFiniteSet(R) /\ Cardinality(R) <= Cardinality(S)
      BY <2>1, <2>2, FS_Subset
    <2>4. Cardinality(R) \in Nat /\ Cardinality(S) \in Nat
      BY <2>1, <2>3, FS_CardinalityType
    <2>5. maxWatchesPerClient \in Nat
      BY DEF Bounds
    <2> QED BY <2>1, <2>3, <2>4, <2>5
  <1> QED BY <1>1 DEF Kept

\* No watches at all may be kept.
LEMMA EmptyKept ==
  ASSUME Bounds, NEW i
  PROVE  Kept({}, i)
  <1>1. \A c \in Client : Owned({}, c) = {}
    BY DEF Owned
  <1>2. IsFiniteSet({}) /\ Cardinality({}) = 0
    BY FS_EmptySet
  <1> QED BY <1>1, <1>2 DEF Kept, LimitedTo, Bounds

------------------------------------------------------------------------------
(* The initial state *)

\* The invariant holds at first.
LEMMA InitInv ==
  ASSUME Bounds, WatchesInit
  PROVE  WatchesInv
  <1>1. WatchInv
    <2>1. Kept({}, 0)
      BY EmptyKept
    <2> QED BY <2>1 DEF WatchInv, WatchesInit, Bounds
  <1>2. HookInv
    <2>1. claims \in Seq(Wallet) /\ Len(claims) = 0
      BY DEF WatchesInit
    <2>2. Unused \in Delivery /\ Accounts(Unused)
      BY DEF Unused, Delivery, Accounts, Stages, Bounds
    <2> QED BY <2>1, <2>2 DEF HookInv, WatchesInit, Bounds
  <1> QED BY <1>1, <1>2 DEF WatchesInv

------------------------------------------------------------------------------
(* The watches *)

\* What saveApiWatches() may leave in the file is kept when the watches are.
LEMMA SavedKeeps ==
  ASSUME Bounds, WatchInv, Saved, idCounter' \in 0..MaxWatches, idCounter <= idCounter',
         Kept(watches', idCounter')
  PROVE  file' = Torn \/ Kept(file', idCounter')
  <1>1. CASE file' = file
    <2>1. idCounter \in 0..MaxWatches
      BY DEF WatchInv
    <2>2. CASE Kept(file, idCounter)
      BY <1>1, <2>1, <2>2, KeptGrows
    <2> QED BY <1>1, <2>2 DEF WatchInv
  <1> QED BY <1>1 DEF Saved

\* A step of the API keeps what is known of the watches.
LEMMA WatchStep ==
  ASSUME Bounds, WatchInv, WatchesNext
  PROVE  WatchInv'
  <1>0. /\ idCounter \in 0..MaxWatches /\ Kept(watches, idCounter) /\ MaxWatches \in Nat
        /\ file = Torn \/ Kept(file, idCounter)
        /\ request \in [Request -> Body \cup {Idle}]
    BY DEF WatchInv, Bounds
  <1>1. ASSUME NEW r \in Request, NEW body \in Body, Receive(r, body) PROVE WatchInv'
    BY <1>0, <1>1 DEF Receive, watchVars, WatchInv
  <1>2. ASSUME NEW r \in Request, NEW u \in Wallet, NEW url \in Url \cup {NoUrl},
               CreateWatch(r, u, url)
        PROVE  WatchInv'
    <2> DEFINE c == request[r].client
               w == [id |-> idCounter + 1, client |-> c, wallet |-> u, url |-> url,
                     active |-> TRUE]
    <2>1. c \in Client
      BY <1>0, <1>2 DEF CreateWatch, Body, Idle
    <2>2. /\ idCounter < MaxWatches /\ idCounter' = idCounter + 1
          /\ watches' = watches \cup {w}
          /\ Cardinality(Owned(watches, c)) < maxWatchesPerClient
          /\ Saved /\ request' = [request EXCEPT ![r] = Idle]
      BY <1>2 DEF CreateWatch
    <2>3. w \in Watch /\ w.id = idCounter + 1 /\ w.client = c
      BY <1>0, <2>1, <2>2 DEF Watch, Id
    <2>4. idCounter' \in 0..MaxWatches /\ idCounter <= idCounter'
      BY <1>0, <2>2
    <2>5. request' \in [Request -> Body \cup {Idle}]
      BY <1>0, <2>2
    <2> HIDE DEF w, c
    <2>6. Kept(watches', idCounter')
      BY <1>0, <2>2, <2>3, AddKeeps
    <2>7. file' = Torn \/ Kept(file', idCounter')
      BY <2>2, <2>4, <2>6, SavedKeeps
    <2> QED BY <2>4, <2>5, <2>6, <2>7 DEF WatchInv
  <1>3. ASSUME NEW r \in Request, NEW url \in Url \cup {NoUrl}, NEW active \in BOOLEAN,
               UpdateWatch(r, url, active)
        PROVE  WatchInv'
    <2>1. PICK w \in Named(watches, request[r].client, request[r].id) :
              watches' = (watches \ {w}) \cup {[w EXCEPT !.url = url, !.active = active]}
      BY <1>3 DEF UpdateWatch
    <2> DEFINE v == [w EXCEPT !.url = url, !.active = active]
    <2>2. /\ w \in watches /\ w \in Watch /\ Saved /\ idCounter' = idCounter
          /\ request' = [request EXCEPT ![r] = Idle]
      BY <1>0, <1>3 DEF UpdateWatch, Named, Owned, Kept
    <2>3. v \in Watch /\ v.id = w.id /\ v.client = w.client
      BY <2>2 DEF Watch
    <2>4. watches' = (watches \ {w}) \cup {v}
      BY <2>1
    <2>5. request' \in [Request -> Body \cup {Idle}]
      BY <1>0, <2>2
    <2> HIDE DEF v
    <2>6. Kept(watches', idCounter')
      BY <1>0, <2>2, <2>3, <2>4, ReplaceKeeps
    <2>7. file' = Torn \/ Kept(file', idCounter')
      BY <1>0, <2>2, <2>6, SavedKeeps
    <2> QED BY <1>0, <2>2, <2>5, <2>6, <2>7 DEF WatchInv
  <1>4. ASSUME NEW r \in Request, Rejected(r) PROVE WatchInv'
    BY <1>0, <1>4 DEF Rejected, watchVars, WatchInv
  <1>5. ASSUME NEW c \in Client, NEW i \in Id, DeleteWatch(c, i) PROVE WatchInv'
    <2>1. watches' \in SUBSET watches /\ Saved /\ UNCHANGED <<idCounter, request>>
      BY <1>5 DEF DeleteWatch
    <2>2. Kept(watches', idCounter')
      BY <1>0, <2>1, RemoveKeeps
    <2>3. file' = Torn \/ Kept(file', idCounter')
      BY <1>0, <2>1, <2>2, SavedKeeps
    <2> QED BY <1>0, <2>1, <2>2, <2>3 DEF WatchInv
  <1>6. ASSUME NEW u \in Wallet, DispatchWebhooks(u) PROVE WatchInv'
    BY <1>0, <1>6 DEF DispatchWebhooks, watchVars, WatchInv
  <1>7. ASSUME NEW h \in Hook, HookStep(h) PROVE WatchInv'
    BY <1>0, <1>7 DEF HookStep, Process, Answered, PostFails, Retry, hookRest, watchVars, WatchInv
  <1>8. CASE Restart
    <2>1. /\ watches' = (IF file = Torn THEN {} ELSE file)
          /\ UNCHANGED <<idCounter, file>> /\ request' = [r \in Request |-> Idle]
      BY <1>8 DEF Restart
    <2>2. Kept(watches', idCounter')
      BY <1>0, <2>1, EmptyKept
    <2> QED BY <1>0, <2>1, <2>2 DEF WatchInv
  <1> QED BY <1>1, <1>2, <1>3, <1>4, <1>5, <1>6, <1>7, <1>8 DEF WatchesNext

------------------------------------------------------------------------------
(* The deliveries *)

\* Every step of a delivery keeps its accounts.
LEMMA DeliveryStep ==
  ASSUME Bounds, HookInv, NEW h \in Hook, HookStep(h)
  PROVE  \E next \in Delivery : Accounts(next) /\ hook' = [hook EXCEPT ![h] = next]
  <1> DEFINE k == hook[h]
  <1>0. k \in Delivery /\ Accounts(k) /\ MAX_RETRIES \in Nat
    BY DEF HookInv, Bounds
  <1>00. /\ k.at \in Stages /\ k.attempt \in 0..MAX_RETRIES /\ k.received \in Nat
         /\ k.late \in Nat
    BY <1>0 DEF Delivery
  <1>1. CASE Process(h)
    <2> DEFINE next == [k EXCEPT !.at = "processed", !.received = @ + 1]
    <2>1. hook' = [hook EXCEPT ![h] = next] /\ k.at = "posted"
      BY <1>1 DEF Process, Step
    <2> HIDE DEF k
    <2>2. next \in Delivery /\ next.at = "processed" /\ next.attempt = k.attempt
          /\ next.received = k.received + 1 /\ next.late = k.late
      <3>1. "processed" \in Stages /\ k.received + 1 \in Nat
        BY <1>00 DEF Stages
      <3>2. next = [k EXCEPT !.at = "processed", !.received = k.received + 1]
        BY <1>0 DEF Delivery
      <3>3. next \in Delivery
        BY <1>0, <3>1, <3>2 DEF Delivery
      <3>4. next.at = "processed" /\ next.attempt = k.attempt
        BY <1>0, <3>2 DEF Delivery
      <3>5. next.received = k.received + 1 /\ next.late = k.late
        BY <1>0, <3>2 DEF Delivery
      <3> HIDE DEF next
      <3> QED BY <3>3, <3>4, <3>5
    <2> HIDE DEF next
    <2>3. Accounts(next)
      BY <1>0, <1>00, <2>1, <2>2 DEF Accounts
    <2> QED BY <2>1, <2>2, <2>3
  <1>2. CASE Answered(h)
    <2> DEFINE next == [k EXCEPT !.at = "delivered"]
    <2>1. hook' = [hook EXCEPT ![h] = next] /\ k.at = "processed"
      BY <1>2 DEF Answered, Step
    <2> HIDE DEF k
    <2>2. next \in Delivery /\ next.at = "delivered" /\ next.attempt = k.attempt
          /\ next.received = k.received /\ next.late = k.late
      BY <1>0, <1>00 DEF Delivery, Stages
    <2> HIDE DEF next
    <2>3. Accounts(next)
      BY <1>0, <1>00, <2>1, <2>2 DEF Accounts
    <2> QED BY <2>1, <2>2, <2>3
  <1>3. CASE PostFails(h)
    <2> DEFINE at == IF k.attempt < MAX_RETRIES THEN "backoff" ELSE "givenUp"
               late == IF k.at = "processed" THEN k.late + 1 ELSE k.late
               next == [k EXCEPT !.at = at, !.late = late]
    <2>1. hook' = [hook EXCEPT ![h] = next] /\ k.at \in {"posted", "processed"}
      BY <1>3 DEF PostFails, Step
    <2>2. at \in Stages /\ late \in Nat
      BY <1>00 DEF Stages
    <2>3. \/ at = "backoff" /\ k.attempt < MAX_RETRIES
          \/ at = "givenUp" /\ k.attempt = MAX_RETRIES
      BY <1>0, <1>00
    <2>4. late = k.received
      BY <1>0, <1>00, <2>1 DEF Accounts
    <2> HIDE DEF k, at, late
    <2>5. next \in Delivery /\ next.at = at /\ next.attempt = k.attempt
          /\ next.received = k.received /\ next.late = late
      <3>1. next \in Delivery
        BY <1>0, <2>2 DEF Delivery
      <3>2. next.at = at /\ next.attempt = k.attempt
        BY <1>0 DEF Delivery
      <3>3. next.received = k.received /\ next.late = late
        BY <1>0 DEF Delivery
      <3> HIDE DEF next
      <3> QED BY <3>1, <3>2, <3>3
    <2> HIDE DEF next
    <2>6. Accounts(next)
      BY <1>0, <1>00, <2>2, <2>3, <2>4, <2>5 DEF Accounts
    <2> QED BY <2>1, <2>5, <2>6
  <1>4. CASE Retry(h)
    <2> DEFINE next == [k EXCEPT !.at = "posted", !.attempt = @ + 1]
    <2>1. hook' = [hook EXCEPT ![h] = next] /\ k.at = "backoff"
      BY <1>4 DEF Retry, Step
    <2> HIDE DEF k
    <2>2. k.attempt + 1 \in 0..MAX_RETRIES
      BY <1>0, <1>00, <2>1 DEF Accounts
    <2>3. next \in Delivery /\ next.at = "posted" /\ next.attempt = k.attempt + 1
          /\ next.received = k.received /\ next.late = k.late
      BY <1>0, <1>00, <2>2 DEF Delivery, Stages
    <2> HIDE DEF next
    <2>4. Accounts(next)
      BY <1>0, <1>00, <2>1, <2>2, <2>3 DEF Accounts
    <2> QED BY <2>1, <2>3, <2>4
  <1> QED BY <1>1, <1>2, <1>3, <1>4 DEF HookStep

\* And a step of the hooks what is known of the deliveries.
LEMMA HookStepInv ==
  ASSUME Bounds, HookInv, WatchesNext
  PROVE  HookInv'
  <1>0. /\ claims \in Seq(Wallet) /\ Len(claims) <= MaxHooked /\ Len(claims) \in Nat
        /\ hook \in [Hook -> Delivery] /\ \A h \in Hook : Accounts(hook[h])
        /\ \A h \in Hook : h[1] > Len(claims) => hook[h] = Unused
        /\ MaxHooked \in Nat /\ MAX_RETRIES \in Nat
    BY DEF HookInv, Bounds
  <1>1. ASSUME UNCHANGED <<claims, hook>> PROVE HookInv'
    BY <1>1 DEF HookInv
  <1>2. ASSUME NEW u \in Wallet, DispatchWebhooks(u) PROVE HookInv'
    <2> DEFINE n == Len(claims) + 1
    <2>1. Cardinality(DOMAIN claims) = Len(claims)
      <3> DEFINE m == Len(claims)
      <3>1. DOMAIN claims = 1..m /\ m \in Nat
        BY <1>0
      <3> HIDE DEF m
      <3>2. Cardinality(1..m) = IF 1 > m THEN 0 ELSE m - 1 + 1
        BY <3>1, FS_Interval
      <3>3. Cardinality(1..m) = m
        BY <3>1, <3>2
      <3> QED BY <3>1, <3>3 DEF m
    <2>2. /\ Len(claims) < MaxHooked
          /\ claims' = [k \in 1..n |-> IF k = n THEN u ELSE claims[k]]
          /\ hook' = [h \in Hook |-> IF h[1] = n /\ h[2] \in Targets(u)
                                     THEN [hook[h] EXCEPT !.at = "posted"] ELSE hook[h]]
      BY <1>2, <2>1 DEF DispatchWebhooks
    <2>3. claims' \in Seq(Wallet) /\ Len(claims') = n
      BY <1>0, <2>2
    <2>4. ASSUME NEW h \in Hook
          PROVE  /\ hook'[h] \in Delivery /\ Accounts(hook'[h])
                 /\ h[1] > n => hook'[h] = Unused
      <3>1. CASE h[1] = n /\ h[2] \in Targets(u)
        <4>1. hook'[h] = [hook[h] EXCEPT !.at = "posted"] /\ hook[h] = Unused
          BY <1>0, <2>2, <3>1
        <4> QED BY <1>0, <3>1, <4>1 DEF Unused, Delivery, Accounts, Stages
      <3>2. CASE ~(h[1] = n /\ h[2] \in Targets(u))
        <4>1. hook'[h] = hook[h]
          BY <2>2, <3>2
        <4>2. h[1] \in Nat
          BY <1>0 DEF Hook, Claim
        <4> QED BY <1>0, <4>1, <4>2
      <3> QED BY <3>1, <3>2
    <2>5. hook' \in [Hook -> Delivery]
      <3>1. DOMAIN hook' = Hook /\ hook' = [h \in Hook |-> hook'[h]]
        BY <2>2
      <3> QED BY <2>4, <3>1
    <2>6. Len(claims') <= MaxHooked
      BY <1>0, <2>2, <2>3
    <2>7. \A h \in Hook : h[1] > Len(claims') => hook'[h] = Unused
      BY <2>3, <2>4
    <2> HIDE DEF n
    <2> QED BY <2>3, <2>4, <2>5, <2>6, <2>7 DEF HookInv
  <1>3. ASSUME NEW h \in Hook, HookStep(h) PROVE HookInv'
    <2>1. PICK next \in Delivery : Accounts(next) /\ hook' = [hook EXCEPT ![h] = next]
      BY <1>3, DeliveryStep
    <2>2. claims' = claims /\ hook[h].at # "none"
      BY <1>3 DEF HookStep, Process, Answered, PostFails, Retry, hookRest
    <2>3. hook[h] # Unused
      BY <2>2 DEF Unused
    <2>5. \A g \in Hook : hook'[g] = (IF g = h THEN next ELSE hook[g])
      BY <1>0, <2>1
    <2>6. hook' \in [Hook -> Delivery]
      BY <1>0, <2>1
    <2> QED BY <1>0, <2>1, <2>2, <2>3, <2>5, <2>6 DEF HookInv
  <1>4. CASE Restart
    <2>1. /\ claims' = claims
          /\ hook' = [h \in Hook |-> IF hook[h].at \in {"posted", "processed", "backoff"}
                                     THEN [hook[h] EXCEPT !.at = "crashed"] ELSE hook[h]]
      BY <1>4 DEF Restart
    <2>2. ASSUME NEW h \in Hook
          PROVE  /\ hook'[h] \in Delivery /\ Accounts(hook'[h])
                 /\ hook[h] = Unused => hook'[h] = Unused
      <3> DEFINE k == hook[h]
      <3>1. k \in Delivery /\ Accounts(k)
        BY <1>0
      <3>2. hook'[h] = IF k.at \in {"posted", "processed", "backoff"}
                       THEN [k EXCEPT !.at = "crashed"] ELSE k
        BY <2>1
      <3> HIDE DEF k
      <3>3. hook'[h] \in Delivery /\ Accounts(hook'[h])
        BY <1>0, <3>1, <3>2 DEF Delivery, Accounts, Stages
      <3>4. k = Unused => hook'[h] = Unused
        BY <3>2 DEF Unused
      <3> QED BY <3>3, <3>4 DEF k
    <2>3. hook' \in [Hook -> Delivery]
      <3>1. hook' = [h \in Hook |-> hook'[h]]
        BY <2>1
      <3> QED BY <2>2, <3>1
    <2> QED BY <1>0, <2>1, <2>2, <2>3 DEF HookInv
  <1>5. ASSUME NEW r \in Request,
               \/ \E body \in Body : Receive(r, body)
               \/ \E w \in Wallet, u \in Url \cup {NoUrl} : CreateWatch(r, w, u)
               \/ \E u \in Url \cup {NoUrl}, a \in BOOLEAN : UpdateWatch(r, u, a)
               \/ Rejected(r)
        PROVE  HookInv'
    BY <1>1, <1>5 DEF Receive, CreateWatch, UpdateWatch, Rejected
  <1>6. ASSUME NEW c \in Client, NEW i \in Id, DeleteWatch(c, i) PROVE HookInv'
    BY <1>1, <1>6 DEF DeleteWatch
  <1> QED BY <1>2, <1>3, <1>4, <1>5, <1>6 DEF WatchesNext

------------------------------------------------------------------------------
(* The theorems *)

\* The inductive invariant of the watches, their file and the deliveries.
THEOREM WatchesInvariant == ASSUME Bounds PROVE WatchesSpec => []WatchesInv
  <1>1. WatchesInit => WatchesInv
    BY InitInv
  <1>2. WatchesInv /\ [WatchesNext]_apiWatchVars => WatchesInv'
    <2> SUFFICES ASSUME WatchesInv, [WatchesNext]_apiWatchVars PROVE WatchesInv'
      OBVIOUS
    <2>1. CASE WatchesNext
      BY <2>1, WatchStep, HookStepInv DEF WatchesInv
    <2>2. CASE UNCHANGED apiWatchVars
      BY <2>2 DEF apiWatchVars, watchVars, WatchesInv, WatchInv, HookInv
    <2> QED BY <2>1, <2>2
  <1> QED BY <1>1, <1>2, PTL DEF WatchesSpec

\* Creations whose bodies are awaited together, updates, deletions, half-written
\* files and restarts never give a client more watches than server.ts allows.
THEOREM WatchesWatchLimit == ASSUME Bounds PROVE WatchesSpec => []WatchLimit
  <1>1. WatchesInv => WatchLimit
    BY DEF WatchesInv, WatchInv, Kept, LimitedTo, WatchLimit
  <1> QED BY <1>1, WatchesInvariant, PTL

\* deliverWithRetry() posts a claim to a receiver again only after an answer that
\* came too late, and gives up only after all attempts.
THEOREM WatchesPostedAgainOnlyIfLate == ASSUME Bounds PROVE WatchesSpec => []PostedAgainOnlyIfLate
  <1>1. WatchesInv => PostedAgainOnlyIfLate
    <2> SUFFICES ASSUME WatchesInv, NEW h \in Hook
                 PROVE  /\ hook[h].received <= hook[h].late + 1
                        /\ hook[h].received <= MAX_RETRIES + 1
                        /\ hook[h].at = "givenUp" => hook[h].attempt = MAX_RETRIES
                        /\ hook[h].at = "delivered" => hook[h].received = hook[h].late + 1
      BY DEF PostedAgainOnlyIfLate
    <2> DEFINE k == hook[h]
    <2>1. k \in Delivery /\ Accounts(k) /\ MAX_RETRIES \in Nat
      BY DEF WatchesInv, HookInv, Bounds
    <2> HIDE DEF k
    <2>2. /\ k.received <= k.late + 1 /\ k.received <= MAX_RETRIES + 1
          /\ k.at = "givenUp" => k.attempt = MAX_RETRIES
          /\ k.at = "delivered" => k.received = k.late + 1
      BY <2>1 DEF Delivery, Accounts
    <2> QED BY <2>2 DEF k
  <1> QED BY <1>1, WatchesInvariant, PTL

\* Types of the watches, the file and the deliveries; an id names one watch.
THEOREM WatchesTypeOK == ASSUME Bounds PROVE WatchesSpec => []WatchesAreTyped
  <1>1. WatchesInv => WatchesAreTyped
    BY DEF WatchesInv, WatchInv, HookInv, Kept, Delivery, WatchesAreTyped, Claim, Hook, Bounds
  <1> QED BY <1>1, WatchesInvariant, PTL

==============================================================================
