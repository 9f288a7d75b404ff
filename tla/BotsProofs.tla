------------------------------ MODULE BotsProofs ------------------------------
(***************************************************************************)
(* Proofs about what the bots remember and tell their chats, for any       *)
(* accounts, chats, items, watches and broadcasts, and any number of       *)
(* restarts: the channel bot's first claims (ClaimFeed), the claim bot's   *)
(* notices, the monitor bot's alerts and its broadcasts.                   *)
(***************************************************************************)
EXTENDS MCBots, FiniteSetTheorems, TLAPS

------------------------------------------------------------------------------
(* The channel bot's first claims: what is restored stays silent because    *)
(* the restored keys are in the set every handler tests before its first    *)
(* await.  Memory is saved because only a failed save leaves a torn file.   *)
(* The channel shows a key once because one handler at most passed the test *)
(* for it while no other was past it.                                       *)

Stages == {"candidates", "context", "asked", "posted", "lost"}
Handler == [stage : Stages, event : Event, key : Keys, photo : BOOLEAN, tries : Nat]

ChainInv == /\ chain \in Seq([n : 1..BATCH, event : Event]) /\ seen \subseteq DOMAIN chain
            /\ lifetime \in [Users -> Nat] /\ linked \in [Users -> 0..2]

HandlerInv == \A h \in DOMAIN handler : handler[h] \in Handler

MemoryInv == claimed \in Seq(Keys) /\ counts \in [Keys -> Nat]

DiskInv == disk \in [torn : SUBSET Files, claims : Seq(Keys), counts : [Keys -> Nat]]

\* Restored keys are in the set, and the test keeps handlers away from them.
SilentInv == restored \subseteq Range(claimed) /\ RestoredStaysSilent

\* Only a failed save leaves a torn file.
SavedInv == /\ saveFailed \in BOOLEAN
            /\ saveFailed \/ disk.torn = {}
            /\ UnsavedIsScheduled

IInv == ChainInv /\ HandlerInv /\ MemoryInv /\ DiskInv /\ SilentInv /\ SavedInv

------------------------------------------------------------------------------
(* Memory *)

\* The elements of a sequence are of its set.
LEMMA ElementType ==
  ASSUME NEW S, NEW q \in Seq(S), NEW i \in DOMAIN q
  PROVE  q[i] \in S
  OBVIOUS

\* A handler state that the actions write is one of Handler.
LEMMA AtType ==
  ASSUME NEW stage \in Stages, NEW e \in Event, NEW k \in Keys, NEW photo \in BOOLEAN,
         NEW tries \in Nat
  PROVE  At(stage, e, k, photo, tries) \in Handler
  BY DEF At, Handler

\* What MarkClaimed() does to the set of accounts.
LEMMA MarkKeeps ==
  ASSUME claimed \in Seq(Keys), restored \subseteq Range(claimed),
         NEW k \in Keys, MarkClaimed(k)
  PROVE  /\ claimed' \in Seq(Keys)
         /\ restored' \subseteq Range(claimed') /\ restored' \subseteq restored
         /\ saveTimer' = TRUE \/ UNCHANGED <<claimed, saveTimer>>
         /\ Range(claimed) \cup lapsed \subseteq Range(claimed') \cup lapsed'
         /\ k \in Range(claimed')
         /\ lapsed' \subseteq lapsed \cup Range(claimed)
  <1>1. CASE HasClaimed(k)
    BY <1>1 DEF MarkClaimed, remembered, HasClaimed
  <1>2. CASE ~HasClaimed(k)
    <2> DEFINE full == Len(claimed) = MAX_ENTRIES
               kept == IF full THEN Tail(claimed) ELSE claimed
               gone == IF full THEN {Head(claimed)} ELSE {}
    <2>1. /\ claimed' = Append(kept, k) /\ saveTimer' = TRUE
          /\ restored' = restored \ gone /\ lapsed' = (lapsed \cup gone) \ {k}
      BY <1>2 DEF MarkClaimed
    <2>2. /\ kept \in Seq(Keys) /\ Range(claimed) \subseteq Range(kept) \cup gone
          /\ gone \subseteq Range(claimed)
      <3>1. /\ MAX_ENTRIES \in Nat \ {0} /\ Len(claimed) \in Nat
            /\ DOMAIN claimed = 1..Len(claimed)
        BY FeedAssumption
      <3>2. CASE full
        <4>1. /\ kept = Tail(claimed) /\ gone = {claimed[1]} /\ 1 \in DOMAIN claimed
              /\ kept \in Seq(Keys) /\ DOMAIN kept = 1..(Len(claimed) - 1)
              /\ \A i \in 1..(Len(claimed) - 1) : kept[i] = claimed[i + 1]
          BY <3>1, <3>2
        <4> HIDE DEF kept, gone, full
        <4>2. ASSUME NEW i \in 1..Len(claimed) PROVE claimed[i] \in Range(kept) \cup gone
          <5>1. CASE i = 1
            BY <4>1, <5>1
          <5>2. CASE i # 1
            <6>1. i - 1 \in DOMAIN kept /\ kept[i - 1] = claimed[i]
              BY <3>1, <4>1, <5>2
            <6> QED BY <6>1 DEF Range
          <5> QED BY <5>1, <5>2
        <4> QED BY <3>1, <4>1, <4>2 DEF Range
      <3>3. CASE ~full
        BY <3>3
      <3> QED BY <3>2, <3>3
    <2> HIDE DEF kept, gone
    <2>3. /\ claimed' \in Seq(Keys) /\ Len(claimed') = Len(kept) + 1
          /\ claimed'[Len(kept) + 1] = k /\ Len(kept) + 1 \in DOMAIN claimed'
      BY <2>1, <2>2
    <2>4. Range(kept) \subseteq Range(claimed') /\ k \in Range(claimed')
      <3>1. k \in Range(claimed')
        BY <2>3 DEF Range
      <3> QED BY <2>1, <2>2, <2>3, <3>1 DEF Range
    <2> QED BY <2>1, <2>2, <2>3, <2>4
  <1> QED BY <1>1, <1>2

\* The test for a first claim, and what follows it up to the next await.
LEMMA CheckKeeps ==
  ASSUME HandlerInv, MemoryInv, SilentInv, NEW ids, NEW e \in Event, NEW k \in Keys,
         Check(ids, e, k)
  PROVE  /\ MemoryInv' /\ HandlerInv' /\ SilentInv'
         /\ saveTimer' = TRUE \/ UNCHANGED <<claimed, counts, saveTimer>>
  <1>1. /\ claimed \in Seq(Keys) /\ restored \subseteq Range(claimed)
        /\ counts \in [Keys -> Nat]
        /\ \A h \in DOMAIN handler : handler[h] \in Handler
        /\ \A h \in DOMAIN handler :
               handler[h].stage # "candidates" => handler[h].key \notin restored
    BY DEF HandlerInv, MemoryInv, SilentInv, RestoredStaysSilent, PastTest
  <1>2. /\ claimed' \in Seq(Keys) /\ counts' = counts
        /\ restored' \subseteq Range(claimed') /\ restored' \subseteq restored
        /\ saveTimer' = TRUE \/ UNCHANGED <<claimed, saveTimer>>
    <2>1. CASE HasClaimed(k) \/ ~LooksFirst(e)
      <3>1. MarkClaimed(k) /\ counts' = counts
        BY <2>1 DEF Check
      <3> QED BY <1>1, <3>1, MarkKeeps
    <2>2. CASE ~(HasClaimed(k) \/ ~LooksFirst(e))
      BY <1>1, <2>2 DEF Check, remembered
    <2> QED BY <2>1, <2>2
  <1>3. \A h \in DOMAIN handler' :
            /\ handler'[h] \in Handler
            /\ handler'[h].stage # "candidates" => handler'[h].key \notin restored'
    <2>1. CASE handler' = Ended(ids)
      BY <1>1, <1>2, <2>1 DEF Ended, Restrict
    <2>2. CASE ~HasClaimed(k) /\ handler' = Becomes(ids, At("context", e, k, FALSE, 0))
      <3> DEFINE r == At("context", e, k, FALSE, 0)
      <3>1. r \in Handler
        BY AtType DEF Stages
      <3>2. r.key = k
        BY DEF At
      <3>3. k \notin restored'
        BY <1>1, <1>2, <2>2 DEF HasClaimed
      <3> HIDE DEF r
      <3>4. handler' = [h \in DOMAIN handler \cup ids |-> IF h \in ids THEN r ELSE handler[h]]
        BY <2>2 DEF Becomes, r
      <3> QED BY <1>1, <1>2, <3>1, <3>2, <3>3, <3>4
    <2> QED BY <2>1, <2>2 DEF Check
  <1> QED BY <1>1, <1>2, <1>3 DEF HandlerInv, MemoryInv, SilentInv, RestoredStaysSilent, PastTest

------------------------------------------------------------------------------
(* Init and every step *)

\* The invariant holds at first.
LEMMA InitInv ==
  ASSUME Init
  PROVE  IInv
  <1>1. Empty \in [Keys -> Nat]
    BY DEF Empty
  <1>2. <<>> \in Seq(Keys) /\ <<>> \in Seq([n : 1..BATCH, event : Event])
    OBVIOUS
  <1>3. DOMAIN handler = {} /\ DOMAIN chain = {}
    BY DEF Init
  <1>4. ChainInv /\ HandlerInv /\ MemoryInv /\ DiskInv
    BY <1>1, <1>2, <1>3 DEF Init, ChainInv, HandlerInv, MemoryInv, DiskInv
  <1>5. SilentInv
    BY <1>3 DEF Init, SilentInv, RestoredStaysSilent
  <1>6. SavedInv
    BY DEF Init, SavedInv, UnsavedIsScheduled
  <1> QED BY <1>4, <1>5, <1>6 DEF IInv

\* A step that changes neither files nor failures, and memory only together with
\* the timer.
LEMMA MemorySaved ==
  ASSUME SavedInv, UNCHANGED process,
         saveTimer' = TRUE \/ UNCHANGED <<claimed, counts, saveTimer>>
  PROVE  SavedInv'
  BY DEF SavedInv, UnsavedIsScheduled, process

\* A step of the handler h that replaces its record by r or ends it.
LEMMA Replaced ==
  ASSUME HandlerInv, NEW h \in DOMAIN handler, NEW r \in Handler,
         r.key = handler[h].key, RestoredStaysSilent, restored' \subseteq restored,
         handler[h].stage # "candidates",
         \/ handler' = Becomes({h}, r)
         \/ handler' = Ended({h})
         \/ handler' = [handler EXCEPT ![h] = r]
  PROVE  HandlerInv' /\ RestoredStaysSilent'
  <1>1. CASE handler' = Becomes({h}, r)
    BY <1>1 DEF Becomes, HandlerInv, RestoredStaysSilent, PastTest
  <1>2. CASE handler' = Ended({h})
    BY <1>2 DEF Ended, Restrict, HandlerInv, RestoredStaysSilent, PastTest
  <1>3. CASE handler' = [handler EXCEPT ![h] = r]
    BY <1>3 DEF HandlerInv, RestoredStaysSilent, PastTest
  <1> QED BY <1>1, <1>2, <1>3

\* A step of a handler keeps the invariant.
LEMMA HandlerStepInv ==
  ASSUME IInv, NEW h \in DOMAIN handler, HandlerStep(h)
  PROVE  IInv'
  <1> USE DEF IInv
  <1>0. handler[h] \in Handler
    BY DEF HandlerInv
  <1> DEFINE k == handler[h].key
             e == handler[h].event
  <1>00. k \in Keys /\ e \in Event /\ handler[h].tries \in Nat /\ handler[h].photo \in BOOLEAN
    BY <1>0 DEF Handler
  <1>1. CASE CandidatesFetched(h)
    <2>1. /\ Check({h}, e, k) \/ (handler' = Ended({h}) /\ UNCHANGED memory)
          /\ UNCHANGED <<chainVars, linked, seen, process>>
      BY <1>1 DEF CandidatesFetched
    <2> HIDE DEF k, e
    <2>2. /\ MemoryInv' /\ HandlerInv' /\ SilentInv'
          /\ saveTimer' = TRUE \/ UNCHANGED <<claimed, counts, saveTimer>>
      <3>1. CASE Check({h}, e, k)
        BY <1>00, <3>1, CheckKeeps
      <3>2. CASE handler' = Ended({h}) /\ UNCHANGED memory
        BY <3>2 DEF Ended, Restrict, memory, remembered, MemoryInv, HandlerInv, SilentInv,
           RestoredStaysSilent, PastTest
      <3> QED BY <2>1, <3>1, <3>2
    <2>3. SavedInv'
      BY <2>1, <2>2, MemorySaved
    <2>4. ChainInv' /\ DiskInv'
      BY <2>1 DEF ChainInv, DiskInv, chainVars, process
    <2> QED BY <2>2, <2>3, <2>4
  <1>2. CASE ContextFetched(h)
    <2>1. /\ handler[h].stage = "context"
          /\ UNCHANGED <<chainVars, linked, seen, claimed, restored, process>>
          /\ \/ counts' = [counts EXCEPT ![k] = @ + 1] /\ saveTimer' = TRUE
             \/ UNCHANGED <<counts, saveTimer>>
      BY <1>2 DEF ContextFetched
    <2>2. PICK r \in Handler : /\ r.key = k
                               /\ handler' = Becomes({h}, r) \/ handler' = Ended({h})
      <3>1. \A photo \in BOOLEAN : LET r == At("asked", e, k, photo, 0)
                                   IN r \in Handler /\ r.key = k
        BY <1>00, AtType DEF Stages, At
      <3>2. \/ handler' = Ended({h})
            \/ \E photo \in BOOLEAN : handler' = Becomes({h}, At("asked", e, k, photo, 0))
        BY <1>2 DEF ContextFetched
      <3>3. CASE handler' = Ended({h})
        BY <1>0, <3>3
      <3>4. CASE \E photo \in BOOLEAN : handler' = Becomes({h}, At("asked", e, k, photo, 0))
        <4> HIDE DEF k, e
        <4> QED BY <3>1, <3>4
      <3> QED BY <3>2, <3>3, <3>4
    <2>4. MemoryInv'
      BY <1>00, <2>1 DEF MemoryInv
    <2> HIDE DEF k
    <2>6. HandlerInv' /\ RestoredStaysSilent'
      BY <2>1, <2>2, Replaced DEF SilentInv, k
    <2>7. SilentInv'
      BY <2>1, <2>6 DEF SilentInv
    <2>8. SavedInv'
      BY <2>1, MemorySaved
    <2>9. ChainInv' /\ DiskInv'
      BY <2>1 DEF ChainInv, DiskInv, chainVars, process
    <2> QED BY <2>4, <2>6, <2>7, <2>8, <2>9
  <1>3. CASE Delivered(h)
    <2>1. /\ handler[h].stage = "asked"
          /\ UNCHANGED <<chainVars, linked, seen, memory, process>>
      BY <1>3 DEF Delivered
    <2>2. PICK stage \in {"posted", "lost"} : handler' = [handler EXCEPT ![h].stage = stage]
      BY <1>3 DEF Delivered
    <2> DEFINE r == [handler[h] EXCEPT !.stage = stage]
    <2>3. r \in Handler /\ r.key = k
      BY <1>0, <2>2 DEF Handler, Stages
    <2>4. handler' = [handler EXCEPT ![h] = r]
      BY <2>2
    <2> HIDE DEF r, k
    <2>5. UNCHANGED <<claimed, counts, saveTimer, restored>>
      BY <2>1 DEF memory, remembered
    <2>6. HandlerInv' /\ RestoredStaysSilent'
      BY <2>1, <2>3, <2>4, <2>5, Replaced DEF SilentInv, k
    <2>7. SilentInv' /\ MemoryInv'
      BY <2>5, <2>6 DEF SilentInv, MemoryInv
    <2>8. SavedInv'
      BY <2>1, <2>5, MemorySaved
    <2>9. ChainInv' /\ DiskInv'
      BY <2>1 DEF ChainInv, DiskInv, chainVars, process
    <2> QED BY <2>6, <2>7, <2>8, <2>9
  <1>4. CASE Acked(h)
    <2>1. /\ handler[h].stage = "posted" /\ MarkClaimed(k) /\ handler' = Ended({h})
          /\ UNCHANGED <<chainVars, linked, seen, counts, process>>
      BY <1>4 DEF Acked
    <2> HIDE DEF k
    <2>2. /\ claimed' \in Seq(Keys)
          /\ restored' \subseteq Range(claimed') /\ restored' \subseteq restored
          /\ saveTimer' = TRUE \/ UNCHANGED <<claimed, saveTimer>>
      BY <1>00, <2>1, MarkKeeps DEF MemoryInv, SilentInv
    <2>3. HandlerInv' /\ RestoredStaysSilent'
      BY <1>0, <2>1, <2>2, Replaced DEF SilentInv
    <2>4. SilentInv' /\ MemoryInv'
      BY <2>1, <2>2, <2>3 DEF SilentInv, MemoryInv
    <2>5. SavedInv'
      BY <2>1, <2>2, MemorySaved
    <2>6. ChainInv' /\ DiskInv'
      BY <2>1 DEF ChainInv, DiskInv, chainVars, process
    <2> QED BY <2>3, <2>4, <2>5, <2>6
  <1>5. CASE Refused(h)
    <2>1. /\ handler[h].stage \in {"asked", "lost"}
          /\ UNCHANGED <<chainVars, linked, seen, claimed, saveTimer, restored, counts, process>>
      BY <1>5 DEF Refused
    <2>2. PICK r \in Handler : /\ r.key = k
                               /\ handler' = Becomes({h}, r) \/ handler' = Ended({h})
      <3> DEFINE retry == At("asked", e, k, handler[h].photo, handler[h].tries + 1)
                 text == At("asked", e, k, FALSE, 0)
      <3>1. retry \in Handler /\ text \in Handler
        <4>1. "asked" \in Stages /\ handler[h].tries + 1 \in Nat
          BY <1>00 DEF Stages
        <4> QED BY <1>00, <4>1, AtType
      <3>2. retry.key = k /\ text.key = k
        BY DEF At
      <3>3. \/ handler' = Becomes({h}, retry) \/ handler' = Becomes({h}, text)
            \/ handler' = Ended({h})
        BY <1>5 DEF Refused
      <3> HIDE DEF retry, text, k
      <3> QED BY <3>1, <3>2, <3>3
    <2> HIDE DEF k
    <2>3. UNCHANGED <<claimed, counts, saveTimer, restored>>
      BY <2>1
    <2>4. HandlerInv' /\ RestoredStaysSilent'
      BY <2>1, <2>2, <2>3, Replaced DEF SilentInv, k
    <2>5. SilentInv' /\ MemoryInv'
      BY <2>3, <2>4 DEF SilentInv, MemoryInv
    <2>6. SavedInv'
      BY <2>1, <2>3, MemorySaved
    <2>7. ChainInv' /\ DiskInv'
      BY <2>1 DEF ChainInv, DiskInv, chainVars, process
    <2> QED BY <2>4, <2>5, <2>6, <2>7
  <1> QED BY <1>1, <1>2, <1>3, <1>4, <1>5 DEF HandlerStep

\* So does every step.
LEMMA StepInv ==
  ASSUME IInv, Next
  PROVE  IInv'
  <1> USE DEF IInv
  <1>1. CASE Claim
    <2>1. UNCHANGED <<linked, seen, handler, memory, process>>
      BY <1>1 DEF Claim
    <2>2. PICK n \in 1..BATCH, u, v \in Users, a, b \in Amounts :
            LET before == IF n = 1 THEN lifetime ELSE Withdrawn(lifetime, u, a)
                after == Withdrawn(before, v, b)
            IN /\ lifetime' = after
               /\ chain' = Append(chain, [n |-> n, event |->
                     [user |-> v, amount |-> b, lifetime |-> after[v]]])
      BY <1>1 DEF Claim
    <2> DEFINE before == IF n = 1 THEN lifetime ELSE Withdrawn(lifetime, u, a)
               after == Withdrawn(before, v, b)
               c == [n |-> n, event |-> [user |-> v, amount |-> b, lifetime |-> after[v]]]
    <2>3. a \in Nat /\ b \in Nat
      BY FeedAssumption
    <2>4. before \in [Users -> Nat]
      BY <2>3 DEF Withdrawn, ChainInv
    <2> HIDE DEF before
    <2>5. after \in [Users -> Nat]
      BY <2>3, <2>4 DEF Withdrawn
    <2>6. lifetime' = after /\ chain' = Append(chain, c)
      BY <2>2 DEF before
    <2> HIDE DEF after
    <2>7. c \in [n : 1..BATCH, event : Event]
      BY <2>3, <2>5 DEF Event
    <2> HIDE DEF c
    <2>8. ChainInv'
      BY <2>1, <2>5, <2>6, <2>7 DEF ChainInv
    <2> QED BY <2>1, <2>8 DEF HandlerInv, MemoryInv, DiskInv, SilentInv, RestoredStaysSilent, PastTest,
              SavedInv, UnsavedIsScheduled, memory, remembered, process
  <1>2. ASSUME NEW u \in Users, Link(u) PROVE IInv'
    <2>1. /\ linked' = [linked EXCEPT ![u] = @ + 1] /\ linked[u] < 2
          /\ UNCHANGED <<chainVars, seen, handler, memory, process>>
      BY <1>2 DEF Link
    <2>2. ChainInv'
      BY <2>1 DEF ChainInv, chainVars
    <2> QED BY <2>1, <2>2 DEF HandlerInv, MemoryInv, DiskInv, SilentInv, RestoredStaysSilent, PastTest,
              SavedInv, UnsavedIsScheduled, memory, remembered, process
  <1>3. CASE Save
    <2>1. UNCHANGED <<chainVars, linked, seen, handler, claimed, counts, restored>>
      BY <1>3 DEF Save
    <2>2. DiskInv' /\ SavedInv'
      <3>1. CASE /\ disk' = [torn |-> {}, claims |-> claimed, counts |-> counts]
                 /\ saveFailed' = FALSE
        BY <2>1, <3>1 DEF DiskInv, MemoryInv, SavedInv, UnsavedIsScheduled
      <3>2. CASE saveFailed' = TRUE /\ \E f \in Files, cut \in BOOLEAN : disk' =
                 [torn |-> (disk.torn \ 1..(f - 1)) \cup (IF cut THEN {f} ELSE {}),
                  claims |-> IF f > GITHUB_FIRST_CLAIMS_FILE THEN claimed ELSE disk.claims,
                  counts |-> disk.counts]
        <4>1. DiskInv'
          <5>1. PICK f \in Files, cut \in BOOLEAN : disk' =
                 [torn |-> (disk.torn \ 1..(f - 1)) \cup (IF cut THEN {f} ELSE {}),
                  claims |-> IF f > GITHUB_FIRST_CLAIMS_FILE THEN claimed ELSE disk.claims,
                  counts |-> disk.counts]
            BY <3>2
          <5>2. /\ (disk.torn \ 1..(f - 1)) \cup (IF cut THEN {f} ELSE {}) \in SUBSET Files
                /\ (IF f > GITHUB_FIRST_CLAIMS_FILE THEN claimed ELSE disk.claims) \in Seq(Keys)
                /\ disk.counts \in [Keys -> Nat]
            BY DEF DiskInv, MemoryInv
          <5> QED BY <5>1, <5>2 DEF DiskInv
        <4> QED BY <3>2, <4>1 DEF SavedInv, UnsavedIsScheduled
      <3> QED BY <1>3, <3>1, <3>2 DEF Save
    <2> QED BY <2>1, <2>2 DEF ChainInv, HandlerInv, MemoryInv, SilentInv, RestoredStaysSilent,
              PastTest, chainVars
  <1>4. CASE Restart
    <2>1. /\ Load /\ saveTimer' = FALSE /\ seen' = {} /\ handler' = <<>>
          /\ linked' = [u \in Users |-> 0] /\ UNCHANGED <<chainVars, disk, saveFailed>>
      BY <1>4 DEF Restart
    <2>2. ChainInv' /\ DiskInv'
      BY <2>1 DEF ChainInv, DiskInv, chainVars
    <2>3. DOMAIN handler' = {}
      BY <2>1
    <2>4. Empty \in [Keys -> Nat] /\ <<>> \in Seq(Keys)
      BY DEF Empty
    <2>5. /\ disk.claims \in Seq(Keys) /\ disk.counts \in [Keys -> Nat]
          /\ disk = [torn |-> disk.torn, claims |-> disk.claims, counts |-> disk.counts]
      BY DEF DiskInv
    <2>6. /\ claimed' = (IF Loads(GITHUB_FIRST_CLAIMS_FILE) THEN disk.claims ELSE <<>>)
          /\ restored' = Range(claimed')
          /\ counts' = (IF Loads(GITHUB_CLAIM_COUNTS_FILE) THEN disk.counts ELSE Empty)
      BY <2>1 DEF Load
    <2>7. MemoryInv'
      BY <2>4, <2>5, <2>6 DEF MemoryInv
    <2>8. HandlerInv' /\ SilentInv'
      BY <2>3, <2>6 DEF HandlerInv, SilentInv, RestoredStaysSilent
    <2>9. SavedInv'
      <3>1. CASE saveFailed
        BY <2>1, <3>1 DEF SavedInv, UnsavedIsScheduled
      <3>2. CASE ~saveFailed
        <4>1. disk.torn = {} /\ UNCHANGED <<disk, saveFailed>>
          BY <2>1, <3>2 DEF SavedInv
        <4>2. claimed' = disk.claims /\ counts' = disk.counts
          BY <2>6, <4>1 DEF Loads
        <4> QED BY <2>5, <3>2, <4>1, <4>2 DEF SavedInv, UnsavedIsScheduled
      <3> QED BY <3>1, <3>2
    <2> QED BY <2>2, <2>7, <2>8, <2>9
  <1>5. ASSUME NEW t \in DOMAIN chain, HandleTx(t) PROVE IInv'
    <2> DEFINE ids == {t} \X (1..chain[t].n)
               e == chain[t].event
               many == [user |-> e.user, mint |-> FALSE]
               one == [user |-> e.user, mint |-> linked[e.user] = 1]
    <2>1. /\ seen' = seen \cup {t} /\ UNCHANGED <<chainVars, linked, process>>
          /\ \/ /\ handler' = Becomes(ids, At("candidates", e, many, FALSE, 0))
                /\ UNCHANGED memory
             \/ Check(ids, e, one)
      BY <1>5 DEF HandleTx
    <2>2. e \in Event
      <3>1. chain[t] \in [n : 1..BATCH, event : Event]
        BY ElementType DEF ChainInv
      <3> QED BY <3>1
    <2>3. e.user \in Users
      BY <2>2 DEF Event
    <2> HIDE DEF e, ids
    <2>4. many \in Keys
      BY <2>3 DEF Keys
    <2>5. one \in Keys
      BY <2>3 DEF Keys
    <2> HIDE DEF many, one
    <2>6. ChainInv' /\ DiskInv'
      BY <2>1 DEF ChainInv, DiskInv, chainVars, process
    <2>7. CASE /\ handler' = Becomes(ids, At("candidates", e, many, FALSE, 0))
               /\ UNCHANGED memory
      <3> DEFINE r == At("candidates", e, many, FALSE, 0)
      <3>1. r \in Handler /\ r.stage = "candidates"
        BY <2>2, <2>4, AtType DEF Stages, At
      <3> HIDE DEF r
      <3>2. handler' = [h \in DOMAIN handler \cup ids |-> IF h \in ids THEN r ELSE handler[h]]
        BY <2>7 DEF Becomes, r
      <3>3. UNCHANGED <<claimed, counts, saveTimer, restored>>
        BY <2>7 DEF memory, remembered
      <3>4. HandlerInv' /\ SilentInv' /\ MemoryInv'
        BY <3>1, <3>2, <3>3 DEF HandlerInv, SilentInv, RestoredStaysSilent, PastTest, MemoryInv
      <3>5. SavedInv'
        BY <2>1, <3>3, MemorySaved
      <3> QED BY <2>6, <3>4, <3>5
    <2>8. CASE Check(ids, e, one)
      <3>1. /\ MemoryInv' /\ HandlerInv' /\ SilentInv'
            /\ saveTimer' = TRUE \/ UNCHANGED <<claimed, counts, saveTimer>>
        BY <2>2, <2>5, <2>8, CheckKeeps
      <3>2. SavedInv'
        BY <2>1, <3>1, MemorySaved
      <3> QED BY <2>6, <3>1, <3>2
    <2> QED BY <2>1, <2>7, <2>8
  <1>6. ASSUME NEW h \in DOMAIN handler, HandlerStep(h) PROVE IInv'
    BY <1>6, HandlerStepInv
  <1> QED BY <1>1, <1>2, <1>3, <1>4, <1>5, <1>6 DEF Next

\* And a stuttering step.
LEMMA StutterInv ==
  ASSUME IInv, UNCHANGED vars
  PROVE  IInv'
  BY DEF IInv, ChainInv, HandlerInv, MemoryInv, DiskInv, SilentInv, RestoredStaysSilent,
     PastTest, SavedInv, UnsavedIsScheduled, vars, chainVars, memory, remembered, process

\* The invariant of memory, files and handlers.
THEOREM FeedInvariant == Spec => []IInv
  <1>1. Init => IInv
    BY InitInv
  <1>2. IInv /\ [Next]_vars => IInv'
    BY StepInv, StutterInv
  <1> QED BY <1>1, <1>2, PTL DEF Spec

\* A key restored from the file is never announced again unless it is evicted.
THEOREM FeedRestoredStaysSilent == Spec => []RestoredStaysSilent
  <1>1. IInv => RestoredStaysSilent
    BY DEF IInv, SilentInv
  <1> QED BY <1>1, FeedInvariant, PTL

\* What memory has and the files have not is covered by a scheduled save, unless
\* a save failed.
THEOREM FeedUnsavedIsScheduled == Spec => []UnsavedIsScheduled
  <1>1. IInv => UnsavedIsScheduled
    BY DEF IInv, SavedInv
  <1> QED BY <1>1, FeedInvariant, PTL

------------------------------------------------------------------------------
(* The limits: entries of the set and of its file, attempts of a post.         *)

Within(q) == IsInjective(q) /\ Len(q) <= MAX_ENTRIES

SetsInv == /\ Within(claimed)
           /\ Within(disk.claims)
           /\ saveTimer \in BOOLEAN

RunInv == /\ DOMAIN handler \subseteq (DOMAIN chain) \X (1..BATCH)
          /\ \A h \in DOMAIN handler : handler[h].tries <= MAX_RETRIES
          /\ restarts \in 0..MaxRestarts

ShownInv == heard \subseteq [id : Ids, key : Keys] /\ late \subseteq Ids /\ lapsed \subseteq Keys

LimitInv == IInv /\ SetsInv /\ RunInv /\ ShownInv

\* markGithubUserClaimed() keeps the set without duplicates and within its limit.
LEMMA MarkWithin ==
  ASSUME claimed \in Seq(Keys), Within(claimed), saveTimer \in BOOLEAN,
         NEW k \in Keys, MarkClaimed(k)
  PROVE  Within(claimed') /\ saveTimer' \in BOOLEAN
  <1>1. CASE HasClaimed(k)
    BY <1>1 DEF MarkClaimed, remembered
  <1>2. CASE ~HasClaimed(k)
    <2> DEFINE full == Len(claimed) = MAX_ENTRIES
               kept == IF full THEN Tail(claimed) ELSE claimed
               d == IF full THEN 1 ELSE 0
    <2>1. claimed' = Append(kept, k) /\ saveTimer' = TRUE
      BY <1>2 DEF MarkClaimed
    <2>2. /\ MAX_ENTRIES \in Nat \ {0} /\ DOMAIN claimed = 1..Len(claimed) /\ Len(claimed) \in Nat
          /\ Len(claimed) <= MAX_ENTRIES
          /\ \A i, j \in DOMAIN claimed : claimed[i] = claimed[j] => i = j
          /\ \A i \in DOMAIN claimed : claimed[i] # k
      BY <1>2, FeedAssumption DEF Within, IsInjective, HasClaimed, Range
    <2>3. /\ kept \in Seq(Keys) /\ d \in {0, 1} /\ Len(kept) = Len(claimed) - d
          /\ \A i \in 1..Len(kept) : i + d \in DOMAIN claimed /\ kept[i] = claimed[i + d]
      <3>1. CASE full
        BY <2>2, <3>1
      <3>2. CASE ~full
        <4>1. kept = claimed /\ d = 0
          BY <3>2
        <4> HIDE DEF kept, d, full
        <4> QED BY <2>2, <4>1
      <3> QED BY <3>1, <3>2
    <2>4. Len(kept) < MAX_ENTRIES
      <3>1. (full /\ d = 1) \/ (Len(claimed) # MAX_ENTRIES /\ d = 0)
        OBVIOUS
      <3> HIDE DEF kept, d
      <3>2. Len(kept) = Len(claimed) - d /\ Len(claimed) <= MAX_ENTRIES
            /\ Len(claimed) \in Nat /\ MAX_ENTRIES \in Nat
        BY <2>2, <2>3
      <3> HIDE DEF full
      <3> QED BY <3>1, <3>2
    <2> HIDE DEF kept, d
    <2>5. /\ DOMAIN claimed' = 1..(Len(kept) + 1) /\ Len(claimed') = Len(kept) + 1
          /\ \A i \in 1..Len(kept) : claimed'[i] = kept[i]
          /\ claimed'[Len(kept) + 1] = k /\ Len(kept) \in Nat
      BY <2>1, <2>3
    <2>6. ASSUME NEW i \in DOMAIN claimed', NEW j \in DOMAIN claimed', claimed'[i] = claimed'[j]
          PROVE  i = j
      <3>1. CASE i \in 1..Len(kept) /\ j \in 1..Len(kept)
        <4>1. /\ i + d \in DOMAIN claimed /\ j + d \in DOMAIN claimed
              /\ kept[i] = claimed[i + d] /\ kept[j] = claimed[j + d]
          BY <2>3, <3>1
        <4>2. kept[i] = kept[j]
          BY <2>5, <2>6, <3>1
        <4>3. i + d = j + d
          BY <2>2, <4>1, <4>2
        <4> QED BY <2>3, <3>1, <4>3
      <3>2. CASE i = Len(kept) + 1 /\ j \in 1..Len(kept)
        <4>1. claimed'[j] = claimed[j + d] /\ j + d \in DOMAIN claimed
          BY <2>3, <2>5, <3>2
        <4> QED BY <2>2, <2>5, <2>6, <3>2, <4>1
      <3>3. CASE i \in 1..Len(kept) /\ j = Len(kept) + 1
        <4>1. claimed'[i] = claimed[i + d] /\ i + d \in DOMAIN claimed
          BY <2>3, <2>5, <3>3
        <4> QED BY <2>2, <2>5, <2>6, <3>3, <4>1
      <3>4. i \in 1..(Len(kept) + 1) /\ j \in 1..(Len(kept) + 1) /\ Len(kept) \in Nat
        BY <2>5
      <3>5. CASE i = Len(kept) + 1 /\ j = Len(kept) + 1
        BY <3>5
      <3> QED BY <3>1, <3>2, <3>3, <3>4, <3>5
    <2>7. Len(claimed') <= MAX_ENTRIES
      BY <2>2, <2>4, <2>5
    <2> QED BY <2>1, <2>6, <2>7 DEF Within, IsInjective
  <1> QED BY <1>1, <1>2

\* Handlers of the transaction t that start, go on or end, as the test leaves them.
LEMMA CheckWithin ==
  ASSUME LimitInv, NEW ids \in SUBSET ((DOMAIN chain) \X (1..BATCH)), NEW e \in Event,
         NEW k \in Keys, Check(ids, e, k), UNCHANGED <<chain, process>>
  PROVE  SetsInv' /\ RunInv'
  <1>1. Within(claimed') /\ saveTimer' \in BOOLEAN
    <2>1. CASE ~(HasClaimed(k) \/ ~LooksFirst(e))
      BY <2>1 DEF Check, remembered, LimitInv, SetsInv
    <2>2. CASE HasClaimed(k) \/ ~LooksFirst(e)
      BY <2>2, MarkWithin DEF Check, LimitInv, SetsInv, IInv, MemoryInv
    <2> QED BY <2>1, <2>2
  <1>2. /\ DOMAIN handler' \subseteq (DOMAIN chain) \X (1..BATCH)
        /\ \A h \in DOMAIN handler' : handler'[h].tries <= MAX_RETRIES
    <2>1. CASE handler' = Ended(ids)
      BY <2>1 DEF Ended, Restrict, LimitInv, RunInv
    <2>2. CASE handler' = Becomes(ids, At("context", e, k, FALSE, 0))
      BY <2>2, FeedAssumption DEF Becomes, At, LimitInv, RunInv
    <2> QED BY <2>1, <2>2 DEF Check
  <1> QED BY <1>1, <1>2 DEF SetsInv, RunInv, LimitInv, process

\* Every step keeps the limits.
LEMMA LimitStep ==
  ASSUME LimitInv, [Next]_vars
  PROVE  SetsInv' /\ RunInv'
  <1> USE DEF LimitInv
  <1>1. CASE Claim
    <2>1. UNCHANGED <<linked, seen, handler, memory, process>>
      BY <1>1 DEF Claim
    <2>2. PICK c : chain' = Append(chain, c)
      BY <1>1 DEF Claim
    <2>3. DOMAIN chain \subseteq DOMAIN chain'
      BY <2>2 DEF IInv, ChainInv
    <2> QED BY <2>1, <2>3 DEF SetsInv, RunInv, memory, remembered, process
  <1>2. ASSUME NEW u \in Users, Link(u) PROVE SetsInv' /\ RunInv'
    BY <1>2 DEF Link, SetsInv, RunInv, chainVars, memory, remembered, process
  <1>3. CASE Save
    <2>1. UNCHANGED <<chain, handler, claimed, restarts>> /\ saveTimer' = FALSE
      BY <1>3 DEF Save, chainVars
    <2>2. disk'.claims \in {disk.claims, claimed}
      BY <1>3 DEF Save, IInv, DiskInv
    <2> QED BY <2>1, <2>2 DEF SetsInv, RunInv
  <1>4. CASE Restart
    <2>1. /\ Load /\ saveTimer' = FALSE /\ handler' = <<>> /\ UNCHANGED <<chain, disk>>
          /\ restarts < MaxRestarts /\ restarts' = restarts + 1
      BY <1>4 DEF Restart, chainVars
    <2>2. Within(claimed')
      BY <2>1, FeedAssumption DEF Load, SetsInv, Within, IsInjective
    <2>3. restarts' \in 0..MaxRestarts
      BY <2>1, FeedAssumption DEF RunInv
    <2>4. DOMAIN handler' = {}
      BY <2>1
    <2> QED BY <2>1, <2>2, <2>3, <2>4 DEF SetsInv, RunInv
  <1>5. ASSUME NEW t \in DOMAIN chain, HandleTx(t) PROVE SetsInv' /\ RunInv'
    <2> DEFINE ids == {t} \X (1..chain[t].n)
               e == chain[t].event
               many == [user |-> e.user, mint |-> FALSE]
               one == [user |-> e.user, mint |-> linked[e.user] = 1]
    <2>1. /\ UNCHANGED <<chain, process>>
          /\ \/ /\ handler' = Becomes(ids, At("candidates", e, many, FALSE, 0))
                /\ UNCHANGED memory
             \/ Check(ids, e, one)
      BY <1>5 DEF HandleTx, chainVars
    <2>2. chain[t].n \in 1..BATCH /\ e \in Event /\ e.user \in Users
      <3>1. chain[t] \in [n : 1..BATCH, event : Event]
        BY ElementType DEF IInv, ChainInv
      <3> QED BY <3>1 DEF Event
    <2>3. one \in Keys
      BY <2>2 DEF Keys
    <2>4. ids \in SUBSET ((DOMAIN chain) \X (1..BATCH))
      BY <2>2, FeedAssumption
    <2> HIDE DEF ids, e, many, one
    <2>5. CASE /\ handler' = Becomes(ids, At("candidates", e, many, FALSE, 0))
               /\ UNCHANGED memory
      <3>1. /\ DOMAIN handler' \subseteq (DOMAIN chain) \X (1..BATCH)
            /\ \A h \in DOMAIN handler' : handler'[h].tries <= MAX_RETRIES
        BY <2>4, <2>5, FeedAssumption DEF Becomes, At, RunInv
      <3> QED BY <2>1, <2>5, <3>1 DEF SetsInv, RunInv, memory, remembered, process
    <2>6. CASE Check(ids, e, one)
      BY <2>1, <2>2, <2>3, <2>4, <2>6, CheckWithin
    <2> QED BY <2>1, <2>5, <2>6
  <1>6. ASSUME NEW h \in DOMAIN handler, HandlerStep(h) PROVE SetsInv' /\ RunInv'
    <2>1. /\ handler[h] \in Handler /\ handler[h].event \in Event /\ handler[h].key \in Keys
          /\ {h} \in SUBSET ((DOMAIN chain) \X (1..BATCH))
          /\ handler[h].key.user \in Users
      BY DEF IInv, HandlerInv, Handler, RunInv, Keys
    <2>2. ASSUME DOMAIN handler' \subseteq DOMAIN handler,
                 \A g \in DOMAIN handler' : handler'[g].tries <= MAX_RETRIES,
                 UNCHANGED <<chain, process>>
          PROVE  RunInv'
      BY <2>2 DEF RunInv, process
    <2>3. CASE CandidatesFetched(h)
      <3>1. /\ UNCHANGED <<chain, process>>
            /\ \/ Check({h}, handler[h].event, handler[h].key)
               \/ handler' = Ended({h}) /\ UNCHANGED memory
        BY <2>3 DEF CandidatesFetched, chainVars
      <3>2. CASE Check({h}, handler[h].event, handler[h].key)
        BY <2>1, <3>1, <3>2, CheckWithin
      <3>3. CASE handler' = Ended({h}) /\ UNCHANGED memory
        <4>1. /\ DOMAIN handler' \subseteq DOMAIN handler
              /\ \A g \in DOMAIN handler' : handler'[g].tries <= MAX_RETRIES
          BY <3>3 DEF Ended, Restrict, RunInv
        <4> QED BY <2>2, <3>1, <3>3, <4>1 DEF SetsInv, process, memory, remembered
      <3> QED BY <3>1, <3>2, <3>3
    <2>4. CASE ContextFetched(h)
      <3>1. /\ DOMAIN handler' \subseteq DOMAIN handler
            /\ \A g \in DOMAIN handler' : handler'[g].tries <= MAX_RETRIES
        <4>1. CASE handler' = Ended({h})
          BY <4>1 DEF Ended, Restrict, RunInv
        <4>2. CASE handler' # Ended({h})
          BY <2>4, <4>2, FeedAssumption DEF ContextFetched, Becomes, At, RunInv
        <4> QED BY <4>1, <4>2
      <3>2. UNCHANGED <<chain, process, claimed>> /\ saveTimer' \in BOOLEAN
        BY <2>4 DEF ContextFetched, chainVars, SetsInv
      <3> QED BY <2>2, <3>1, <3>2 DEF SetsInv, process
    <2>5. CASE Delivered(h)
      <3>1. /\ DOMAIN handler' \subseteq DOMAIN handler
            /\ \A g \in DOMAIN handler' : handler'[g].tries <= MAX_RETRIES
        <4>1. PICK w \in {"posted", "lost"} : handler' = [handler EXCEPT ![h].stage = w]
          BY <2>5 DEF Delivered
        <4>2. DOMAIN handler' = DOMAIN handler
          BY <4>1
        <4>3. ASSUME NEW g \in DOMAIN handler' PROVE handler'[g].tries = handler[g].tries
          BY <2>1, <4>1, <4>2 DEF Handler, IInv, HandlerInv
        <4> QED BY <4>2, <4>3 DEF RunInv
      <3>2. UNCHANGED <<chain, process, memory>>
        BY <2>1, <2>5 DEF Delivered, chainVars, RunInv
      <3> QED BY <2>2, <3>1, <3>2 DEF SetsInv, process, memory, remembered
    <2>6. CASE Acked(h)
      <3>1. /\ DOMAIN handler' \subseteq DOMAIN handler
            /\ \A g \in DOMAIN handler' : handler'[g].tries <= MAX_RETRIES
        BY <2>6 DEF Acked, Ended, Restrict, RunInv
      <3>2. UNCHANGED <<chain, process>> /\ MarkClaimed(handler[h].key)
        BY <2>6 DEF Acked, chainVars
      <3>3. Within(claimed') /\ saveTimer' \in BOOLEAN
        BY <2>1, <3>2, MarkWithin DEF SetsInv, IInv, MemoryInv
      <3> QED BY <2>2, <3>1, <3>2, <3>3 DEF SetsInv, RunInv, process
    <2>7. CASE Refused(h)
      <3>1. handler[h].tries \in Nat
        BY <2>1 DEF Handler
      <3>2. /\ DOMAIN handler' \subseteq DOMAIN handler
            /\ \A g \in DOMAIN handler' : handler'[g].tries <= MAX_RETRIES
        <4>1. CASE handler' = Ended({h})
          BY <4>1 DEF Ended, Restrict, RunInv
        <4>2. ASSUME NEW r, r.tries <= MAX_RETRIES, handler' = Becomes({h}, r)
              PROVE  /\ DOMAIN handler' \subseteq DOMAIN handler
                     /\ \A g \in DOMAIN handler' : handler'[g].tries <= MAX_RETRIES
          BY <4>2 DEF Becomes, RunInv
        <4>3. \/ handler' = Ended({h})
              \/ \E r : r.tries <= MAX_RETRIES /\ handler' = Becomes({h}, r)
          <5> DEFINE e == handler[h].event
                     k == handler[h].key
                     retry == At("asked", e, k, handler[h].photo, handler[h].tries + 1)
                     text == At("asked", e, k, FALSE, 0)
          <5>1. \/ handler[h].tries < MAX_RETRIES /\ handler' = Becomes({h}, retry)
                \/ handler' = Becomes({h}, text)
                \/ handler' = Ended({h})
            BY <2>7 DEF Refused
          <5>2. retry.tries = handler[h].tries + 1 /\ text.tries = 0
            BY DEF At
          <5> HIDE DEF retry, text
          <5>3. MAX_RETRIES \in Nat
            BY FeedAssumption
          <5> QED BY <3>1, <5>1, <5>2, <5>3
        <4> QED BY <4>1, <4>2, <4>3
      <3>3. UNCHANGED <<chain, process, claimed, saveTimer>>
        BY <2>7 DEF Refused, chainVars
      <3> QED BY <2>2, <3>2, <3>3 DEF SetsInv, RunInv, process
    <2> QED BY <1>6, <2>3, <2>4, <2>5, <2>6, <2>7 DEF HandlerStep
  <1>7. CASE UNCHANGED vars
    BY <1>7 DEF vars, SetsInv, RunInv, chainVars, memory, remembered, process
  <1> QED BY <1>1, <1>2, <1>3, <1>4, <1>5, <1>6, <1>7 DEF Next

\* The history has only handlers and keys.
LEMMA ShownStep ==
  ASSUME LimitInv, [Next]_vars
  PROVE  ShownInv'
  <1> USE DEF LimitInv
  <1>1. /\ DOMAIN handler \subseteq Ids /\ claimed \in Seq(Keys)
        /\ restored \subseteq Range(claimed)
        /\ \A h \in DOMAIN handler : handler[h].key \in Keys
    <2>1. DOMAIN handler \subseteq Ids
      BY DEF RunInv, IInv, ChainInv, Ids
    <2> QED BY <2>1 DEF IInv, MemoryInv, SilentInv, HandlerInv, Handler
  <1>2. ASSUME NEW k \in Keys, MarkClaimed(k) PROVE lapsed' \subseteq Keys
    <2>1. Range(claimed) \subseteq Keys
      BY <1>1 DEF Range
    <2> QED BY <1>1, <1>2, <2>1, MarkKeeps DEF ShownInv
  <1>3. ASSUME NEW ids \in SUBSET Ids, NEW e, NEW k \in Keys, Check(ids, e, k)
        PROVE  lapsed' \subseteq Keys /\ late' \subseteq Ids
    <2>1. CASE HasClaimed(k) \/ ~LooksFirst(e)
      BY <1>2, <1>3, <2>1 DEF Check, ShownInv
    <2>2. CASE ~(HasClaimed(k) \/ ~LooksFirst(e))
      <3>1. lapsed' = lapsed /\ late' = late \cup Overlapping(ids, k)
        BY <1>3, <2>2 DEF Check, remembered
      <3>2. Overlapping(ids, k) \subseteq ids
        BY DEF Overlapping
      <3> QED BY <3>1, <3>2 DEF ShownInv
    <2> QED BY <2>1, <2>2
  <1>4. CASE Claim \/ (\E u \in Users : Link(u)) \/ Save \/ UNCHANGED vars
    <2>1. UNCHANGED <<heard, late, lapsed>>
      BY <1>4 DEF Claim, Link, Save, vars, memory, remembered, shown
    <2> QED BY <2>1 DEF ShownInv
  <1>5. CASE Restart
    BY <1>5 DEF Restart, ShownInv
  <1>6. ASSUME NEW t \in DOMAIN chain, HandleTx(t) PROVE ShownInv'
    <2> DEFINE ids == {t} \X (1..chain[t].n)
               e == chain[t].event
               one == [user |-> e.user, mint |-> linked[e.user] = 1]
    <2>1. /\ heard' = heard
          /\ UNCHANGED <<memory, late>> \/ Check(ids, e, one)
      BY <1>6 DEF HandleTx
    <2>2. chain[t] \in [n : 1..BATCH, event : Event]
      BY ElementType DEF IInv, ChainInv
    <2>3. one \in Keys
      BY <2>2 DEF Event, Keys
    <2>4. ids \in SUBSET Ids
      BY <2>2, FeedAssumption DEF IInv, ChainInv, Ids
    <2> HIDE DEF ids, e, one
    <2>5. CASE UNCHANGED <<memory, late>>
      BY <2>1, <2>5 DEF ShownInv, memory, remembered
    <2>6. CASE Check(ids, e, one)
      BY <1>3, <2>1, <2>3, <2>4, <2>6 DEF ShownInv
    <2> QED BY <2>1, <2>5, <2>6
  <1>7. ASSUME NEW h \in DOMAIN handler, HandlerStep(h) PROVE ShownInv'
    <2>1. h \in Ids /\ handler[h].key \in Keys
      BY <1>1
    <2>2. CASE CandidatesFetched(h)
      <3>1. /\ heard' = heard
            /\ \/ Check({h}, handler[h].event, handler[h].key)
               \/ UNCHANGED <<memory, late>>
        BY <2>2 DEF CandidatesFetched
      <3>2. CASE Check({h}, handler[h].event, handler[h].key)
        BY <1>3, <2>1, <3>1, <3>2 DEF ShownInv
      <3>3. CASE UNCHANGED <<memory, late>>
        BY <3>1, <3>3 DEF ShownInv, memory, remembered
      <3> QED BY <3>1, <3>2, <3>3
    <2>3. CASE ContextFetched(h)
      BY <2>3 DEF ContextFetched, ShownInv, shown
    <2>4. CASE Delivered(h)
      BY <2>1, <2>4 DEF Delivered, ShownInv, memory, remembered
    <2>5. CASE Acked(h)
      BY <1>2, <2>1, <2>5 DEF Acked, ShownInv, shown
    <2>6. CASE Refused(h)
      <3>1. UNCHANGED <<heard, late>> /\ lapsed' \in {lapsed, lapsed \cup {handler[h].key}}
        BY <2>6 DEF Refused, shown
      <3> QED BY <2>1, <3>1 DEF ShownInv
    <2> QED BY <1>7, <2>2, <2>3, <2>4, <2>5, <2>6 DEF HandlerStep
  <1> QED BY <1>4, <1>5, <1>6, <1>7 DEF Next

\* Memory, files and handlers keep their types and limits: githubUserFirstClaim never
\* outgrows MAX_ENTRIES nor has an account twice, not even after a load, and no post is
\* attempted more often than withRetry() allows.
THEOREM FeedTypeOK == Spec => []TypeOK
  <1>1. Init => SetsInv /\ RunInv
    <2> SUFFICES ASSUME Init PROVE SetsInv /\ RunInv
      OBVIOUS
    <2>1. Within(<<>>)
      BY FeedAssumption DEF Within, IsInjective
    <2>2. DOMAIN handler = {}
      BY DEF Init
    <2>3. /\ claimed = <<>> /\ disk.claims = <<>> /\ saveTimer = FALSE
          /\ restarts = 0
      BY DEF Init
    <2>4. SetsInv
      BY <2>1, <2>3 DEF SetsInv
    <2>5. RunInv
      BY <2>2, <2>3, FeedAssumption DEF RunInv
    <2> QED BY <2>4, <2>5
  <1>2. LimitInv /\ [Next]_vars => LimitInv'
    BY LimitStep, ShownStep, StepInv, StutterInv DEF LimitInv
  <1>3. LimitInv => TypeOK
    <2> SUFFICES ASSUME LimitInv PROVE TypeOK
      OBVIOUS
    <2>1. ASSUME NEW h \in DOMAIN handler
          PROVE  handler[h] \in [stage : Stages, event : Event, key : Keys,
                                 photo : BOOLEAN, tries : 0..MAX_RETRIES]
      <3>1. handler[h] \in Handler /\ handler[h].tries <= MAX_RETRIES /\ MAX_RETRIES \in Nat
        BY FeedAssumption DEF LimitInv, IInv, HandlerInv, RunInv
      <3> QED BY <3>1 DEF Handler
    <2>2. restored \subseteq Keys
      BY DEF LimitInv, IInv, SilentInv, MemoryInv, Range
    <2>3. disk.torn \subseteq Files
      BY DEF LimitInv, IInv, DiskInv
    <2> QED BY <2>1, <2>2, <2>3 DEF TypeOK, LimitInv, IInv, ChainInv, MemoryInv, SavedInv,
              SetsInv, RunInv, ShownInv, Within, Stages
  <1>4. Init => LimitInv
    BY <1>1, InitInv DEF LimitInv, ShownInv, Init
  <1> QED BY <1>2, <1>3, <1>4, PTL DEF Spec

------------------------------------------------------------------------------
(* First claims only *)

Posting == {"asked", "posted", "lost"}

\* A handler works on its claim, past the test only on one that looks first.
WorkInv ==
    /\ DOMAIN handler \subseteq seen \X (1..BATCH)
    /\ \A h \in DOMAIN handler :
           /\ handler[h].event = chain[h[1]].event
           /\ handler[h].key.user = handler[h].event.user
           /\ PastTest(h) => LooksFirst(handler[h].event)

\* Of the claims of an account all but the first exceed what came before.
GrowingInv ==
    \A t \in DOMAIN chain :
        LET e == chain[t].event
        IN /\ 0 < e.amount /\ e.amount <= e.lifetime /\ e.lifetime <= lifetime[e.user]
           /\ \A s \in 1..(t - 1) : chain[s].event.user = e.user => e.amount < e.lifetime

\* What the channel showed is remembered, or lapsed, or its handler is still at it.
Remembered(c) == c.key \in Range(claimed) \cup lapsed \/ c.id \in DOMAIN handler
HeardInv ==
    \A c \in heard :
        /\ c.id \in seen \X (1..BATCH) /\ c.key \in Keys
        /\ c.key.user = chain[c.id[1]].event.user /\ LooksFirst(chain[c.id[1]].event)
        /\ c.id \in DOMAIN handler => /\ handler[c.id].stage \in Posting
                                      /\ handler[c.id].key = c.key
        /\ Remembered(c)

\* Of the handlers that work on a key past the test, and those that showed it, one
\* was not late.
Active(k) == {h \in DOMAIN handler : PastTest(h) /\ handler[h].key = k}
             \cup {c.id : c \in {d \in heard : d.key = k}}
OneInv == \A k \in Keys : \A x, y \in Active(k) : x = y \/ x \in late \/ y \in late

FirstInv == WorkInv /\ GrowingInv /\ HeardInv /\ OneInv

\* Nothing joins the handlers of a key.
LEMMA ActiveKept ==
  ASSUME OneInv, late \subseteq late', \A k \in Keys : Active(k)' \subseteq Active(k)
  PROVE  OneInv'
  BY DEF OneInv

\* The chain and the handlers' claims stay; handlers may end or take a step.
LEMMA WorkKept ==
  ASSUME WorkInv, UNCHANGED <<chain, seen>>, DOMAIN handler' \subseteq DOMAIN handler,
         \A h \in DOMAIN handler' :
             /\ handler'[h].event = handler[h].event /\ handler'[h].key = handler[h].key
             /\ PastTest(h) \/ handler'[h] = handler[h]
  PROVE  WorkInv'
  BY DEF WorkInv, PastTest

LEMMA GrowingKept ==
  ASSUME GrowingInv, UNCHANGED <<chain, lifetime>>
  PROVE  GrowingInv'
  BY DEF GrowingInv

\* Claim: what an account has withdrawn only grows.
LEMMA ClaimGrows ==
  ASSUME ChainInv, ChainInv', GrowingInv, Claim
  PROVE  /\ GrowingInv'
         /\ DOMAIN chain \subseteq DOMAIN chain' /\ \A t \in DOMAIN chain : chain'[t] = chain[t]
  <1>1. PICK n \in 1..BATCH, u, v \in Users, a, b \in Amounts :
            LET before == IF n = 1 THEN lifetime ELSE Withdrawn(lifetime, u, a)
                after == Withdrawn(before, v, b)
            IN /\ lifetime' = after
               /\ chain' = Append(chain, [n |-> n, event |->
                     [user |-> v, amount |-> b, lifetime |-> after[v]]])
    BY DEF Claim
  <1> DEFINE before == IF n = 1 THEN lifetime ELSE Withdrawn(lifetime, u, a)
             after == Withdrawn(before, v, b)
  <1>2. b \in Nat \ {0} /\ a \in Nat /\ lifetime \in [Users -> Nat]
    BY FeedAssumption DEF ChainInv
  <1>20. before \in [Users -> Nat] /\ \A w \in Users : lifetime[w] <= before[w]
    BY <1>2 DEF Withdrawn
  <1>21. lifetime' = after /\ chain' = Append(chain, [n |-> n, event |->
                     [user |-> v, amount |-> b, lifetime |-> after[v]]])
    BY <1>1
  <1> HIDE DEF before
  <1>3. /\ lifetime'[v] = before[v] + b
        /\ \A w \in Users : w # v => lifetime'[w] = before[w]
    BY <1>20, <1>21 DEF Withdrawn
  <1>30. after[v] = lifetime'[v]
    BY <1>21
  <1> HIDE DEF after
  <1> DEFINE m == Len(chain)
             e == [user |-> v, amount |-> b, lifetime |-> lifetime'[v]]
  <1>4. /\ m \in Nat /\ DOMAIN chain = 1..m /\ DOMAIN chain' = 1..(m + 1)
        /\ \A t \in 1..m : chain'[t] = chain[t]
        /\ chain'[m + 1] = [n |-> n, event |-> e]
    BY <1>21, <1>30 DEF ChainInv
  <1>5. /\ chain'[m + 1].event.user = v /\ chain'[m + 1].event.amount = b
        /\ chain'[m + 1].event.lifetime = before[v] + b
    BY <1>3, <1>4
  <1>6. ASSUME NEW t \in 1..m
        PROVE  /\ chain[t].event.user \in Users /\ chain[t].event.amount \in Nat
               /\ chain[t].event.lifetime \in Nat
    <2>1. chain[t] \in [n : 1..BATCH, event : Event]
      BY <1>4, ElementType DEF ChainInv
    <2> QED BY <2>1 DEF Event
  <1> HIDE DEF m, e
  <1>7. ASSUME NEW t \in 1..(m + 1)
        PROVE  LET f == chain'[t].event
               IN /\ 0 < f.amount /\ f.amount <= f.lifetime /\ f.lifetime <= lifetime'[f.user]
                  /\ \A s \in 1..(t - 1) : chain'[s].event.user = f.user => f.amount < f.lifetime
    <2>1. CASE t \in 1..m
      <3>1. /\ 0 < chain[t].event.amount /\ chain[t].event.amount <= chain[t].event.lifetime
            /\ chain[t].event.lifetime <= lifetime[chain[t].event.user]
            /\ \A s \in 1..(t - 1) : chain[s].event.user = chain[t].event.user
                                        => chain[t].event.amount < chain[t].event.lifetime
        BY <1>4, <2>1 DEF GrowingInv
      <3>2. chain'[t] = chain[t] /\ \A s \in 1..(t - 1) : s \in 1..m /\ chain'[s] = chain[s]
        BY <1>4, <2>1
      <3>3. chain[t].event.lifetime <= lifetime'[chain[t].event.user]
        <4>1. chain[t].event.lifetime \in Nat /\ chain[t].event.user \in Users
          BY <1>6, <2>1
        <4>2. lifetime[chain[t].event.user] \in Nat /\ before[chain[t].event.user] \in Nat
              /\ lifetime[chain[t].event.user] <= before[chain[t].event.user]
          BY <1>2, <1>20, <4>1
        <4>3. CASE chain[t].event.user = v
          BY <1>2, <1>3, <3>1, <4>1, <4>2, <4>3
        <4>4. CASE chain[t].event.user # v
          BY <1>3, <3>1, <4>1, <4>2, <4>4
        <4> QED BY <4>3, <4>4
      <3> QED BY <3>1, <3>2, <3>3
    <2>2. CASE t = m + 1
      <3>0. before[v] \in Nat /\ lifetime[v] \in Nat /\ lifetime[v] <= before[v]
        BY <1>2, <1>20
      <3>1. ASSUME NEW s \in 1..m, chain[s].event.user = v PROVE b < before[v] + b
        <4>1. 0 < chain[s].event.amount /\ chain[s].event.amount <= chain[s].event.lifetime
              /\ chain[s].event.lifetime <= lifetime[v]
          BY <1>4, <3>1 DEF GrowingInv
        <4> QED BY <1>2, <1>6, <3>0, <4>1
      <3>2. \A s \in 1..(t - 1) : s \in 1..m /\ chain'[s] = chain[s]
        BY <1>4, <2>2
      <3> QED BY <1>2, <1>3, <1>5, <2>2, <3>0, <3>1, <3>2
    <2> QED BY <1>4, <2>1, <2>2
  <1> QED BY <1>4, <1>7 DEF GrowingInv

\* The test for a first claim keeps the invariant, for handlers ids that have shown
\* nothing and are not past it.
LEMMA CheckFirsts ==
  ASSUME IInv, WorkInv, HeardInv, OneInv, NEW ids, NEW e \in Event, NEW k \in Keys,
         Check(ids, e, k), UNCHANGED <<chain, heard>>, seen \subseteq seen',
         ids \subseteq seen' \X (1..BATCH), k.user = e.user,
         \A h \in ids : chain[h[1]].event = e,
         \A h \in ids \cap DOMAIN handler : ~PastTest(h),
         \A c \in heard : c.id \notin ids
  PROVE  WorkInv' /\ HeardInv' /\ OneInv'
  <1>1. CASE HasClaimed(k) \/ ~LooksFirst(e)
    <2>1. handler' = Ended(ids) /\ MarkClaimed(k) /\ late' = late
      BY <1>1 DEF Check
    <2>2. DOMAIN handler' = DOMAIN handler \ ids /\ \A h \in DOMAIN handler' : handler'[h] = handler[h]
      BY <2>1 DEF Ended, Restrict
    <2>3. WorkInv'
      BY <2>2 DEF WorkInv, PastTest
    <2>4. Range(claimed) \cup lapsed \subseteq Range(claimed)' \cup lapsed'
      BY <2>1, MarkKeeps DEF IInv, MemoryInv, SilentInv
    <2>5. HeardInv'
      BY <2>2, <2>4 DEF HeardInv, Remembered
    <2>6. \A l \in Keys : Active(l)' \subseteq Active(l)
      BY <2>2 DEF Active, PastTest
    <2>7. OneInv'
      BY <2>1, <2>6, ActiveKept
    <2> QED BY <2>3, <2>5, <2>7
  <1>2. CASE ~HasClaimed(k) /\ LooksFirst(e)
    <2> DEFINE r == At("context", e, k, FALSE, 0)
    <2>1. handler' = Becomes(ids, r) /\ late' = late \cup Overlapping(ids, k)
          /\ UNCHANGED <<claimed, lapsed>>
      BY <1>2 DEF Check, remembered
    <2>2. r.stage = "context" /\ r.event = e /\ r.key = k
      BY DEF At
    <2> HIDE DEF r
    <2>3. /\ DOMAIN handler' = DOMAIN handler \cup ids
          /\ \A h \in ids : handler'[h] = r
          /\ \A h \in DOMAIN handler \ ids : handler'[h] = handler[h]
      BY <2>1 DEF Becomes
    <2>4. WorkInv'
      <3>1. DOMAIN handler' \subseteq seen' \X (1..BATCH)
        BY <2>3 DEF WorkInv
      <3>2. ASSUME NEW h \in DOMAIN handler'
            PROVE  /\ handler'[h].event = chain[h[1]].event
                   /\ handler'[h].key.user = handler'[h].event.user
                   /\ handler'[h].stage # "candidates" => LooksFirst(handler'[h].event)
        <4>1. CASE h \in ids
          BY <1>2, <2>2, <2>3, <4>1
        <4>2. CASE h \notin ids
          BY <2>3, <4>2 DEF WorkInv, PastTest
        <4> QED BY <4>1, <4>2
      <3> QED BY <3>1, <3>2 DEF WorkInv, PastTest
    <2>5. HeardInv'
      <3>1. ASSUME NEW c \in heard PROVE c.id \notin ids
        OBVIOUS
      <3> QED BY <2>1, <2>3, <3>1 DEF HeardInv, Remembered
    <2>6. OneInv'
      <3> SUFFICES ASSUME NEW l \in Keys, NEW x \in Active(l)', NEW y \in Active(l)'
                   PROVE  x = y \/ x \in late' \/ y \in late'
        BY DEF OneInv
      <3>1. late \subseteq late'
        BY <2>1
      <3>2. CASE l # k
        <4>1. Active(l)' \subseteq Active(l)
          BY <2>2, <2>3, <3>2 DEF Active, PastTest
        <4> QED BY <3>1, <4>1 DEF OneInv
      <3>3. CASE l = k
        <4>1. Active(k)' \subseteq Active(k) \cup ids
          BY <2>2, <2>3 DEF Active, PastTest
        <4>2. CASE k \in lapsed \/ \E g \in DOMAIN handler \ ids : PastTest(g) /\ handler[g].key = k
          <5>1. ids \subseteq late'
            BY <2>1, <4>2 DEF Overlapping
          <5> QED BY <3>1, <3>3, <4>1, <5>1 DEF OneInv
        <4>3. CASE ~(k \in lapsed
                     \/ \E g \in DOMAIN handler \ ids : PastTest(g) /\ handler[g].key = k)
          <5>1. late' = late \cup (ids \ {CHOOSE h \in ids : TRUE})
            BY <2>1, <4>3 DEF Overlapping
          <5>2. ASSUME NEW c \in heard, c.key = k PROVE FALSE
            <6>1. k \notin Range(claimed) /\ k \notin lapsed
              BY <1>2, <4>3 DEF HasClaimed
            <6>2. c.id \in DOMAIN handler /\ handler[c.id].stage \in Posting
                  /\ handler[c.id].key = k
              BY <5>2, <6>1 DEF HeardInv, Remembered
            <6>3. c.id \in DOMAIN handler \ ids /\ PastTest(c.id)
              BY <6>2 DEF PastTest, Posting
            <6> QED BY <4>3, <6>2, <6>3
          <5>3. Active(k) = {}
            <6>1. ASSUME NEW h \in DOMAIN handler, PastTest(h), handler[h].key = k PROVE FALSE
              BY <4>3, <6>1
            <6> QED BY <5>2, <6>1 DEF Active
          <5>4. x \in ids /\ y \in ids
            BY <3>3, <4>1, <5>3
          <5> QED BY <5>1, <5>4
        <4> QED BY <4>2, <4>3
      <3> QED BY <3>2, <3>3
    <2> QED BY <2>4, <2>5, <2>6
  <1> QED BY <1>1, <1>2

\* A handler past the test takes a step or ends, and its key is remembered if it has
\* shown its claim.
LEMMA StepFirsts ==
  ASSUME WorkInv, HeardInv, OneInv, NEW h \in DOMAIN handler, UNCHANGED <<chain, seen, late>>,
         PastTest(h), heard' = heard,
         Range(claimed) \cup lapsed \subseteq Range(claimed)' \cup lapsed',
         DOMAIN handler' \subseteq DOMAIN handler,
         \A g \in DOMAIN handler' \ {h} : handler'[g] = handler[g],
         h \in DOMAIN handler' => /\ handler'[h].event = handler[h].event
                                  /\ handler'[h].key = handler[h].key
                                  /\ handler'[h].stage \in Posting,
         DOMAIN handler \ {h} \subseteq DOMAIN handler',
         h \in DOMAIN handler' \/ \A c \in heard : c.id = h => c.key \in Range(claimed)' \cup lapsed'
  PROVE  WorkInv' /\ HeardInv' /\ OneInv'
  <1>1. WorkInv'
    <2>1. \A g \in DOMAIN handler' :
             /\ handler'[g].event = handler[g].event /\ handler'[g].key = handler[g].key
             /\ PastTest(g) \/ handler'[g] = handler[g]
      OBVIOUS
    <2> QED BY <2>1, WorkKept
  <1>2. HeardInv'
    BY DEF HeardInv, Remembered
  <1>3. \A k \in Keys : Active(k)' \subseteq Active(k)
    BY DEF Active, PastTest, Posting
  <1>4. OneInv'
    BY <1>3, ActiveKept
  <1> QED BY <1>1, <1>2, <1>4

\* Every step of a handler keeps the invariant.
LEMMA HandlerFirsts ==
  ASSUME IInv, FirstInv, NEW h \in DOMAIN handler, HandlerStep(h)
  PROVE  FirstInv'
  <1> USE DEF FirstInv
  <1> DEFINE k == handler[h].key
             e == handler[h].event
  <1>0. /\ handler[h] \in Handler /\ k \in Keys /\ e \in Event
        /\ h \in seen \X (1..BATCH) /\ e = chain[h[1]].event /\ k.user = e.user
    BY DEF IInv, HandlerInv, Handler, WorkInv
  <1>00. UNCHANGED <<chain, lifetime, seen>>
    BY DEF HandlerStep, CandidatesFetched, ContextFetched, Delivered, Acked, Refused, chainVars
  <1>01. GrowingInv'
    BY <1>00, GrowingKept
  <1>02. ASSUME NEW c \in heard, c.id = h PROVE handler[h].stage \in Posting /\ c.key = k
    BY <1>02 DEF HeardInv
  <1>1. CASE CandidatesFetched(h)
    <2>1. /\ handler[h].stage = "candidates" /\ heard' = heard
          /\ Check({h}, e, k) \/ (handler' = Ended({h}) /\ UNCHANGED <<memory, late>>)
      BY <1>1 DEF CandidatesFetched
    <2>2. \A c \in heard : c.id \notin {h}
      BY <1>02, <2>1 DEF Posting
    <2>3. CASE Check({h}, e, k)
      <3>1. {h} \subseteq seen' \X (1..BATCH) /\ \A g \in {h} : chain[g[1]].event = e
        BY <1>0, <1>00
      <3>2. \A g \in {h} \cap DOMAIN handler : ~PastTest(g)
        BY <2>1 DEF PastTest
      <3> HIDE DEF k, e
      <3>3. WorkInv' /\ HeardInv' /\ OneInv'
        BY <1>0, <1>00, <2>1, <2>2, <2>3, <3>1, <3>2, CheckFirsts
      <3> QED BY <1>01, <3>3
    <2>4. CASE handler' = Ended({h}) /\ UNCHANGED <<memory, late>>
      <3>1. /\ DOMAIN handler' = DOMAIN handler \ {h}
            /\ \A g \in DOMAIN handler' : handler'[g] = handler[g]
            /\ UNCHANGED <<claimed, lapsed, late>>
        BY <2>4 DEF Ended, Restrict, memory, remembered
      <3>2. WorkInv'
        BY <1>00, <3>1, WorkKept
      <3>3. HeardInv'
        BY <1>00, <2>1, <2>2, <3>1 DEF HeardInv, Remembered
      <3>4. \A l \in Keys : Active(l)' \subseteq Active(l)
        BY <2>1, <3>1 DEF Active, PastTest
      <3>5. OneInv'
        BY <3>1, <3>4, ActiveKept
      <3> QED BY <1>01, <3>2, <3>3, <3>5
    <2> QED BY <2>1, <2>3, <2>4
  <1>2. CASE ContextFetched(h)
    <2>1. /\ handler[h].stage = "context" /\ UNCHANGED <<heard, late, claimed, lapsed>>
          /\ \/ handler' = Ended({h})
             \/ \E photo \in BOOLEAN : handler' = Becomes({h}, At("asked", e, k, photo, 0))
      BY <1>2 DEF ContextFetched, shown
    <2>2. PastTest(h) /\ \A c \in heard : c.id # h
      BY <1>02, <2>1 DEF PastTest, Posting
    <2>3. CASE handler' = Ended({h})
      <3>1. DOMAIN handler' = DOMAIN handler \ {h} /\ \A g \in DOMAIN handler' : handler'[g] = handler[g]
        BY <2>3 DEF Ended, Restrict
      <3>2. WorkInv' /\ HeardInv' /\ OneInv'
        BY <1>00, <2>1, <2>2, <3>1, StepFirsts
      <3> QED BY <1>01, <3>2
    <2>4. ASSUME NEW photo \in BOOLEAN, handler' = Becomes({h}, At("asked", e, k, photo, 0))
          PROVE  FirstInv'
      <3>1. /\ DOMAIN handler' = DOMAIN handler
            /\ \A g \in DOMAIN handler \ {h} : handler'[g] = handler[g]
            /\ handler'[h].event = e /\ handler'[h].key = k /\ handler'[h].stage \in Posting
        BY <2>4 DEF Becomes, At, Posting
      <3>2. WorkInv' /\ HeardInv' /\ OneInv'
        BY <1>00, <2>1, <2>2, <3>1, StepFirsts
      <3> QED BY <1>01, <3>2
    <2> QED BY <2>1, <2>3, <2>4
  <1>3. CASE Delivered(h)
    <2>1. /\ handler[h].stage = "asked" /\ UNCHANGED <<memory, late>>
          /\ heard' = heard \cup {[id |-> h, key |-> k]}
      BY <1>3 DEF Delivered
    <2>2. PICK stage \in {"posted", "lost"} : handler' = [handler EXCEPT ![h].stage = stage]
      BY <1>3 DEF Delivered
    <2>3. /\ DOMAIN handler' = DOMAIN handler
          /\ \A g \in DOMAIN handler \ {h} : handler'[g] = handler[g]
          /\ handler'[h].event = e /\ handler'[h].key = k /\ handler'[h].stage \in Posting
      BY <1>0, <2>2 DEF Handler, Posting
    <2>4. PastTest(h) /\ UNCHANGED <<claimed, lapsed, late>>
      BY <2>1 DEF PastTest, memory, remembered
    <2>5. WorkInv'
      <3>1. \A g \in DOMAIN handler' :
               /\ handler'[g].event = handler[g].event /\ handler'[g].key = handler[g].key
               /\ PastTest(g) \/ handler'[g] = handler[g]
        BY <2>3, <2>4
      <3> QED BY <1>00, <2>3, <3>1, WorkKept
    <2>6. HeardInv'
      <3> SUFFICES ASSUME NEW c \in heard'
                   PROVE  /\ c.id \in seen' \X (1..BATCH) /\ c.key \in Keys
                          /\ c.key.user = chain'[c.id[1]].event.user
                          /\ LooksFirst(chain'[c.id[1]].event)
                          /\ c.id \in DOMAIN handler' => /\ handler'[c.id].stage \in Posting
                                                         /\ handler'[c.id].key = c.key
                          /\ Remembered(c)'
        BY DEF HeardInv
      <3>1. CASE c \in heard
        <4>1. /\ c.id \in seen \X (1..BATCH) /\ c.key \in Keys
              /\ c.key.user = chain[c.id[1]].event.user /\ LooksFirst(chain[c.id[1]].event)
              /\ c.id \in DOMAIN handler => /\ handler[c.id].stage \in Posting
                                            /\ handler[c.id].key = c.key
              /\ Remembered(c)
          BY <3>1 DEF HeardInv
        <4> QED BY <1>00, <2>3, <2>4, <4>1 DEF Remembered
      <3>2. CASE c = [id |-> h, key |-> k]
        <4>1. c.id = h /\ c.key = k
          BY <3>2
        <4>2. LooksFirst(e)
          BY <2>4 DEF WorkInv
        <4> HIDE DEF k, e
        <4> QED BY <1>0, <1>00, <2>3, <4>1, <4>2 DEF Remembered
      <3> QED BY <2>1, <3>1, <3>2
    <2>7. ASSUME NEW l \in Keys PROVE Active(l)' \subseteq Active(l)
      <3> SUFFICES ASSUME NEW x \in Active(l)' PROVE x \in Active(l)
        OBVIOUS
      <3>1. CASE x \in DOMAIN handler' /\ PastTest(x)' /\ handler'[x].key = l
        BY <2>3, <2>4, <3>1 DEF Active, PastTest
      <3>2. CASE \E c \in heard : c.key = l /\ x = c.id
        BY <3>2 DEF Active
      <3>3. CASE x = h /\ k = l
        BY <2>4, <3>3 DEF Active
      <3> QED BY <2>1, <3>1, <3>2, <3>3 DEF Active
    <2>8. OneInv'
      BY <2>4, <2>7, ActiveKept
    <2> QED BY <1>01, <2>5, <2>6, <2>8
  <1>4. CASE Acked(h)
    <2>1. /\ handler[h].stage = "posted" /\ MarkClaimed(k) /\ handler' = Ended({h})
          /\ UNCHANGED <<heard, late>>
      BY <1>4 DEF Acked, shown
    <2>2. /\ Range(claimed) \cup lapsed \subseteq Range(claimed)' \cup lapsed'
          /\ k \in Range(claimed)'
      BY <1>0, <2>1, MarkKeeps DEF IInv, MemoryInv, SilentInv
    <2>3. DOMAIN handler' = DOMAIN handler \ {h} /\ \A g \in DOMAIN handler' : handler'[g] = handler[g]
      BY <2>1 DEF Ended, Restrict
    <2>4. PastTest(h) /\ \A c \in heard : c.id = h => c.key \in Range(claimed)' \cup lapsed'
      BY <1>02, <2>1, <2>2 DEF PastTest
    <2>5. WorkInv' /\ HeardInv' /\ OneInv'
      BY <1>00, <2>1, <2>2, <2>3, <2>4, StepFirsts
    <2> QED BY <1>01, <2>5
  <1>5. CASE Refused(h)
    <2> DEFINE retry == At("asked", e, k, handler[h].photo, handler[h].tries + 1)
               text == At("asked", e, k, FALSE, 0)
               unmarked == \E c \in heard : c.id = h /\ ~HasClaimed(k)
    <2>1. /\ handler[h].stage \in {"asked", "lost"} /\ UNCHANGED <<heard, late, claimed>>
          /\ \/ handler' = Becomes({h}, retry) /\ UNCHANGED lapsed
             \/ handler' = Becomes({h}, text) /\ UNCHANGED lapsed
             \/ /\ handler' = Ended({h})
                /\ lapsed' = IF unmarked THEN lapsed \cup {k} ELSE lapsed
      BY <1>5 DEF Refused, shown
    <2>2. PastTest(h)
      BY <2>1 DEF PastTest
    <2>3. ASSUME NEW r, r.event = e, r.key = k, r.stage = "asked", UNCHANGED lapsed,
                 handler' = Becomes({h}, r)
          PROVE  WorkInv' /\ HeardInv' /\ OneInv'
      <3>1. /\ DOMAIN handler' = DOMAIN handler
            /\ \A g \in DOMAIN handler \ {h} : handler'[g] = handler[g]
            /\ handler'[h].event = e /\ handler'[h].key = k /\ handler'[h].stage \in Posting
        BY <2>3 DEF Becomes, Posting
      <3> QED BY <1>00, <2>1, <2>2, <2>3, <3>1, StepFirsts
    <2>4. CASE handler' = Ended({h}) /\ lapsed' = IF unmarked THEN lapsed \cup {k} ELSE lapsed
      <3>1. DOMAIN handler' = DOMAIN handler \ {h} /\ \A g \in DOMAIN handler' : handler'[g] = handler[g]
        BY <2>4 DEF Ended, Restrict
      <3>2. lapsed \subseteq lapsed'
        BY <2>4
      <3>3. ASSUME NEW c \in heard, c.id = h PROVE c.key \in Range(claimed)' \cup lapsed'
        <4>1. c.key = k
          BY <1>02, <3>3
        <4>2. CASE HasClaimed(k)
          BY <2>1, <4>1, <4>2 DEF HasClaimed
        <4>3. CASE ~HasClaimed(k)
          BY <2>4, <3>3, <4>1, <4>3
        <4> QED BY <4>2, <4>3
      <3>4. Range(claimed) \cup lapsed \subseteq Range(claimed)' \cup lapsed'
        BY <2>1, <3>2
      <3>5. WorkInv' /\ HeardInv' /\ OneInv'
        BY <1>00, <2>1, <2>2, <3>1, <3>3, <3>4, StepFirsts
      <3> QED BY <1>01, <3>5
    <2>5. /\ retry.event = e /\ retry.key = k /\ retry.stage = "asked"
          /\ text.event = e /\ text.key = k /\ text.stage = "asked"
      BY DEF At
    <2> HIDE DEF retry, text, k, e, unmarked
    <2>6. WorkInv' /\ HeardInv' /\ OneInv'
      BY <2>1, <2>3, <2>4, <2>5
    <2> QED BY <1>01, <2>6
  <1> QED BY <1>1, <1>2, <1>3, <1>4, <1>5 DEF HandlerStep

\* Every step keeps the invariant.
LEMMA FirstStep ==
  ASSUME IInv, IInv', FirstInv, [Next]_vars
  PROVE  FirstInv'
  <1> USE DEF FirstInv
  <1>1. CASE Claim
    <2>1. UNCHANGED <<seen, handler, claimed, lapsed, heard, late>>
      BY <1>1 DEF Claim, memory, remembered, shown
    <2>2. /\ GrowingInv' /\ DOMAIN chain \subseteq DOMAIN chain'
          /\ \A t \in DOMAIN chain : chain'[t] = chain[t]
      BY <1>1, ClaimGrows DEF IInv
    <2>3. \A t \in seen : chain'[t] = chain[t]
      BY <2>2 DEF IInv, ChainInv
    <2>4. WorkInv'
      <3>1. \A h \in DOMAIN handler : chain'[h[1]] = chain[h[1]]
        BY <2>3 DEF WorkInv
      <3> QED BY <2>1, <3>1 DEF WorkInv, PastTest
    <2>5. HeardInv'
      <3>1. \A c \in heard : chain'[c.id[1]] = chain[c.id[1]]
        BY <2>3 DEF HeardInv
      <3> QED BY <2>1, <3>1 DEF HeardInv, Remembered
    <2>6. OneInv'
      BY <2>1 DEF OneInv, Active, PastTest
    <2> QED BY <2>2, <2>4, <2>5, <2>6
  <1>2. CASE (\E u \in Users : Link(u)) \/ Save \/ UNCHANGED vars
    <2>1. UNCHANGED <<chain, lifetime, seen, handler, claimed, lapsed, heard, late>>
      BY <1>2 DEF Link, Save, vars, chainVars, memory, remembered, shown
    <2> QED BY <2>1 DEF WorkInv, GrowingInv, HeardInv, Remembered, OneInv, Active, PastTest
  <1>3. CASE Restart
    <2>1. /\ UNCHANGED <<chain, lifetime>> /\ handler' = <<>> /\ heard' = {}
      BY <1>3 DEF Restart, chainVars
    <2>2. DOMAIN handler' = {}
      BY <2>1
    <2>3. GrowingInv'
      BY <2>1, GrowingKept
    <2> QED BY <2>1, <2>2, <2>3 DEF WorkInv, HeardInv, OneInv, Active
  <1>4. ASSUME NEW t \in DOMAIN chain, HandleTx(t) PROVE FirstInv'
    <2> DEFINE ids == {t} \X (1..chain[t].n)
               e == chain[t].event
               many == [user |-> e.user, mint |-> FALSE]
               one == [user |-> e.user, mint |-> linked[e.user] = 1]
    <2>1. /\ t \notin seen /\ seen' = seen \cup {t} /\ UNCHANGED <<chain, lifetime, heard>>
          /\ \/ /\ handler' = Becomes(ids, At("candidates", e, many, FALSE, 0))
                /\ UNCHANGED <<memory, late>>
             \/ Check(ids, e, one)
      BY <1>4 DEF HandleTx, chainVars
    <2>2. GrowingInv'
      BY <2>1, GrowingKept
    <2>3. chain[t] \in [n : 1..BATCH, event : Event]
      BY ElementType DEF IInv, ChainInv
    <2>4. e \in Event /\ one \in Keys /\ one.user = e.user /\ many.user = e.user
      BY <2>3 DEF Event, Keys
    <2>5. /\ ids \subseteq seen' \X (1..BATCH) /\ \A h \in ids : h[1] = t
      BY <2>1, <2>3, FeedAssumption
    <2>6. /\ \A h \in ids : h \notin DOMAIN handler
          /\ \A c \in heard : c.id \notin ids
      <3>1. ASSUME NEW h \in ids PROVE h \notin seen \X (1..BATCH)
        BY <2>1, <2>5
      <3> HIDE DEF ids
      <3> QED BY <3>1 DEF WorkInv, HeardInv
    <2> HIDE DEF ids, many, one
    <2>7. CASE Check(ids, e, one)
      <3>1. \A h \in ids : chain[h[1]].event = e
        BY <2>5
      <3> HIDE DEF e
      <3>2. WorkInv' /\ HeardInv' /\ OneInv'
        BY <2>1, <2>4, <2>5, <2>6, <2>7, <3>1, CheckFirsts
      <3> QED BY <2>2, <3>2
    <2>8. CASE /\ handler' = Becomes(ids, At("candidates", e, many, FALSE, 0))
               /\ UNCHANGED <<memory, late>>
      <3> DEFINE r == At("candidates", e, many, FALSE, 0)
      <3>1. r.stage = "candidates" /\ r.event = e /\ r.key = many
        BY DEF At
      <3> HIDE DEF r
      <3>2. /\ DOMAIN handler' = DOMAIN handler \cup ids
            /\ \A h \in ids : handler'[h] = r
            /\ \A h \in DOMAIN handler : handler'[h] = handler[h]
            /\ UNCHANGED <<claimed, lapsed, late>>
        BY <2>6, <2>8 DEF Becomes, r, memory, remembered
      <3>3. WorkInv'
        <4>1. DOMAIN handler' \subseteq seen' \X (1..BATCH)
          BY <2>1, <2>5, <3>2 DEF WorkInv
        <4>2. ASSUME NEW h \in DOMAIN handler'
              PROVE  /\ handler'[h].event = chain[h[1]].event
                     /\ handler'[h].key.user = handler'[h].event.user
                     /\ handler'[h].stage # "candidates" => LooksFirst(handler'[h].event)
          <5>1. CASE h \in ids
            BY <2>4, <2>5, <3>1, <3>2, <5>1
          <5>2. CASE h \in DOMAIN handler
            BY <3>2, <5>2 DEF WorkInv, PastTest
          <5> QED BY <3>2, <5>1, <5>2
        <4> QED BY <2>1, <4>1, <4>2 DEF WorkInv, PastTest
      <3>4. HeardInv'
        BY <2>1, <2>6, <3>2 DEF HeardInv, Remembered
      <3>5. \A l \in Keys : Active(l)' \subseteq Active(l)
        BY <2>1, <3>1, <3>2 DEF Active, PastTest
      <3>6. OneInv'
        BY <3>2, <3>5, ActiveKept
      <3> QED BY <2>2, <3>3, <3>4, <3>6
    <2> QED BY <2>1, <2>7, <2>8
  <1>5. ASSUME NEW h \in DOMAIN handler, HandlerStep(h) PROVE FirstInv'
    BY <1>5, HandlerFirsts
  <1> QED BY <1>1, <1>2, <1>3, <1>4, <1>5 DEF Next

\* The invariant gives the property.
LEMMA FirstSuffices ==
  ASSUME IInv, FirstInv
  PROVE  FirstClaimsOnly
  <1> USE DEF FirstInv
  <1> SUFFICES ASSUME NEW c \in heard, NEW d \in heard
               PROVE  /\ c.key = d.key => c.id = d.id \/ {c.id, d.id} \cap late # {}
                      /\ c.key.user = d.key.user /\ c.id[1] < d.id[1]
                             => d.id[1] \in Dwarfing(d.key.user)
    BY DEF FirstClaimsOnly
  <1>1. ASSUME c.key = d.key PROVE c.id = d.id \/ {c.id, d.id} \cap late # {}
    <2>1. c.id \in Active(c.key) /\ d.id \in Active(c.key) /\ c.key \in Keys
      BY <1>1 DEF Active, HeardInv
    <2> QED BY <2>1 DEF OneInv
  <1>2. ASSUME c.key.user = d.key.user, c.id[1] < d.id[1]
        PROVE  d.id[1] \in Dwarfing(d.key.user)
    <2> DEFINE s == c.id[1]
               t == d.id[1]
    <2>1. /\ s \in DOMAIN chain /\ t \in DOMAIN chain
          /\ chain[s].event.user = chain[t].event.user /\ d.key.user = chain[t].event.user
          /\ LooksFirst(chain[t].event)
      BY <1>2 DEF HeardInv, IInv, ChainInv
    <2>2. s \in 1..(t - 1)
      BY <1>2, <2>1 DEF IInv, ChainInv
    <2> HIDE DEF s
    <2>3. chain[t] \in [n : 1..BATCH, event : Event]
      BY <2>1, ElementType DEF IInv, ChainInv
    <2>4. chain[t].event.amount < chain[t].event.lifetime
      BY <2>1, <2>2 DEF GrowingInv
    <2>5. chain[t].event.amount \in Nat /\ chain[t].event.lifetime \in Nat
      BY <2>3 DEF Event
    <2> HIDE DEF t
    <2> QED BY <2>1, <2>4, <2>5 DEF Dwarfing, LooksFirst, t
  <1> QED BY <1>1, <1>2

\* Within a run the channel shows a second claim of a key only from a handler that was
\* late, and a second transaction of an account only if it dwarfs the earlier, for any
\* number of claims in a transaction and any order of the handlers' steps.
THEOREM FeedFirstClaimsOnly == Spec => []FirstClaimsOnly
  <1>1. Init => IInv /\ FirstInv
    <2> SUFFICES ASSUME Init PROVE IInv /\ FirstInv
      OBVIOUS
    <2>1. DOMAIN handler = {} /\ heard = {} /\ DOMAIN chain = {}
      BY DEF Init
    <2> QED BY <2>1, InitInv DEF FirstInv, WorkInv, GrowingInv, HeardInv, OneInv, Active
  <1>2. IInv /\ FirstInv /\ [Next]_vars => (IInv /\ FirstInv)'
    BY StepInv, StutterInv, FirstStep
  <1>3. IInv /\ FirstInv => FirstClaimsOnly
    BY FirstSuffices
  <1> QED BY <1>1, <1>2, <1>3, PTL DEF Spec

------------------------------------------------------------------------------
(* The claim bot's notices *)

\* None stands for what is no token.
NoneIsNoToken == None \notin Token

Tracked == [id : Nat, chat : Chat, value : Token \cup Handle]
Notifiers == [at : {"unused", "creator", "info", "notifying", "done", "cut"},
              mint : Token \cup {None}, handles : SUBSET Handle,
              items : SUBSET Tracked, notified : SUBSET Chat]
Expectations == [creator : Handle \cup {None}, missed : BOOLEAN,
                 always : SUBSET Tracked, ever : SUBSET Tracked]

\* The chats told had one message, and an item of theirs was of interest.
Told(w, s) == \A c \in Chat : s[c] > 0 => s[c] = 1 /\ \E i \in w.ever : i.chat = c

\* The chats of the items in todo, and of those a missed lookup hid, are all the
\* chats that still expect a message.
Hearing(todo, w, s) ==
    \A i \in w.always : i \in todo \/ s[i.chat] > 0 \/ (w.missed /\ i.value \in Handle)

\* Before the first lookup answers: the items of the token are found, and the handle
\* of the creator is known if any item tracks it.
Asking(h, w, s) ==
    /\ \A c \in Chat : s[c] = 0
    /\ \A i \in w.always : /\ i.value = h.mint => i \in h.items
                           /\ i.value = w.creator /\ w.creator \in Handle => w.creator \in h.handles

\* A handler h under way, with the history w, the messages s and the items of now.
Busy(h, w, s, now) ==
    /\ w.always \subseteq now /\ now \subseteq w.ever /\ h.items \subseteq w.ever
    /\ h.notified = {c \in Chat : s[c] > 0}
    /\ Told(w, s)
    /\ IF h.at = "creator" THEN Asking(h, w, s) ELSE Hearing(h.items, w, s)

HandlerSound(h, w, s, now) ==
    CASE h.at = "unused" -> \A c \in Chat : s[c] = 0
      [] h.at = "cut"    -> Told(w, s)
      [] h.at = "done"   -> Told(w, s) /\ Hearing({}, w, s)
      [] OTHER           -> Busy(h, w, s, now)

ItemTypes == /\ tracked \subseteq Tracked /\ idCounter \in Nat
             /\ file = Torn \/ file \subseteq Tracked
             /\ adding = None \/ adding \in [chat : Chat, value : Token]
             /\ notifier \in [Items!Claim -> Notifiers]
             /\ since \in [Items!Claim -> Expectations]
             /\ notices \in [Items!Claim -> [Chat -> Nat]]
ItemsInv == /\ ItemTypes
            /\ \A n \in Items!Claim :
                   HandlerSound(notifier[n], since[n], notices[n],
                                Items!Interested(tracked, notifier[n].mint, since[n].creator))

\* A change of the items while handlers are under way.
LEMMA ItemsChange ==
  ASSUME ItemsInv, tracked' \subseteq Tracked, Items!Since(tracked'),
         UNCHANGED <<notifier, notices>>,
         idCounter' \in Nat, file' = Torn \/ file' \subseteq Tracked,
         adding' = None \/ adding' \in [chat : Chat, value : Token]
  PROVE  ItemsInv'
  <1>1. /\ since \in [Items!Claim -> Expectations] /\ notifier \in [Items!Claim -> Notifiers]
        /\ tracked \subseteq Tracked
    BY DEF ItemsInv, ItemTypes
  <1>2. since' = [n \in Items!Claim |->
            IF notifier[n].at \in Items!Ended THEN since[n]
            ELSE [since[n] EXCEPT
                   !.always = @ \cap Items!Interested(tracked', notifier[n].mint, since[n].creator),
                   !.ever = @ \cup Items!Interested(tracked', notifier[n].mint, since[n].creator)]]
    BY DEF Items!Since
  <1>3. ASSUME NEW n \in Items!Claim
        PROVE  /\ since'[n] \in Expectations
               /\ HandlerSound(notifier'[n], since'[n], notices'[n],
                      Items!Interested(tracked', notifier'[n].mint, since'[n].creator))
    <2> DEFINE h == notifier[n]
               w == since[n]
               s == notices[n]
               old == Items!Interested(tracked, h.mint, w.creator)
               now == Items!Interested(tracked', h.mint, w.creator)
    <2>1. /\ h \in Notifiers /\ w \in Expectations /\ HandlerSound(h, w, s, old)
          /\ notifier' = notifier /\ notices' = notices
      BY <1>1 DEF ItemsInv
    <2>2. now \subseteq Tracked
      BY DEF Items!Interested
    <2>3. CASE h.at \in Items!Ended
      <3>1. since'[n] = w
        BY <1>2, <2>3
      <3> QED BY <2>1, <2>3, <3>1 DEF HandlerSound, Items!Ended
    <2>4. CASE h.at \notin Items!Ended
      <3>1. since'[n] = [creator |-> w.creator, missed |-> w.missed,
                         always |-> w.always \cap now, ever |-> w.ever \cup now]
        BY <1>2, <2>1, <2>4 DEF Expectations
      <3>2. since'[n] \in Expectations
        BY <2>1, <2>2, <3>1 DEF Expectations
      <3>3. Busy(h, w, s, old)
        BY <2>1, <2>4 DEF HandlerSound, Items!Ended
      <3> HIDE DEF now, old, w, h, s
      <3>4. Told(since'[n], s)
        BY <3>1, <3>3 DEF Busy, Told
      <3>5. IF h.at = "creator" THEN Asking(h, since'[n], s) ELSE Hearing(h.items, since'[n], s)
        BY <3>1, <3>3 DEF Busy, Asking, Hearing
      <3>6. Busy(h, since'[n], s, now)
        BY <3>1, <3>3, <3>4, <3>5 DEF Busy
      <3>7. HandlerSound(h, since'[n], s, now)
        BY <2>4, <3>6 DEF HandlerSound, Items!Ended
      <3>8. now = Items!Interested(tracked', h.mint, since'[n].creator)
        BY <3>1 DEF now
      <3> QED BY <2>1, <3>2, <3>7, <3>8 DEF h, s
    <2> QED BY <2>3, <2>4
  <1>4. since' \in [Items!Claim -> Expectations]
    BY <1>2, <1>3
  <1> QED BY <1>3, <1>4 DEF ItemsInv, ItemTypes

\* A step of one handler, which leaves the others and the items as they are.
LEMMA HandlerMoves ==
  ASSUME ItemsInv, NEW n \in Items!Claim, UNCHANGED <<tracked, idCounter, file, adding>>,
         NEW h \in Notifiers, NEW w \in Expectations, NEW s \in [Chat -> Nat],
         notifier' = [notifier EXCEPT ![n] = h], since' = [since EXCEPT ![n] = w],
         notices' = [notices EXCEPT ![n] = s],
         HandlerSound(h, w, s, Items!Interested(tracked, h.mint, w.creator))
  PROVE  ItemsInv'
  <1>1. /\ notifier' \in [Items!Claim -> Notifiers] /\ since' \in [Items!Claim -> Expectations]
        /\ notices' \in [Items!Claim -> [Chat -> Nat]]
    BY DEF ItemsInv, ItemTypes
  <1>2. ASSUME NEW m \in Items!Claim
        PROVE  HandlerSound(notifier'[m], since'[m], notices'[m],
                   Items!Interested(tracked', notifier'[m].mint, since'[m].creator))
    <2>1. CASE m = n
      <3>1. notifier'[m] = h /\ since'[m] = w /\ notices'[m] = s /\ tracked' = tracked
        BY <2>1 DEF ItemsInv, ItemTypes
      <3> QED BY <3>1
    <2>2. CASE m # n
      <3>1. /\ notifier'[m] = notifier[m] /\ since'[m] = since[m] /\ notices'[m] = notices[m]
            /\ tracked' = tracked
        BY <2>2 DEF ItemsInv, ItemTypes
      <3> QED BY <3>1 DEF ItemsInv
    <2> QED BY <2>1, <2>2
  <1> QED BY <1>1, <1>2 DEF ItemsInv, ItemTypes

\* A claim arrives.
LEMMA ArriveKeeps ==
  ASSUME NoneIsNoToken, ItemsInv, NEW n \in Items!Claim, NEW mint \in Token,
         NEW creator \in Handle \cup {None}, Items!Arrive(n, mint, creator)
  PROVE  ItemsInv'
  <1> DEFINE now == Items!Interested(tracked, mint, creator)
             at == IF Items!Handles # {} THEN "creator"
                   ELSE IF Items!Matching(mint) # {} THEN "info" ELSE "done"
  <1>1. PICK h : h = [Items!Unused EXCEPT !.mint = mint, !.items = Items!Matching(mint),
                                          !.handles = Items!Handles, !.at = at]
    OBVIOUS
  <1>2. PICK w : w = [Items!Unknown EXCEPT !.creator = creator, !.always = now, !.ever = now]
    OBVIOUS
  <1>3. /\ tracked \subseteq Tracked /\ notices \in [Items!Claim -> [Chat -> Nat]]
        /\ \A c \in Chat : notices[n][c] = 0
    BY DEF ItemsInv, ItemTypes, HandlerSound, Items!Arrive
  <1>4. /\ notifier' = [notifier EXCEPT ![n] = h] /\ since' = [since EXCEPT ![n] = w]
        /\ UNCHANGED <<tracked, idCounter, file, adding, notices>>
    BY <1>1, <1>2 DEF Items!Arrive, Items!storeVars
  <1>5. /\ h.mint = mint /\ h.items = Items!Matching(mint) /\ h.handles = Items!Handles
        /\ h.at = at /\ h.notified = {}
    BY <1>1 DEF Items!Unused
  <1>6. w.creator = creator /\ w.missed = FALSE /\ w.always = now /\ w.ever = now
    BY <1>2 DEF Items!Unknown
  <1>7. /\ Items!Matching(mint) \subseteq now /\ now \subseteq Tracked
        /\ Items!Matching(mint) \subseteq Tracked /\ Items!Handles \subseteq Handle
        /\ \A i \in now : i.value = mint => i \in Items!Matching(mint)
        /\ \A i \in now : i.value # mint => i.value = creator /\ creator \in Handle
        /\ \A i \in now : i.value \in Handle => i.value \in Items!Handles
    <2>1. /\ \A i \in tracked : i.value \in Token \cup Handle
          /\ now = {i \in tracked : i.value \in {mint, creator}}
      BY <1>3 DEF Tracked, Items!Interested
    <2>2. /\ Items!Matching(mint) \subseteq now /\ now \subseteq Tracked
          /\ Items!Matching(mint) \subseteq Tracked
          /\ \A i \in now : i.value = mint => i \in Items!Matching(mint)
      BY <1>3, <2>1 DEF Items!Matching
    <2>3. \A i \in now : i.value # mint => i.value = creator /\ creator \in Handle
      BY <2>1 DEF NoneIsNoToken
    <2>4. /\ Items!Handles \subseteq Handle
          /\ \A i \in now : i.value \in Handle => i.value \in Items!Handles
      BY <2>1 DEF Items!Handles
    <2> QED BY <2>2, <2>3, <2>4
  <1>8. h \in Notifiers
    <2>1. h = [at |-> h.at, mint |-> h.mint, handles |-> h.handles, items |-> h.items,
               notified |-> h.notified]
      BY <1>1 DEF Items!Unused
    <2> QED BY <1>5, <1>7, <2>1 DEF Notifiers
  <1>9. w \in Expectations
    <2>1. w = [creator |-> w.creator, missed |-> w.missed, always |-> w.always, ever |-> w.ever]
      BY <1>2 DEF Items!Unknown
    <2> QED BY <1>6, <1>7, <2>1 DEF Expectations
  <1>10. notices' = [notices EXCEPT ![n] = notices[n]]
    BY <1>3, <1>4
  <1> HIDE DEF now
  <1>11. Told(w, notices[n]) /\ h.notified = {c \in Chat : notices[n][c] > 0}
    BY <1>3, <1>5 DEF Told
  <1>12. CASE Items!Handles # {}
    <2>1. Asking(h, w, notices[n])
      BY <1>3, <1>5, <1>6, <1>7 DEF Asking
    <2>2. Busy(h, w, notices[n], now)
      BY <1>5, <1>6, <1>7, <1>11, <1>12, <2>1 DEF Busy
    <2>3. HandlerSound(h, w, notices[n], now)
      BY <1>5, <1>12, <2>2 DEF HandlerSound
    <2> QED BY <1>3, <1>4, <1>5, <1>6, <1>8, <1>9, <1>10, <2>3, HandlerMoves DEF now
  <1>13. CASE Items!Handles = {} /\ Items!Matching(mint) # {}
    <2>1. Hearing(h.items, w, notices[n])
      BY <1>5, <1>6, <1>7, <1>13 DEF Hearing
    <2>2. Busy(h, w, notices[n], now)
      BY <1>5, <1>6, <1>7, <1>11, <1>13, <2>1 DEF Busy
    <2>3. HandlerSound(h, w, notices[n], now)
      BY <1>5, <1>13, <2>2 DEF HandlerSound
    <2> QED BY <1>3, <1>4, <1>5, <1>6, <1>8, <1>9, <1>10, <2>3, HandlerMoves DEF now
  <1>14. CASE Items!Handles = {} /\ Items!Matching(mint) = {}
    <2>1. Hearing({}, w, notices[n])
      BY <1>5, <1>6, <1>7, <1>14 DEF Hearing
    <2>2. HandlerSound(h, w, notices[n], now)
      BY <1>5, <1>11, <1>14, <2>1 DEF HandlerSound
    <2> QED BY <1>3, <1>4, <1>5, <1>6, <1>8, <1>9, <1>10, <2>2, HandlerMoves DEF now
  <1> QED BY <1>12, <1>13, <1>14

\* The first lookup answers.
LEMMA CreatorKeeps ==
  ASSUME NoneIsNoToken, ItemsInv, NEW n \in Items!Claim, NEW found \in BOOLEAN,
         Items!CreatorKnown(n, found)
  PROVE  ItemsInv'
  <1> DEFINE creator == since[n].creator
             more == IF found /\ creator \in notifier[n].handles
                     THEN Items!Matching(creator) ELSE {}
             items == notifier[n].items \cup more
             s == notices[n]
             now == Items!Interested(tracked, notifier[n].mint, creator)
  <1>1. PICK h : h = [notifier[n] EXCEPT !.items = items,
                                         !.at = IF items # {} THEN "info" ELSE "done"]
    OBVIOUS
  <1>2. PICK w : w = [since[n] EXCEPT !.missed = ~found]
    OBVIOUS
  <1>3. /\ notifier[n] \in Notifiers /\ since[n] \in Expectations /\ s \in [Chat -> Nat]
        /\ tracked \subseteq Tracked /\ notifier[n].at = "creator"
        /\ notices \in [Items!Claim -> [Chat -> Nat]]
        /\ Busy(notifier[n], since[n], s, now) /\ Asking(notifier[n], since[n], s)
    BY DEF ItemsInv, ItemTypes, Items!CreatorKnown, HandlerSound, Busy
  <1>4. /\ notifier' = [notifier EXCEPT ![n] = h] /\ since' = [since EXCEPT ![n] = w]
        /\ UNCHANGED <<tracked, idCounter, file, adding, notices>>
    <2>1. notifier' = [notifier EXCEPT ![n].items = items,
                                      ![n].at = IF items # {} THEN "info" ELSE "done"]
      BY DEF Items!CreatorKnown
    <2>2. notifier \in [Items!Claim -> Notifiers]
      BY DEF ItemsInv, ItemTypes
    <2>3. notifier' = [notifier EXCEPT ![n] = h]
      BY <1>1, <2>1, <2>2
    <2> QED BY <1>2, <2>3 DEF Items!CreatorKnown, Items!storeVars
  <1>5. /\ h = [at |-> IF items # {} THEN "info" ELSE "done", mint |-> notifier[n].mint,
                handles |-> notifier[n].handles, items |-> items, notified |-> notifier[n].notified]
        /\ w = [creator |-> creator, missed |-> ~found, always |-> since[n].always,
                ever |-> since[n].ever]
    BY <1>1, <1>2, <1>3 DEF Notifiers, Expectations
  <1>6. /\ more \subseteq now /\ more \subseteq Tracked
        /\ found /\ creator \in notifier[n].handles =>
               \A i \in tracked : i.value = creator => i \in items
    BY <1>3 DEF Items!Matching, Items!Interested
  <1>7. /\ h \in Notifiers /\ w \in Expectations
        /\ h.mint = notifier[n].mint /\ h.items = items /\ h.notified = notifier[n].notified
        /\ h.at = IF items # {} THEN "info" ELSE "done"
        /\ w.creator = creator /\ w.missed = ~found /\ w.always = since[n].always
        /\ w.ever = since[n].ever
    BY <1>3, <1>5, <1>6 DEF Notifiers, Expectations
  <1>8. \A i \in w.always : /\ i \in tracked /\ i.value \in {notifier[n].mint, creator}
                            /\ i.value \in Token \cup Handle
    BY <1>3, <1>7 DEF Busy, Items!Interested, Tracked, Expectations
  <1>9. Hearing(items, w, s)
    <2> SUFFICES ASSUME NEW i \in w.always
                 PROVE  i \in items \/ (w.missed /\ i.value \in Handle)
      BY DEF Hearing
    <2>1. CASE i.value = notifier[n].mint
      BY <1>3, <1>7, <2>1 DEF Asking
    <2>2. CASE i.value # notifier[n].mint /\ creator \in Handle
      <3>1. i.value = creator /\ creator \in notifier[n].handles
        BY <1>3, <1>7, <1>8, <2>2 DEF Asking
      <3> QED BY <1>6, <1>7, <1>8, <2>2, <3>1
    <2>3. CASE i.value # notifier[n].mint /\ creator \notin Handle
      <3>1. i.value = creator /\ creator = None /\ i.value \in Token
        BY <1>3, <1>8, <2>3 DEF Expectations
      <3> QED BY <3>1 DEF NoneIsNoToken
    <2> QED BY <2>1, <2>2, <2>3
  <1>10. /\ Told(w, s) /\ items \subseteq w.ever /\ w.always \subseteq now /\ now \subseteq w.ever
         /\ h.notified = {c \in Chat : s[c] > 0}
    BY <1>3, <1>6, <1>7 DEF Busy, Told
  <1>11. HandlerSound(h, w, s, now)
    <2> HIDE DEF items, now, s, creator
    <2>1. CASE items # {}
      <3>1. Busy(h, w, s, now)
        BY <1>7, <1>9, <1>10, <2>1 DEF Busy
      <3> QED BY <1>7, <2>1, <3>1 DEF HandlerSound
    <2>2. CASE items = {}
      BY <1>7, <1>9, <1>10, <2>2 DEF HandlerSound
    <2> QED BY <2>1, <2>2
  <1>12. notices' = [notices EXCEPT ![n] = s]
    BY <1>3, <1>4
  <1>13. now = Items!Interested(tracked, h.mint, w.creator)
    BY <1>7
  <1> HIDE DEF now, s
  <1> QED BY <1>3, <1>4, <1>7, <1>11, <1>12, <1>13, HandlerMoves

\* Another item's chat is notified.
LEMMA NotifyKeeps ==
  ASSUME ItemsInv, NEW n \in Items!Claim, Items!Notify(n)
  PROVE  ItemsInv'
  <1>1. /\ notifier[n] \in Notifiers /\ since[n] \in Expectations /\ notices[n] \in [Chat -> Nat]
        /\ tracked \subseteq Tracked /\ notifier[n].at = "notifying"
        /\ notifier \in [Items!Claim -> Notifiers] /\ since \in [Items!Claim -> Expectations]
        /\ notices \in [Items!Claim -> [Chat -> Nat]]
        /\ Hearing(notifier[n].items, since[n], notices[n])
        /\ Busy(notifier[n], since[n], notices[n],
                Items!Interested(tracked, notifier[n].mint, since[n].creator))
    BY DEF ItemsInv, ItemTypes, Items!Notify, HandlerSound, Busy
  <1>2. PICK i \in notifier[n].items :
          /\ notifier' = [notifier EXCEPT ![n].items = @ \ {i}, ![n].notified = @ \cup {i.chat},
                                         ![n].at = IF notifier[n].items = {i} THEN "done" ELSE @]
          /\ notices' = IF i.chat \in notifier[n].notified THEN notices
                        ELSE [notices EXCEPT ![n][i.chat] = @ + 1]
    BY DEF Items!Notify
  <1> DEFINE w == since[n]
             h == [at |-> IF notifier[n].items = {i} THEN "done" ELSE "notifying",
                   mint |-> notifier[n].mint, handles |-> notifier[n].handles,
                   items |-> notifier[n].items \ {i},
                   notified |-> notifier[n].notified \cup {i.chat}]
             now == Items!Interested(tracked, notifier[n].mint, since[n].creator)
  <1>3. i \in Tracked /\ i.chat \in Chat
    BY <1>1 DEF Notifiers, Tracked
  <1>4. notifier' = [notifier EXCEPT ![n] = h]
    <2>1. PICK x : x = [notifier[n] EXCEPT !.items = @ \ {i}, !.notified = @ \cup {i.chat},
                                           !.at = IF notifier[n].items = {i} THEN "done" ELSE @]
      OBVIOUS
    <2>2. notifier' = [notifier EXCEPT ![n] = x]
      BY <1>1, <1>2, <2>1
    <2>3. /\ x.items = h.items /\ x.notified = h.notified /\ x.at = h.at
          /\ x.mint = h.mint /\ x.handles = h.handles
      BY <1>1, <2>1 DEF Notifiers
    <2>4. x = [at |-> x.at, mint |-> x.mint, handles |-> x.handles, items |-> x.items,
               notified |-> x.notified]
      BY <1>1, <2>1 DEF Notifiers
    <2>5. x = h
      BY <2>3, <2>4, Zenon
    <2> QED BY <2>2, <2>5
  <1>5. h \in Notifiers
    BY <1>1, <1>3 DEF Notifiers
  <1>6. PICK s : notices' = [notices EXCEPT ![n] = s] /\ s \in [Chat -> Nat]
                 /\ s[i.chat] = 1 /\ \A c \in Chat \ {i.chat} : s[c] = notices[n][c]
    <2>1. CASE i.chat \in notifier[n].notified
      <3>1. notices' = [notices EXCEPT ![n] = notices[n]] /\ notices[n][i.chat] = 1
        BY <1>1, <1>2, <1>3, <2>1 DEF Busy, Told
      <3> QED BY <1>1, <3>1
    <2>2. CASE i.chat \notin notifier[n].notified
      <3>1. PICK s : s = [notices[n] EXCEPT ![i.chat] = @ + 1]
        OBVIOUS
      <3>2. notices' = [notices EXCEPT ![n] = s]
        BY <1>1, <1>2, <2>2, <3>1
      <3>3. notices[n][i.chat] = 0
        BY <1>1, <1>3, <2>2 DEF Busy
      <3>4. s \in [Chat -> Nat] /\ s[i.chat] = 1
        BY <1>1, <1>3, <3>1, <3>3
      <3>5. \A c \in Chat \ {i.chat} : s[c] = notices[n][c]
        BY <1>1, <3>1
      <3> QED BY <3>2, <3>4, <3>5
    <2> QED BY <2>1, <2>2
  <1>7. /\ h.mint = notifier[n].mint /\ h.items = notifier[n].items \ {i}
        /\ h.notified = notifier[n].notified \cup {i.chat}
        /\ h.at = IF notifier[n].items = {i} THEN "done" ELSE "notifying"
    OBVIOUS
  <1> HIDE DEF h, w, now
  <1>8. Told(w, s)
    <2>1. \E j \in w.ever : j.chat = i.chat
      BY <1>1 DEF Busy, w
    <2>2. \A c \in Chat \ {i.chat} : s[c] > 0 => s[c] = 1 /\ \E j \in w.ever : j.chat = c
      BY <1>1, <1>6 DEF Busy, Told, w
    <2> QED BY <1>6, <2>1, <2>2 DEF Told
  <1>9. Hearing(h.items, w, s)
    <2> SUFFICES ASSUME NEW j \in w.always
                 PROVE  j \in h.items \/ s[j.chat] > 0 \/ (w.missed /\ j.value \in Handle)
      BY DEF Hearing
    <2>1. j.chat \in Chat
      BY <1>1 DEF w, Expectations, Tracked
    <2>2. CASE j.chat = i.chat
      BY <1>6, <2>2
    <2>3. CASE j.chat # i.chat
      <3>1. j \in notifier[n].items \/ notices[n][j.chat] > 0 \/ (w.missed /\ j.value \in Handle)
        BY <1>1 DEF Hearing, w
      <3> QED BY <1>6, <1>7, <2>1, <2>3, <3>1
    <2> QED BY <2>2, <2>3
  <1>10. h.notified = {c \in Chat : s[c] > 0}
    BY <1>1, <1>3, <1>6, <1>7 DEF Busy
  <1>11. h.items \subseteq w.ever /\ w.always \subseteq now /\ now \subseteq w.ever
    BY <1>1, <1>7 DEF Busy, w, now
  <1>12. HandlerSound(h, w, s, now)
    <2>1. CASE notifier[n].items = {i}
      <3>1. h.items = {}
        BY <1>7, <2>1
      <3> QED BY <1>7, <1>8, <1>9, <2>1, <3>1 DEF HandlerSound
    <2>2. CASE notifier[n].items # {i}
      <3>1. Busy(h, w, s, now)
        BY <1>7, <1>8, <1>9, <1>10, <1>11, <2>2 DEF Busy
      <3> QED BY <1>7, <2>2, <3>1 DEF HandlerSound
    <2> QED BY <2>1, <2>2
  <1>13. now = Items!Interested(tracked, h.mint, w.creator)
    BY <1>7 DEF now, w
  <1>14. /\ UNCHANGED <<tracked, idCounter, file, adding>> /\ since' = [since EXCEPT ![n] = w]
         /\ w \in Expectations
    BY <1>1 DEF Items!Notify, Items!storeVars, w
  <1> QED BY <1>4, <1>5, <1>6, <1>12, <1>13, <1>14, HandlerMoves

\* The second lookup answers.
LEMMA InfoKeeps ==
  ASSUME ItemsInv, NEW n \in Items!Claim, Items!InfoFetched(n)
  PROVE  ItemsInv'
  <1>1. /\ notifier \in [Items!Claim -> Notifiers] /\ since \in [Items!Claim -> Expectations]
        /\ notices \in [Items!Claim -> [Chat -> Nat]] /\ notifier[n].at = "info"
    BY DEF ItemsInv, ItemTypes, Items!InfoFetched
  <1> DEFINE now == Items!Interested(tracked, notifier[n].mint, since[n].creator)
  <1>2. PICK h : h = [notifier[n] EXCEPT !.at = "notifying"]
    OBVIOUS
  <1>3. /\ h \in Notifiers /\ h.mint = notifier[n].mint /\ h.items = notifier[n].items
        /\ h.notified = notifier[n].notified /\ h.at = "notifying"
    BY <1>1, <1>2 DEF Notifiers
  <1>4. Busy(notifier[n], since[n], notices[n], now)
    BY <1>1 DEF ItemsInv, HandlerSound
  <1>5. HandlerSound(h, since[n], notices[n], now)
    BY <1>1, <1>3, <1>4 DEF HandlerSound, Busy
  <1>6. /\ notifier' = [notifier EXCEPT ![n] = h] /\ since' = [since EXCEPT ![n] = since[n]]
        /\ notices' = [notices EXCEPT ![n] = notices[n]]
        /\ UNCHANGED <<tracked, idCounter, file, adding>>
    BY <1>1, <1>2 DEF Items!InfoFetched, Items!storeVars
  <1> QED BY <1>1, <1>3, <1>5, <1>6, HandlerMoves

\* The process starts again.
LEMMA ItemsRestart ==
  ASSUME ItemsInv, Items!Restart
  PROVE  ItemsInv'
  <1>1. ItemTypes
    BY DEF ItemsInv
  <1>2. ASSUME NEW n \in Items!Claim
        PROVE  /\ notifier'[n] \in Notifiers
               /\ notifier'[n].at \in Items!Ended
               /\ HandlerSound(notifier'[n], since'[n], notices'[n],
                      Items!Interested(tracked', notifier'[n].mint, since'[n].creator))
    <2>1. HandlerSound(notifier[n], since[n], notices[n],
              Items!Interested(tracked, notifier[n].mint, since[n].creator))
          /\ notifier[n] \in Notifiers
      BY <1>1 DEF ItemsInv, ItemTypes
    <2>2. notices' = notices /\ since' = since
      BY DEF Items!Restart
    <2>3. CASE notifier[n].at \in Items!Ended
      <3>1. notifier'[n] = notifier[n]
        BY <2>3 DEF Items!Restart
      <3> QED BY <2>1, <2>2, <2>3, <3>1 DEF HandlerSound, Items!Ended
    <2>4. CASE notifier[n].at \notin Items!Ended
      <3>1. notifier'[n] = [notifier[n] EXCEPT !.at = "cut"]
        BY <2>4 DEF Items!Restart
      <3>2. notifier'[n] \in Notifiers /\ notifier'[n].at = "cut"
        BY <2>1, <3>1 DEF Notifiers
      <3>3. Told(since[n], notices[n])
        BY <2>1, <2>4 DEF HandlerSound, Busy, Items!Ended
      <3> QED BY <2>2, <3>2, <3>3 DEF HandlerSound, Items!Ended
    <2> QED BY <2>3, <2>4
  <1>3. notifier' \in [Items!Claim -> Notifiers]
    <2>1. notifier' = [n \in Items!Claim |-> notifier'[n]]
      BY DEF Items!Restart
    <2> QED BY <1>2, <2>1
  <1> QED BY <1>1, <1>2, <1>3 DEF ItemsInv, ItemTypes, Items!Restart

\* A step of the claim bot keeps the invariant.
LEMMA ItemsKept ==
  ASSUME NoneIsNoToken, ItemsInv, [Items!Next]_(Items!vars)
  PROVE  ItemsInv'
  <1>1. ItemTypes
    BY DEF ItemsInv
  <1>2. ASSUME NEW chat \in Chat, NEW value \in Token \cup Handle, UNCHANGED <<notifier, notices>>,
               Items!AddTrackedItem(chat, value), adding' = None \/ UNCHANGED adding
        PROVE  ItemsInv'
    <2>1. idCounter' \in Nat
      BY <1>1, <1>2 DEF ItemTypes, Items!AddTrackedItem
    <2>2. tracked' \subseteq Tracked
      BY <1>1, <1>2, <2>1 DEF ItemTypes, Items!AddTrackedItem, Tracked
    <2>3. file' = Torn \/ file' \subseteq Tracked
      BY <1>1, <1>2, <2>2 DEF ItemTypes, Items!AddTrackedItem, Items!Saved
    <2> QED BY <1>1, <1>2, <2>1, <2>2, <2>3, ItemsChange DEF ItemTypes, Items!AddTrackedItem
  <1>3. ASSUME NEW c \in Chat, NEW h \in Handle, Items!AddHandle(c, h)
        PROVE  ItemsInv'
    BY <1>2, <1>3 DEF Items!AddHandle
  <1>4. ASSUME NEW c \in Chat, NEW t \in Token, Items!AskToken(c, t)
        PROVE  ItemsInv'
    BY <1>1, <1>4 DEF ItemsInv, ItemTypes, Items!AskToken
  <1>5. CASE Items!AddToken
    <2>1. adding.chat \in Chat /\ adding.value \in Token
      BY <1>1, <1>5 DEF ItemTypes, Items!AddToken
    <2> QED BY <1>2, <1>5, <2>1 DEF Items!AddToken
  <1>6. ASSUME NEW c \in Chat, NEW v \in Items!Value, Items!Remove(c, v)
        PROVE  ItemsInv'
    <2>1. tracked' \subseteq Tracked
      BY <1>1, <1>6 DEF ItemTypes, Items!Remove
    <2>2. file' = Torn \/ file' \subseteq Tracked
      BY <1>1, <1>6, <2>1 DEF ItemTypes, Items!Remove, Items!Saved
    <2> QED BY <1>1, <1>6, <2>1, <2>2, ItemsChange DEF ItemTypes, Items!Remove
  <1>7. CASE UNCHANGED Items!vars
    BY <1>7 DEF Items!vars, Items!storeVars, ItemsInv, ItemTypes
  <1> QED BY <1>3, <1>4, <1>5, <1>6, <1>7, ArriveKeeps, CreatorKeeps, InfoKeeps, NotifyKeeps,
             ItemsRestart DEF Items!Next

\* No handler runs at the start.
LEMMA ItemsStarts == Items!Init => ItemsInv
  <1> SUFFICES ASSUME Items!Init PROVE ItemsInv
    OBVIOUS
  <1>1. Items!Unused \in Notifiers /\ Items!Unused.at = "unused" /\ Items!Unknown \in Expectations
    BY DEF Items!Unused, Items!Unknown, Notifiers, Expectations
  <1>2. ItemTypes
    BY <1>1 DEF Items!Init, ItemTypes
  <1>3. ASSUME NEW n \in Items!Claim
        PROVE  HandlerSound(notifier[n], since[n], notices[n],
                   Items!Interested(tracked, notifier[n].mint, since[n].creator))
    <2>1. notifier[n].at = "unused" /\ \A c \in Chat : notices[n][c] = 0
      BY <1>1 DEF Items!Init
    <2> QED BY <2>1 DEF HandlerSound
  <1> QED BY <1>2, <1>3 DEF ItemsInv

\* What the handlers keep is what the chats of the items may expect.
LEMMA ItemsSuffice == ItemsInv => Items!TrackersHear
  <1> SUFFICES ASSUME ItemsInv, NEW n \in Items!Claim
               PROVE  /\ notifier[n].at = "done" =>
                            \A i \in since[n].always : \/ notices[n][i.chat] > 0
                                                       \/ (since[n].missed /\ i.value \in Handle)
                      /\ Told(since[n], notices[n])
    BY DEF Items!TrackersHear, Told
  <1>1. HandlerSound(notifier[n], since[n], notices[n],
                     Items!Interested(tracked, notifier[n].mint, since[n].creator))
        /\ notifier[n] \in Notifiers /\ notices[n] \in [Chat -> Nat]
    BY DEF ItemsInv, ItemTypes
  <1>2. (\A c \in Chat : notices[n][c] = 0) => Told(since[n], notices[n])
    BY DEF Told
  <1> QED BY <1>1, <1>2 DEF HandlerSound, Busy, Hearing

\* TrackersHear (claim/src/bot.ts, store.ts): a claim handler that ran to its end
\* notified every chat one of whose items matched the claim all the while, once, and no
\* chat without one, whatever the commands, lookups, saves and restarts in between did.
THEOREM ItemsTrackersHear ==
  ASSUME NoneIsNoToken
  PROVE  Items!Spec => []Items!TrackersHear
  <1>1. Items!Init => ItemsInv
    BY ItemsStarts
  <1>2. ItemsInv /\ [Items!Next]_(Items!vars) => ItemsInv'
    BY ItemsKept
  <1>3. ItemsInv => Items!TrackersHear
    BY ItemsSuffice
  <1> QED BY <1>1, <1>2, <1>3, PTL DEF Items!Spec

------------------------------------------------------------------------------
(* The monitor bot's alerts *)

\* The instance counts as the library does.
LEMMA SameCardinality == \A S : Watching!Cardinality(S) = Cardinality(S)
  BY DEF Watching!Cardinality, Cardinality

Watches == [id : Nat, chat : Chat, wallet : Wallet]
Alerters == [wallets : SUBSET Wallet, left : SUBSET Watches,
             at : {"unused", "notifying", "done", "cut"}]

\* No chat has two watches of a wallet.
Distinct(ws) == \A v, w \in ws : v.chat = w.chat /\ v.wallet = w.wallet => v = w

\* The messages of a chat and the watches that will bring it more are at most as many
\* as the wallets of the event.
InChat(ws, chat) == {w \in ws : w.chat = chat}
Bounded(a, s) == /\ IsFiniteSet(a.wallets)
                 /\ \A c \in Chat :
                        /\ IsFiniteSet(InChat(a.left, c))
                        /\ s[c] + Cardinality(InChat(a.left, c)) <= Cardinality(a.wallets)

\* A handler a with the watches of interest i and the messages s.
AlertSound(a, i, s) ==
    /\ Bounded(a, s)
    /\ a.at = "unused" => \A c \in Chat : s[c] = 0
    /\ a.at \in {"notifying", "done"} => \A w \in i : w \in a.left \/ s[w.chat] > 0
    /\ a.at = "done" => a.left = {}

WatchTypes == /\ watches \subseteq Watches /\ Distinct(watches) /\ idCounter \in Nat
              /\ file = Torn \/ (file \subseteq Watches /\ Distinct(file))
              /\ alerter \in [Watching!Event -> Alerters]
              /\ interested \in [Watching!Event -> SUBSET Watches]
              /\ alerts \in [Watching!Event -> [Chat -> Nat]]
WatchInv == /\ WatchTypes
            /\ \A n \in Watching!Event : AlertSound(alerter[n], interested[n], alerts[n])

\* Watches of a chat on different wallets are at most as many as the wallets.
LEMMA OnePerWallet ==
  ASSUME NEW ws, Distinct(ws), NEW wallets, IsFiniteSet(wallets), NEW c,
         \A w \in ws : w.wallet \in wallets
  PROVE  /\ IsFiniteSet(InChat(ws, c))
         /\ Cardinality(InChat(ws, c)) <= Cardinality(wallets)
  <1> DEFINE f == [w \in InChat(ws, c) |-> w.wallet]
  <1>1. f \in [InChat(ws, c) -> wallets]
    BY DEF InChat
  <1>2. \A v, w \in InChat(ws, c) : f[v] = f[w] => v = w
    BY DEF InChat, Distinct
  <1>3. f \in Injection(InChat(ws, c), wallets)
    BY <1>1, <1>2 DEF Injection, IsInjective
  <1> HIDE DEF f
  <1> QED BY <1>3, FS_Injection

\* A claim or a creator change happens.
LEMMA HappenKeeps ==
  ASSUME WatchInv, NEW n \in Watching!Event, NEW wallets \in SUBSET Wallet, IsFiniteSet(wallets),
         Watching!HappenWith(n, wallets, Watching!FindMatching(wallets))
  PROVE  WatchInv'
  <1>1. WatchTypes
    BY DEF WatchInv
  <1> DEFINE found == Watching!FindMatching(wallets)
             a == [wallets |-> wallets, left |-> found,
                   at |-> IF found = {} THEN "done" ELSE "notifying"]
  <1>2. /\ found \subseteq Watches /\ Distinct(found) /\ \A w \in found : w.wallet \in wallets
    BY <1>1 DEF WatchTypes, Distinct, Watching!FindMatching
  <1>3. /\ alerter' = [alerter EXCEPT ![n] = a] /\ interested' = [interested EXCEPT ![n] = found]
        /\ UNCHANGED <<watches, idCounter, file, alerts>>
    BY DEF Watching!HappenWith, Watching!storeVars
  <1>4. \A c \in Chat : alerts[n][c] = 0
    BY DEF WatchInv, AlertSound, Watching!HappenWith
  <1>5. a \in Alerters /\ a.wallets = wallets /\ a.left = found
        /\ a.at = IF found = {} THEN "done" ELSE "notifying"
    BY <1>2 DEF Alerters
  <1> HIDE DEF a, found
  <1>6. Bounded(a, alerts[n])
    <2> SUFFICES ASSUME NEW c \in Chat
                 PROVE  /\ IsFiniteSet(InChat(found, c))
                        /\ alerts[n][c] + Cardinality(InChat(found, c)) <= Cardinality(wallets)
      BY <1>5 DEF Bounded
    <2>1. /\ IsFiniteSet(InChat(found, c))
          /\ Cardinality(InChat(found, c)) <= Cardinality(wallets)
      BY <1>2, OnePerWallet
    <2>2. Cardinality(InChat(found, c)) \in Nat
      BY <2>1, FS_CardinalityType
    <2>3. Cardinality(wallets) \in Nat
      BY FS_CardinalityType
    <2> QED BY <1>4, <2>1, <2>2, <2>3
  <1>7. AlertSound(a, found, alerts[n])
    BY <1>5, <1>6 DEF AlertSound
  <1>8. /\ alerter' \in [Watching!Event -> Alerters]
        /\ interested' \in [Watching!Event -> SUBSET Watches]
    BY <1>1, <1>2, <1>3, <1>5 DEF WatchTypes
  <1>9. ASSUME NEW m \in Watching!Event
        PROVE  AlertSound(alerter'[m], interested'[m], alerts'[m])
    <2>1. CASE m = n
      <3>1. alerter'[m] = a /\ interested'[m] = found /\ alerts' = alerts
        BY <1>1, <1>3, <2>1 DEF WatchTypes
      <3> QED BY <1>7, <2>1, <3>1
    <2>2. CASE m # n
      <3>1. alerter'[m] = alerter[m] /\ interested'[m] = interested[m] /\ alerts' = alerts
        BY <1>1, <1>3, <2>2 DEF WatchTypes
      <3> QED BY <3>1 DEF WatchInv
    <2> QED BY <2>1, <2>2
  <1> QED BY <1>1, <1>3, <1>8, <1>9 DEF WatchInv, WatchTypes

\* Another watch's chat is notified.
LEMMA AlertKeeps ==
  ASSUME WatchInv, NEW n \in Watching!Event, Watching!Notify(n)
  PROVE  WatchInv'
  <1>1. WatchTypes /\ AlertSound(alerter[n], interested[n], alerts[n]) /\ alerter[n] \in Alerters
        /\ alerts[n] \in [Chat -> Nat] /\ alerter[n].at = "notifying"
        /\ alerter \in [Watching!Event -> Alerters] /\ alerts \in [Watching!Event -> [Chat -> Nat]]
        /\ interested \in [Watching!Event -> SUBSET Watches]
    BY DEF WatchInv, WatchTypes, Watching!Notify
  <1>2. PICK w \in alerter[n].left :
          /\ alerter' = [alerter EXCEPT ![n].left = @ \ {w},
                                        ![n].at = IF alerter[n].left = {w} THEN "done" ELSE @]
          /\ alerts' = [alerts EXCEPT ![n][w.chat] = @ + 1]
          /\ UNCHANGED <<watches, idCounter, file, interested>>
    BY DEF Watching!Notify, Watching!storeVars
  <1> DEFINE a == [wallets |-> alerter[n].wallets, left |-> alerter[n].left \ {w},
                   at |-> IF alerter[n].left = {w} THEN "done" ELSE "notifying"]
  <1>3. w \in Watches /\ w.chat \in Chat
    BY <1>1 DEF Alerters, Watches
  <1>4. alerter' = [alerter EXCEPT ![n] = a]
    <2>1. PICK x : x = [alerter[n] EXCEPT !.left = @ \ {w},
                                          !.at = IF alerter[n].left = {w} THEN "done" ELSE @]
      OBVIOUS
    <2>2. alerter' = [alerter EXCEPT ![n] = x]
      BY <1>1, <1>2, <2>1
    <2>3. x.wallets = a.wallets /\ x.left = a.left /\ x.at = a.at
      BY <1>1, <2>1 DEF Alerters
    <2>4. x = [wallets |-> x.wallets, left |-> x.left, at |-> x.at]
      BY <1>1, <2>1 DEF Alerters
    <2>5. x = a
      BY <2>3, <2>4, Zenon
    <2> QED BY <2>2, <2>5
  <1>5. PICK s : s = [alerts[n] EXCEPT ![w.chat] = @ + 1]
    OBVIOUS
  <1>6. /\ alerts' = [alerts EXCEPT ![n] = s] /\ s \in [Chat -> Nat]
        /\ s[w.chat] = alerts[n][w.chat] + 1
        /\ \A c \in Chat \ {w.chat} : s[c] = alerts[n][c]
    BY <1>1, <1>2, <1>3, <1>5
  <1>7. a \in Alerters /\ a.wallets = alerter[n].wallets /\ a.left = alerter[n].left \ {w}
        /\ a.at = IF alerter[n].left = {w} THEN "done" ELSE "notifying"
    BY <1>1 DEF Alerters
  <1> HIDE DEF a
  <1>8. Bounded(a, s)
    <2> SUFFICES ASSUME NEW c \in Chat
                 PROVE  /\ IsFiniteSet(InChat(a.left, c))
                        /\ s[c] + Cardinality(InChat(a.left, c)) <= Cardinality(a.wallets)
      BY <1>1, <1>7 DEF Bounded, AlertSound
    <2>1. /\ IsFiniteSet(InChat(alerter[n].left, c)) /\ IsFiniteSet(a.wallets)
          /\ alerts[n][c] + Cardinality(InChat(alerter[n].left, c)) <= Cardinality(a.wallets)
      BY <1>1, <1>7 DEF AlertSound, Bounded
    <2>2. Cardinality(InChat(alerter[n].left, c)) \in Nat
      BY <2>1, FS_CardinalityType
    <2>3. Cardinality(a.wallets) \in Nat
      BY <2>1, FS_CardinalityType
    <2>4. CASE c = w.chat
      <3>1. InChat(a.left, c) = InChat(alerter[n].left, c) \ {w} /\ w \in InChat(alerter[n].left, c)
        BY <1>7, <2>4 DEF InChat
      <3>2. /\ IsFiniteSet(InChat(alerter[n].left, c) \ {w})
            /\ Cardinality(InChat(alerter[n].left, c) \ {w}) =
                   Cardinality(InChat(alerter[n].left, c)) - 1
        BY <2>1, <3>1, FS_RemoveElement
      <3>3. IsFiniteSet(InChat(a.left, c))
            /\ Cardinality(InChat(a.left, c)) = Cardinality(InChat(alerter[n].left, c)) - 1
        BY <3>1, <3>2
      <3>4. s[c] = alerts[n][c] + 1 /\ alerts[n][c] \in Nat
        BY <1>1, <1>6, <2>4
      <3> QED BY <2>1, <2>2, <2>3, <3>3, <3>4
    <2>5. CASE c # w.chat
      <3>1. InChat(a.left, c) = InChat(alerter[n].left, c)
        BY <1>7, <2>5 DEF InChat
      <3> QED BY <1>6, <2>1, <2>5, <3>1
    <2> QED BY <2>4, <2>5
  <1>9. \A v \in interested[n] : v \in a.left \/ s[v.chat] > 0
    <2> SUFFICES ASSUME NEW v \in interested[n]
                 PROVE  v \in a.left \/ s[v.chat] > 0
      OBVIOUS
    <2>1. v.chat \in Chat
      BY <1>1 DEF Watches
    <2>2. v \in alerter[n].left \/ alerts[n][v.chat] > 0
      BY <1>1 DEF AlertSound
    <2>3. alerts[n][v.chat] \in Nat
      BY <1>1, <2>1
    <2> QED BY <1>6, <1>7, <2>1, <2>2, <2>3
  <1>10. AlertSound(a, interested[n], s)
    BY <1>7, <1>8, <1>9 DEF AlertSound
  <1>11. ASSUME NEW m \in Watching!Event
         PROVE  AlertSound(alerter'[m], interested'[m], alerts'[m])
    <2>1. CASE m = n
      <3>1. alerter'[m] = a /\ interested' = interested /\ alerts'[m] = s
        BY <1>1, <1>2, <1>4, <1>6, <2>1
      <3> QED BY <1>10, <2>1, <3>1
    <2>2. CASE m # n
      <3>1. alerter'[m] = alerter[m] /\ interested' = interested /\ alerts'[m] = alerts[m]
        BY <1>1, <1>2, <1>4, <1>6, <2>2
      <3> QED BY <3>1 DEF WatchInv
    <2> QED BY <2>1, <2>2
  <1>12. alerter' \in [Watching!Event -> Alerters] /\ alerts' \in [Watching!Event -> [Chat -> Nat]]
    BY <1>1, <1>4, <1>6, <1>7
  <1> QED BY <1>1, <1>2, <1>11, <1>12 DEF WatchInv, WatchTypes

\* A command of a chat.
LEMMA WatchesChange ==
  ASSUME WatchInv, watches' \subseteq Watches, Distinct(watches'), idCounter' \in Nat,
         Watching!Saved, UNCHANGED <<alerter, alerts>>,
         interested' \in [Watching!Event -> SUBSET Watches],
         \A n \in Watching!Event : interested'[n] \subseteq interested[n]
  PROVE  WatchInv'
  <1>1. file' = Torn \/ (file' \subseteq Watches /\ Distinct(file'))
    BY DEF WatchInv, WatchTypes, Watching!Saved
  <1>2. ASSUME NEW n \in Watching!Event
        PROVE  AlertSound(alerter[n], interested'[n], alerts[n])
    BY DEF WatchInv, AlertSound
  <1> QED BY <1>1, <1>2 DEF WatchInv, WatchTypes

\* A step of the monitor bot keeps the invariant.
LEMMA WatchKept ==
  ASSUME WatchInv, [Watching!Next]_(Watching!vars)
  PROVE  WatchInv'
  <1>1. WatchTypes
    BY DEF WatchInv
  <1>2. ASSUME NEW c \in Chat, NEW wallet \in Wallet, Watching!Watch(c, wallet)
        PROVE  WatchInv'
    <2> DEFINE new == [id |-> idCounter', chat |-> c, wallet |-> wallet]
    <2>1. idCounter' \in Nat /\ watches' = watches \cup {new} /\ Watching!Saved
          /\ UNCHANGED <<alerter, alerts, interested>>
      BY <1>1, <1>2 DEF WatchTypes, Watching!Watch
    <2>2. new \in Watches /\ new.chat = c /\ new.wallet = wallet
      BY <2>1 DEF Watches
    <2>3. \A w \in watches : ~(w.chat = c /\ w.wallet = wallet)
      BY <1>2 DEF Watching!Watch, Watching!Of
    <2> HIDE DEF new
    <2>4. watches' \subseteq Watches /\ Distinct(watches')
      BY <1>1, <2>1, <2>2, <2>3 DEF WatchTypes, Distinct
    <2> QED BY <1>1, <2>1, <2>4, WatchesChange DEF WatchTypes
  <1>3. ASSUME NEW gone, Watching!Remove(gone)
        PROVE  WatchInv'
    <2>1. watches' \subseteq Watches /\ Distinct(watches')
      BY <1>1, <1>3 DEF WatchTypes, Distinct, Watching!Remove
    <2>2. /\ interested' \in [Watching!Event -> SUBSET Watches]
          /\ \A n \in Watching!Event : interested'[n] \subseteq interested[n]
      BY <1>1, <1>3 DEF WatchTypes, Watching!Remove
    <2> QED BY <1>1, <1>3, <2>1, <2>2, WatchesChange DEF WatchTypes, Watching!Remove
  <1>4. ASSUME NEW c \in Chat, NEW w \in Wallet, Watching!UnwatchWallet(c, w)
        PROVE  WatchInv'
    BY <1>3, <1>4 DEF Watching!UnwatchWallet
  <1>5. ASSUME NEW c \in Chat, NEW k \in 1..MaxWatches, Watching!UnwatchNumber(c, k)
        PROVE  WatchInv'
    BY <1>3, <1>5 DEF Watching!UnwatchNumber
  <1>6. ASSUME NEW n \in Watching!Event, NEW w \in Wallet, Watching!Claim(n, w)
        PROVE  WatchInv'
    <2>1. IsFiniteSet({w})
      BY FS_Singleton
    <2> QED BY <1>6, <2>1, HappenKeeps DEF Watching!Claim
  <1>7. ASSUME NEW n \in Watching!Event, NEW v \in Wallet, NEW w \in Wallet,
               Watching!CreatorChange(n, v, w)
        PROVE  WatchInv'
    <2>1. IsFiniteSet({v} \cup {w})
      BY FS_Singleton, FS_AddElement
    <2>2. {v} \cup {w} = {v, w}
      OBVIOUS
    <2>3. IsFiniteSet({v, w})
      BY <2>1, <2>2
    <2> QED BY <1>7, <2>3, HappenKeeps DEF Watching!CreatorChange
  <1>8. CASE Watching!Restart
    <2>1. /\ watches' \subseteq Watches /\ Distinct(watches')
          /\ UNCHANGED <<idCounter, file, alerts, interested>>
      BY <1>1, <1>8 DEF WatchTypes, Distinct, Watching!Restart
    <2>2. ASSUME NEW n \in Watching!Event
          PROVE  alerter'[n] \in Alerters /\ AlertSound(alerter'[n], interested[n], alerts[n])
      <3>1. alerter[n] \in Alerters /\ AlertSound(alerter[n], interested[n], alerts[n])
        BY <1>1 DEF WatchInv, WatchTypes
      <3>2. CASE alerter[n].at # "notifying"
        <4>1. alerter'[n] = alerter[n]
          BY <1>8, <3>2 DEF Watching!Restart
        <4> QED BY <3>1, <4>1
      <3>3. CASE alerter[n].at = "notifying"
        <4>1. alerter'[n] = [alerter[n] EXCEPT !.at = "cut"]
          BY <1>8, <3>3 DEF Watching!Restart
        <4>2. /\ alerter'[n] \in Alerters /\ alerter'[n].at = "cut"
              /\ alerter'[n].left = alerter[n].left /\ alerter'[n].wallets = alerter[n].wallets
          BY <3>1, <4>1 DEF Alerters
        <4> QED BY <3>1, <4>2 DEF AlertSound, Bounded
      <3> QED BY <3>2, <3>3
    <2>3. alerter' \in [Watching!Event -> Alerters]
      <3>1. alerter' = [n \in Watching!Event |-> alerter'[n]]
        BY <1>8 DEF Watching!Restart
      <3> QED BY <2>2, <3>1
    <2> QED BY <1>1, <2>1, <2>2, <2>3 DEF WatchInv, WatchTypes
  <1>9. CASE UNCHANGED Watching!vars
    BY <1>9 DEF Watching!vars, Watching!storeVars, WatchInv, WatchTypes
  <1> QED BY <1>2, <1>4, <1>5, <1>6, <1>7, <1>8, <1>9, AlertKeeps DEF Watching!Next

\* Nothing was watched or alerted at the start.
LEMMA WatchStarts == Watching!Init => WatchInv
  <1> SUFFICES ASSUME Watching!Init PROVE WatchInv
    OBVIOUS
  <1>1. /\ Watching!Unused \in Alerters /\ Watching!Unused.at = "unused"
        /\ Watching!Unused.wallets = {} /\ Watching!Unused.left = {}
    BY DEF Watching!Unused, Alerters
  <1>2. WatchTypes
    BY <1>1 DEF Watching!Init, WatchTypes, Distinct
  <1>3. ASSUME NEW n \in Watching!Event
        PROVE  AlertSound(alerter[n], interested[n], alerts[n])
    <2>1. /\ alerter[n].at = "unused" /\ alerter[n].wallets = {} /\ alerter[n].left = {}
          /\ \A c \in Chat : alerts[n][c] = 0
      BY <1>1 DEF Watching!Init
    <2>2. \A c \in Chat : InChat(alerter[n].left, c) = {}
      BY <2>1 DEF InChat
    <2>3. IsFiniteSet({}) /\ Cardinality({}) = 0
      BY FS_EmptySet
    <2> QED BY <2>1, <2>2, <2>3 DEF AlertSound, Bounded
  <1> QED BY <1>2, <1>3 DEF WatchInv

\* What the handlers keep is what the watchers may expect.
LEMMA WatchSuffices == WatchInv => Watching!WatchersHear
  <1> SUFFICES ASSUME WatchInv, NEW n \in Watching!Event
               PROVE  /\ \A c \in Chat : alerts[n][c] <= Cardinality(alerter[n].wallets)
                      /\ alerter[n].at = "done" => \A w \in interested[n] : alerts[n][w.chat] > 0
    BY SameCardinality DEF Watching!WatchersHear
  <1>1. AlertSound(alerter[n], interested[n], alerts[n]) /\ alerts[n] \in [Chat -> Nat]
    BY DEF WatchInv, WatchTypes
  <1>2. ASSUME NEW c \in Chat
        PROVE  alerts[n][c] <= Cardinality(alerter[n].wallets)
    <2>1. IsFiniteSet(InChat(alerter[n].left, c)) /\ IsFiniteSet(alerter[n].wallets)
      BY <1>1 DEF AlertSound, Bounded
    <2>2. Cardinality(InChat(alerter[n].left, c)) \in Nat
      BY <2>1, FS_CardinalityType
    <2>3. Cardinality(alerter[n].wallets) \in Nat
      BY <2>1, FS_CardinalityType
    <2> QED BY <1>1, <2>2, <2>3 DEF AlertSound, Bounded
  <1> QED BY <1>1, <1>2 DEF AlertSound

\* WatchersHear (monitor/src/bot.ts, store.ts): a chat hears of an event at most once for
\* each of its wallets, and every watch that stood all the while brought its chat a message.
THEOREM WatchingWatchersHear == Watching!Spec => []Watching!WatchersHear
  <1>1. Watching!Init => WatchInv
    BY WatchStarts
  <1>2. WatchInv /\ [Watching!Next]_(Watching!vars) => WatchInv'
    BY WatchKept
  <1>3. WatchInv => Watching!WatchersHear
    BY WatchSuffices
  <1> QED BY <1>1, <1>2, <1>3, PTL DEF Watching!Spec

------------------------------------------------------------------------------
(* The broadcasts *)

\* None stands for what is no chat's entry.
Monitors == [active : BOOLEAN, githubOnly : BOOLEAN, alerts : SUBSET Kind]
NoneIsNoMonitor == None \notin Monitors

\* The entry that broadcast b refers to for a chat whose own is in ms.
Held(b, ms, c) == IF c \in DOMAIN b.replaced THEN b.replaced[c] ELSE ms[c]
LetOn(b, ms, c) == Casts!Lets(Held(b, ms, c), b.kind, b.github)

Shaped(b) == b = [at |-> b.at, kind |-> b.kind, github |-> b.github, left |-> b.left,
                  replaced |-> b.replaced]

\* A chat had one message if it was let through at some moment, else none.
AtMostOnce(w, s) == \A c \in Chat : s[c] > 0 => s[c] = 1 /\ c \in w.ever

\* A broadcast b under way, with the history w and the messages s: a chat left had no
\* message and gets one only if it was let through at some moment; a chat that is let
\* through all the while had its message or gets it.
UnderWay(b, w, s, ms) ==
    /\ b.left \subseteq Chat \cap w.active
    /\ \A c \in b.left : s[c] = 0 /\ ms[c] # None /\ (LetOn(b, ms, c) => c \in w.ever)
    /\ w.always \subseteq Chat
    /\ \A c \in w.always : s[c] = 1 \/ (c \in b.left /\ LetOn(b, ms, c))
    /\ AtMostOnce(w, s)

Finished(w, s) == AtMostOnce(w, s) /\ \A c \in w.always : s[c] = 1

BroadcastSound(b, w, s, ms) ==
    /\ Shaped(b)
    /\ \/ b.at = "unused" /\ \A c \in Chat : s[c] = 0
       \/ b.at \in {"formatting", "sending"} /\ UnderWay(b, w, s, ms)
       \/ b.at = "done" /\ Finished(w, s)

CastTypes == /\ monitors \in [Chat -> Monitors \cup {None}]
             /\ sent \in [Casts!Broadcast -> [Chat -> Nat]]
             /\ wanting \in [Casts!Broadcast -> [active : SUBSET Chat, always : SUBSET Chat,
                                                 ever : SUBSET Chat]]
             /\ DOMAIN broadcast = Casts!Broadcast
             /\ broadcast = [n \in Casts!Broadcast |-> broadcast[n]]
CastsInv == /\ CastTypes
            /\ \A n \in Casts!Broadcast :
                   BroadcastSound(broadcast[n], wanting[n], sent[n], monitors)

\* A stretch of a broadcast's loop.
LEMMA LoopKeeps ==
  ASSUME NEW n \in Casts!Broadcast, NEW b, NEW w, CastTypes, Shaped(b),
         UnderWay(b, w, sent[n], monitors), Casts!Loop(n, b)
  PROVE  /\ sent' \in [Casts!Broadcast -> [Chat -> Nat]]
         /\ broadcast' = [k \in Casts!Broadcast |-> broadcast'[k]]
         /\ DOMAIN broadcast' = Casts!Broadcast
         /\ \A k \in Casts!Broadcast \ {n} : broadcast'[k] = broadcast[k] /\ sent'[k] = sent[k]
         /\ BroadcastSound(broadcast'[n], w, sent'[n], monitors)
  <1> DEFINE wanted == {c \in b.left : Casts!Lets(Casts!Entry(b, c), b.kind, b.github)}
  <1>1. \A c \in b.left : c \in wanted <=> LetOn(b, monitors, c)
    BY DEF LetOn, Held, Casts!Entry
  <1>2. /\ wanted \subseteq b.left /\ b.left \subseteq Chat
        /\ \A c \in Chat : sent[n][c] \in Nat
    BY DEF UnderWay, CastTypes
  <1>3. CASE /\ wanted = {} /\ UNCHANGED sent
             /\ broadcast' = [broadcast EXCEPT ![n] = [Casts!Unused EXCEPT !.at = "done"]]
    <2>1. broadcast'[n] = [Casts!Unused EXCEPT !.at = "done"]
      BY <1>3 DEF CastTypes
    <2>2. Shaped(broadcast'[n]) /\ broadcast'[n].at = "done"
      BY <2>1 DEF Shaped, Casts!Unused
    <2>3. Finished(w, sent'[n])
      BY <1>1, <1>3 DEF UnderWay, Finished
    <2>4. BroadcastSound(broadcast'[n], w, sent'[n], monitors)
      BY <2>2, <2>3 DEF BroadcastSound
    <2> QED BY <1>3, <2>4 DEF CastTypes
  <1>4. ASSUME NEW c \in wanted, NEW passed \in SUBSET (b.left \ wanted),
               broadcast' = [broadcast EXCEPT ![n] = Casts!Sending(b, b.left \ (passed \cup {c}))],
               sent' = [sent EXCEPT ![n][c] = @ + 1]
        PROVE  /\ sent' \in [Casts!Broadcast -> [Chat -> Nat]]
               /\ broadcast' = [k \in Casts!Broadcast |-> broadcast'[k]]
               /\ DOMAIN broadcast' = Casts!Broadcast
               /\ \A k \in Casts!Broadcast \ {n} :
                      broadcast'[k] = broadcast[k] /\ sent'[k] = sent[k]
               /\ BroadcastSound(broadcast'[n], w, sent'[n], monitors)
    <2> DEFINE left == b.left \ (passed \cup {c})
               rest == [d \in left \cap DOMAIN b.replaced |-> b.replaced[d]]
    <2>1. broadcast'[n] = [at |-> "sending", kind |-> b.kind, github |-> b.github,
                           left |-> left, replaced |-> rest]
      <3>1. broadcast'[n] = Casts!Sending(b, left)
        BY <1>4 DEF CastTypes
      <3> QED BY <3>1 DEF Casts!Sending, Shaped
    <2>2. Shaped(broadcast'[n]) /\ broadcast'[n].at = "sending"
      BY <2>1 DEF Shaped
    <2>3. /\ sent' \in [Casts!Broadcast -> [Chat -> Nat]]
          /\ \A k \in Casts!Broadcast \ {n} : sent'[k] = sent[k]
          /\ sent'[n][c] = sent[n][c] + 1
          /\ \A d \in Chat \ {c} : sent'[n][d] = sent[n][d]
      BY <1>2, <1>4 DEF CastTypes
    <2>4. \A d \in left : LetOn(broadcast'[n], monitors, d) <=> LetOn(b, monitors, d)
      <3>1. ASSUME NEW d \in left
            PROVE  Held(broadcast'[n], monitors, d) = Held(b, monitors, d)
        BY <2>1 DEF Held
      <3> QED BY <2>1, <3>1 DEF LetOn
    <2>5. c \in b.left /\ c \in Chat /\ sent[n][c] = 0 /\ c \in w.ever /\ c \notin left
      BY <1>1, <1>2, <1>4 DEF UnderWay
    <2>6. broadcast'[n].left = left /\ left \subseteq b.left
      BY <2>1
    <2> HIDE DEF left, rest, wanted
    <2>7. \A d \in left : /\ sent'[n][d] = 0 /\ monitors[d] # None
                          /\ LetOn(broadcast'[n], monitors, d) => d \in w.ever
      BY <1>2, <2>3, <2>4, <2>5, <2>6 DEF UnderWay
    <2>8. ASSUME NEW d \in w.always
          PROVE  sent'[n][d] = 1 \/ (d \in left /\ LetOn(broadcast'[n], monitors, d))
      <3>1. CASE d = c
        BY <2>3, <2>5, <3>1
      <3>2. CASE d # c /\ sent[n][d] = 1
        <4>1. d \in Chat
          BY DEF UnderWay
        <4> QED BY <2>3, <3>2, <4>1
      <3>3. CASE d # c /\ d \in b.left /\ LetOn(b, monitors, d)
        BY <1>1, <1>2, <2>4, <3>3 DEF left
      <3> QED BY <3>1, <3>2, <3>3 DEF UnderWay
    <2>9. AtMostOnce(w, sent'[n])
      BY <2>3, <2>5 DEF AtMostOnce, UnderWay
    <2>10. UnderWay(broadcast'[n], w, sent'[n], monitors)
      BY <1>2, <2>6, <2>7, <2>8, <2>9 DEF UnderWay
    <2>11. BroadcastSound(broadcast'[n], w, sent'[n], monitors)
      BY <2>2, <2>10 DEF BroadcastSound
    <2> QED BY <1>4, <2>3, <2>11 DEF CastTypes
  <1> QED BY <1>3, <1>4 DEF Casts!Loop

\* What a command of a chat does to the broadcasts under way: the entry one holds of
\* a chat is as it was, or the new one of that chat.
LEMMA SinceKeeps ==
  ASSUME CastsInv, monitors' \in [Chat -> Monitors \cup {None}],
         \A c \in Chat : monitors[c] # None => monitors'[c] # None,
         DOMAIN broadcast' = Casts!Broadcast,
         broadcast' = [n \in Casts!Broadcast |-> broadcast'[n]],
         \A n \in Casts!Broadcast :
             /\ Shaped(broadcast'[n])
             /\ broadcast'[n].at = broadcast[n].at /\ broadcast'[n].kind = broadcast[n].kind
             /\ broadcast'[n].github = broadcast[n].github /\ broadcast'[n].left = broadcast[n].left
             /\ \A c \in broadcast[n].left :
                    Held(broadcast'[n], monitors', c) \in
                        {Held(broadcast[n], monitors, c), monitors'[c]},
         Casts!Since, UNCHANGED sent
  PROVE  CastsInv'
  <1>1. wanting' = [n \in Casts!Broadcast |->
             IF broadcast[n].at \in {"unused", "done"} THEN wanting[n]
             ELSE [wanting[n] EXCEPT
                       !.always = @ \cap Casts!LetBy(monitors', broadcast[n].kind,
                                                     broadcast[n].github)
                                    \cap Casts!ActiveBy(monitors'),
                       !.ever = @ \cup (Casts!LetBy(monitors', broadcast[n].kind,
                                                    broadcast[n].github)
                                            \cap wanting[n].active)]]
    BY DEF Casts!Since
  <1>2. ASSUME NEW n \in Casts!Broadcast
        PROVE  /\ wanting'[n] \in [active : SUBSET Chat, always : SUBSET Chat, ever : SUBSET Chat]
               /\ BroadcastSound(broadcast'[n], wanting'[n], sent'[n], monitors')
    <2> DEFINE b == broadcast[n]
               w == wanting[n]
               now == Casts!LetBy(monitors', b.kind, b.github)
    <2>1. /\ wanting[n] \in [active : SUBSET Chat, always : SUBSET Chat, ever : SUBSET Chat]
          /\ BroadcastSound(b, w, sent[n], monitors) /\ Shaped(broadcast'[n]) /\ sent' = sent
          /\ broadcast'[n].at = b.at
      BY DEF CastsInv, CastTypes
    <2>2. CASE b.at \in {"unused", "done"}
      <3>1. wanting'[n] = w
        BY <1>1, <2>2
      <3> QED BY <2>1, <2>2, <3>1 DEF BroadcastSound
    <2>3. CASE b.at \in {"formatting", "sending"}
      <3>1. wanting'[n] = [active |-> w.active,
                           always |-> w.always \cap now \cap Casts!ActiveBy(monitors'),
                           ever |-> w.ever \cup (now \cap w.active)]
        BY <1>1, <2>1, <2>3
      <3>2. UnderWay(b, w, sent[n], monitors)
        BY <2>1, <2>3 DEF BroadcastSound
      <3>3. now = {c \in Chat : monitors'[c] # None /\ Casts!Lets(monitors'[c], b.kind, b.github)}
        BY DEF Casts!LetBy
      <3>4. \A c \in b.left : \/ LetOn(broadcast'[n], monitors', c) <=> LetOn(b, monitors, c)
                              \/ LetOn(broadcast'[n], monitors', c) <=>
                                     Casts!Lets(monitors'[c], b.kind, b.github)
        BY DEF LetOn
      <3>5. broadcast'[n].left = b.left /\ b.left \subseteq Chat \cap w.active
        BY <3>2 DEF UnderWay
      <3> HIDE DEF b, w, now
      <3>6. \A c \in b.left : /\ sent'[n][c] = 0 /\ monitors'[c] # None
                              /\ LetOn(broadcast'[n], monitors', c) => c \in wanting'[n].ever
        BY <2>1, <3>1, <3>2, <3>3, <3>4, <3>5 DEF UnderWay
      <3>7. \A c \in wanting'[n].always :
                sent'[n][c] = 1 \/ (c \in b.left /\ LetOn(broadcast'[n], monitors', c))
        BY <2>1, <3>1, <3>2, <3>3, <3>4 DEF UnderWay
      <3>8. AtMostOnce(wanting'[n], sent'[n])
        BY <2>1, <3>1, <3>2 DEF UnderWay, AtMostOnce
      <3>9. wanting'[n].active = w.active /\ wanting'[n].always \subseteq Chat
        BY <3>1, <3>3
      <3>10. UnderWay(broadcast'[n], wanting'[n], sent'[n], monitors')
        BY <3>5, <3>6, <3>7, <3>8, <3>9 DEF UnderWay
      <3>11. BroadcastSound(broadcast'[n], wanting'[n], sent'[n], monitors')
        BY <2>1, <2>3, <3>10 DEF BroadcastSound, b
      <3>12. wanting'[n] \in [active : SUBSET Chat, always : SUBSET Chat, ever : SUBSET Chat]
        BY <2>1, <3>1, <3>3 DEF w
      <3> QED BY <3>11, <3>12
    <2> QED BY <2>1, <2>2, <2>3 DEF BroadcastSound
  <1>3. wanting' \in [Casts!Broadcast -> [active : SUBSET Chat, always : SUBSET Chat,
                                          ever : SUBSET Chat]]
    BY <1>1, <1>2
  <1> QED BY <1>2, <1>3 DEF CastsInv, CastTypes

\* A step of the broadcasts keeps the invariant.
LEMMA CastsKept ==
  ASSUME NoneIsNoMonitor, CastsInv, [Casts!Next]_(Casts!vars)
  PROVE  CastsInv'
  <1>1. /\ monitors \in [Chat -> Monitors \cup {None}] /\ None \notin Monitors
        /\ sent \in [Casts!Broadcast -> [Chat -> Nat]]
        /\ wanting \in [Casts!Broadcast -> [active : SUBSET Chat, always : SUBSET Chat,
                                             ever : SUBSET Chat]]
        /\ DOMAIN broadcast = Casts!Broadcast
        /\ broadcast = [n \in Casts!Broadcast |-> broadcast[n]]
        /\ \A n \in Casts!Broadcast : Shaped(broadcast[n])
    BY DEF CastsInv, CastTypes, BroadcastSound, NoneIsNoMonitor
  <1>2. \A c \in Chat : Casts!AlertsOf(c) \in SUBSET Kind
    BY <1>1 DEF Casts!AlertsOf, Monitors
  <1>3. ASSUME NEW c \in Chat, NEW g \in BOOLEAN, Casts!ActivateMonitor(c, g)
        PROVE  CastsInv'
    <2>1. Casts!NewEntry(g, Casts!AlertsOf(c)) \in Monitors
      BY <1>2 DEF Casts!NewEntry, Monitors
    <2>2. /\ monitors' \in [Chat -> Monitors \cup {None}]
          /\ \A d \in Chat : monitors[d] # None => monitors'[d] # None
          /\ \A d \in Chat \ {c} : monitors'[d] = monitors[d]
      BY <1>1, <1>3, <2>1 DEF Casts!ActivateMonitor
    <2>3. broadcast' = Casts!Keeping(c) /\ Casts!Since /\ UNCHANGED sent
      BY <1>3 DEF Casts!ActivateMonitor
    <2>4. /\ DOMAIN broadcast' = Casts!Broadcast
          /\ broadcast' = [n \in Casts!Broadcast |-> broadcast'[n]]
      BY <2>3 DEF Casts!Keeping
    <2>5. ASSUME NEW n \in Casts!Broadcast
          PROVE  /\ Shaped(broadcast'[n])
                 /\ broadcast'[n].at = broadcast[n].at /\ broadcast'[n].kind = broadcast[n].kind
                 /\ broadcast'[n].github = broadcast[n].github
                 /\ broadcast'[n].left = broadcast[n].left
                 /\ \A d \in broadcast[n].left :
                        Held(broadcast'[n], monitors', d) \in
                            {Held(broadcast[n], monitors, d), monitors'[d]}
      <3> DEFINE b == broadcast[n]
                 kept == [d \in DOMAIN b.replaced \cup {c} |->
                             IF d = c THEN monitors[d] ELSE b.replaced[d]]
      <3>1. CASE c \in b.left \ DOMAIN b.replaced
        <4>1. broadcast'[n] = [b EXCEPT !.replaced = kept]
          BY <2>3, <3>1 DEF Casts!Keeping
        <4>2. broadcast'[n] = [at |-> b.at, kind |-> b.kind, github |-> b.github,
                               left |-> b.left, replaced |-> kept]
          BY <1>1, <4>1 DEF Shaped
        <4>3. ASSUME NEW d \in b.left
              PROVE  Held(broadcast'[n], monitors', d) \in {Held(b, monitors, d), monitors'[d]}
          <5>1. CASE d \in DOMAIN b.replaced \cup {c}
            BY <3>1, <4>2, <5>1 DEF Held
          <5>2. CASE d \notin DOMAIN b.replaced \cup {c}
            BY <4>2, <5>2 DEF Held
          <5> QED BY <5>1, <5>2
        <4> QED BY <4>2, <4>3 DEF Shaped
      <3>2. CASE c \notin b.left \ DOMAIN b.replaced
        <4>1. broadcast'[n] = b
          BY <2>3, <3>2 DEF Casts!Keeping
        <4> QED BY <1>1, <4>1 DEF Held
      <3> QED BY <3>1, <3>2
    <2> QED BY <2>2, <2>3, <2>4, <2>5, SinceKeeps
  <1>4. ASSUME NEW c \in Chat, monitors' \in [Chat -> Monitors \cup {None}],
               \A d \in Chat : monitors[d] # None => monitors'[d] # None,
               Casts!Since, UNCHANGED <<broadcast, sent>>
        PROVE  CastsInv'
    <2>1. \A n \in Casts!Broadcast : \A d \in broadcast[n].left :
              Held(broadcast'[n], monitors', d) \in
                  {Held(broadcast[n], monitors, d), monitors'[d]}
      BY <1>4 DEF Held
    <2> QED BY <1>1, <1>4, <2>1, SinceKeeps
  <1>5. ASSUME NEW c \in Chat, Casts!DeactivateMonitor(c)
        PROVE  CastsInv'
    <2>1. monitors[c] \in Monitors
      BY <1>1, <1>5 DEF Casts!DeactivateMonitor, Casts!ActiveBy
    <2>2. /\ monitors' \in [Chat -> Monitors \cup {None}]
          /\ \A d \in Chat : monitors[d] # None => monitors'[d] # None
      <3>1. [monitors[c] EXCEPT !.active = FALSE] \in Monitors
        BY <2>1 DEF Monitors
      <3>2. monitors' = [monitors EXCEPT ![c] = [monitors[c] EXCEPT !.active = FALSE]]
        BY <1>5 DEF Casts!DeactivateMonitor
      <3> QED BY <1>1, <3>1, <3>2
    <2> QED BY <1>4, <1>5, <2>2 DEF Casts!DeactivateMonitor
  <1>6. ASSUME NEW c \in Chat, NEW ks \in SUBSET Kind, NEW on \in BOOLEAN,
               Casts!UpdateAlerts(c, ks, on)
        PROVE  CastsInv'
    <2>1. PICK kinds \in SUBSET Kind :
              monitors' = [monitors EXCEPT ![c] = IF monitors[c] = None
                                                  THEN Casts!NewEntry(FALSE, kinds)
                                                  ELSE [monitors[c] EXCEPT !.alerts = kinds]]
      BY <1>2, <1>6 DEF Casts!UpdateAlerts
    <2>2. Casts!NewEntry(FALSE, kinds) \in Monitors
      BY DEF Casts!NewEntry, Monitors
    <2>3. monitors[c] # None => [monitors[c] EXCEPT !.alerts = kinds] \in Monitors
      BY <1>1 DEF Monitors
    <2>4. /\ monitors' \in [Chat -> Monitors \cup {None}]
          /\ \A d \in Chat : monitors[d] # None => monitors'[d] # None
      BY <1>1, <2>1, <2>2, <2>3
    <2> QED BY <1>4, <1>6, <2>4 DEF Casts!UpdateAlerts
  <1>7. ASSUME NEW n \in Casts!Broadcast, NEW k \in Kind, NEW g \in BOOLEAN,
               Casts!Happen(n, k, g)
        PROVE  CastsInv'
    <2> DEFINE active == Casts!ActiveBy(monitors)
               now == Casts!LetBy(monitors, k, g) \cap active
               w == [active |-> active, always |-> now, ever |-> now]
               found == [Casts!Unused EXCEPT !.kind = k, !.github = g, !.left = active]
               b == [at |-> "unused", kind |-> k, github |-> g, left |-> active, replaced |-> <<>>]
    <2>1. /\ wanting' = [wanting EXCEPT ![n] = w] /\ UNCHANGED monitors
          /\ broadcast[n].at = "unused"
          /\ \/ /\ broadcast' = [broadcast EXCEPT ![n] = [b EXCEPT !.at = "formatting"]]
                /\ UNCHANGED sent
             \/ Casts!Loop(n, b)
      <3>1. found = b
        <4>1. PICK x : x = found
          OBVIOUS
        <4>2. /\ x.at = "unused" /\ x.kind = k /\ x.github = g /\ x.left = active
              /\ x.replaced = <<>>
          BY <4>1 DEF Casts!Unused
        <4>3. Shaped(x)
          BY <4>1 DEF Casts!Unused, Shaped
        <4> QED BY <4>1, <4>2, <4>3, Zenon DEF Shaped
      <3>2. /\ wanting' = [wanting EXCEPT ![n] = w] /\ UNCHANGED monitors
            /\ broadcast[n].at = "unused"
        BY <1>7 DEF Casts!Happen
      <3>3. \/ broadcast' = [broadcast EXCEPT ![n] = [found EXCEPT !.at = "formatting"]]
               /\ UNCHANGED sent
            \/ Casts!Loop(n, found)
        BY <1>7 DEF Casts!Happen
      <3> QED BY <3>1, <3>2, <3>3
    <2>2. active \subseteq Chat /\ now = {c \in active : Casts!Lets(monitors[c], k, g)}
          /\ \A c \in active : monitors[c] # None
      BY DEF Casts!ActiveBy, Casts!LetBy
    <2>3. \A c \in Chat : sent[n][c] = 0
      BY <2>1 DEF CastsInv, BroadcastSound
    <2>4. \A c : LetOn(b, monitors, c) <=> Casts!Lets(monitors[c], k, g)
      BY DEF LetOn, Held
    <2>5. wanting' \in [Casts!Broadcast -> [active : SUBSET Chat, always : SUBSET Chat,
                                            ever : SUBSET Chat]]
          /\ wanting'[n] = w /\ \A m \in Casts!Broadcast \ {n} : wanting'[m] = wanting[m]
      BY <1>1, <2>1, <2>2
    <2>6. UnderWay(b, w, sent[n], monitors) /\ Shaped(b)
      BY <2>2, <2>3, <2>4 DEF UnderWay, AtMostOnce, Shaped
    <2>7. /\ sent' \in [Casts!Broadcast -> [Chat -> Nat]]
          /\ broadcast' = [m \in Casts!Broadcast |-> broadcast'[m]]
          /\ DOMAIN broadcast' = Casts!Broadcast
          /\ \A m \in Casts!Broadcast \ {n} : broadcast'[m] = broadcast[m] /\ sent'[m] = sent[m]
          /\ BroadcastSound(broadcast'[n], w, sent'[n], monitors)
      <3> HIDE DEF b, w
      <3>1. CASE Casts!Loop(n, b)
        BY <2>6, <3>1, LoopKeeps DEF CastsInv
      <3>2. CASE /\ broadcast' = [broadcast EXCEPT ![n] = [b EXCEPT !.at = "formatting"]]
                 /\ UNCHANGED sent
        <4>1. broadcast'[n] = [b EXCEPT !.at = "formatting"]
          BY <1>1, <3>2
        <4>2. broadcast'[n] = [at |-> "formatting", kind |-> b.kind, github |-> b.github,
                               left |-> b.left, replaced |-> b.replaced]
          BY <2>6, <4>1 DEF Shaped
        <4>3. \A c : LetOn(broadcast'[n], monitors, c) <=> LetOn(b, monitors, c)
          BY <4>2 DEF LetOn, Held
        <4>4. UnderWay(broadcast'[n], w, sent[n], monitors)
          BY <2>6, <4>2, <4>3 DEF UnderWay
        <4>5. BroadcastSound(broadcast'[n], w, sent'[n], monitors)
          BY <3>2, <4>2, <4>4 DEF BroadcastSound, Shaped
        <4> QED BY <1>1, <3>2, <4>5
      <3> QED BY <2>1, <3>1, <3>2
    <2> HIDE DEF w
    <2> QED BY <1>1, <2>1, <2>5, <2>7 DEF CastsInv, CastTypes
  <1>8. ASSUME NEW n \in Casts!Broadcast, Casts!GoOn(n)
        PROVE  CastsInv'
    <2>1. UnderWay(broadcast[n], wanting[n], sent[n], monitors)
      BY <1>8 DEF CastsInv, BroadcastSound, Casts!GoOn
    <2>2. /\ sent' \in [Casts!Broadcast -> [Chat -> Nat]]
          /\ broadcast' = [m \in Casts!Broadcast |-> broadcast'[m]]
          /\ DOMAIN broadcast' = Casts!Broadcast
          /\ \A m \in Casts!Broadcast \ {n} : broadcast'[m] = broadcast[m] /\ sent'[m] = sent[m]
          /\ BroadcastSound(broadcast'[n], wanting[n], sent'[n], monitors)
      BY <1>1, <1>8, <2>1, LoopKeeps DEF CastsInv, Casts!GoOn
    <2>3. UNCHANGED <<monitors, wanting>>
      BY <1>8 DEF Casts!GoOn
    <2> QED BY <1>1, <2>2, <2>3 DEF CastsInv, CastTypes
  <1>9. CASE UNCHANGED Casts!vars
    BY <1>9 DEF Casts!vars, CastsInv, CastTypes
  <1>10. \A ks \in {{k} : k \in Kind} \cup {Kind} : ks \in SUBSET Kind
    OBVIOUS
  <1> QED BY <1>3, <1>5, <1>6, <1>7, <1>8, <1>9, <1>10 DEF Casts!Next

\* Nothing was broadcast at the start.
LEMMA CastsStart == Casts!Init => CastsInv
  <1> SUFFICES ASSUME Casts!Init PROVE CastsInv
    OBVIOUS
  <1>1. CastTypes
    BY DEF Casts!Init, CastTypes
  <1>2. ASSUME NEW n \in Casts!Broadcast
        PROVE  BroadcastSound(broadcast[n], wanting[n], sent[n], monitors)
    BY DEF Casts!Init, BroadcastSound, Shaped, Casts!Unused
  <1> QED BY <1>1, <1>2 DEF CastsInv

\* What the broadcasts keep is what the chats may expect.
LEMMA CastsSuffice == CastsInv => Casts!BroadcastReaches
  <1> SUFFICES ASSUME CastsInv, NEW n \in Casts!Broadcast
               PROVE  /\ broadcast[n].at = "done" => \A c \in wanting[n].always : sent[n][c] = 1
                      /\ \A c \in Chat : sent[n][c] > 0 => sent[n][c] = 1 /\ c \in wanting[n].ever
    BY DEF Casts!BroadcastReaches
  <1> QED BY DEF CastsInv, BroadcastSound, Finished, UnderWay, AtMostOnce

\* BroadcastReaches (monitor/src/index.ts, launch-store.ts): a broadcast reaches once every
\* chat that let it through all the while and none that never did, whatever the chats change
\* while it is sent.
THEOREM CastsReach ==
  ASSUME NoneIsNoMonitor
  PROVE  Casts!Spec => []Casts!BroadcastReaches
  <1>1. Casts!Init => CastsInv
    BY CastsStart
  <1>2. CastsInv /\ [Casts!Next]_(Casts!vars) => CastsInv'
    BY CastsKept
  <1>3. CastsInv => Casts!BroadcastReaches
    BY CastsSuffice
  <1> QED BY <1>1, <1>2, <1>3, PTL DEF Casts!Spec

------------------------------------------------------------------------------
(* The bots of one run *)

\* Each part keeps its invariant while it runs and is as it starts while another does.
BotsInv == /\ IF part = "items" THEN ItemsInv
              ELSE \A n \in Items!Claim : /\ notifier[n].at = "unused"
                                           /\ \A c \in Chat : notices[n][c] = 0
           /\ IF part = "watches" THEN WatchInv
              ELSE \A n \in Watching!Event :
                       /\ alerter[n].at = "unused" /\ alerter[n].wallets = {}
                       /\ \A c \in Chat : alerts[n][c] = 0
           /\ CastsInv

\* The invariant of the bots of one run: each part keeps its own, and the parts that are
\* not run stay as they start.
THEOREM BotsInvariant ==
  ASSUME NoneIsNoToken, NoneIsNoMonitor
  PROVE  BotsSpec => []BotsInv
  <1>1. BotsInit => BotsInv
    <2> SUFFICES ASSUME BotsInit PROVE BotsInv
      OBVIOUS
    <2>1. Items!Init /\ Watching!Init /\ Casts!Init
      BY DEF BotsInit
    <2>2. ItemsInv /\ WatchInv /\ CastsInv
      BY <2>1, ItemsStarts, WatchStarts, CastsStart
    <2>3. \A n \in Items!Claim : /\ notifier[n].at = "unused"
                                  /\ \A c \in Chat : notices[n][c] = 0
      BY <2>1 DEF Items!Init, Items!Unused
    <2>4. \A n \in Watching!Event : /\ alerter[n].at = "unused" /\ alerter[n].wallets = {}
                                     /\ \A c \in Chat : alerts[n][c] = 0
      BY <2>1 DEF Watching!Init, Watching!Unused
    <2> QED BY <2>2, <2>3, <2>4 DEF BotsInv
  <1>2. BotsInv /\ [BotsNext]_allVars => BotsInv'
    <2> SUFFICES ASSUME BotsInv, [BotsNext]_allVars PROVE BotsInv'
      OBVIOUS
    <2>1. UNCHANGED part
      BY DEF BotsNext, allVars
    <2>2. CastsInv'
      <3>1. [Casts!Next]_(Casts!vars)
        BY DEF BotsNext, allVars, castVars, Casts!vars
      <3> QED BY <3>1, CastsKept DEF BotsInv
    <2>3. CASE part = "items"
      <3>1. [Items!Next]_(Items!vars) /\ UNCHANGED watchVars
        BY <2>3 DEF BotsNext, allVars, itemVars, storeVars, watchVars, Items!vars, Items!storeVars
      <3>2. ItemsInv'
        BY <2>3, <3>1, ItemsKept DEF BotsInv
      <3> QED BY <2>1, <2>2, <2>3, <3>1, <3>2 DEF BotsInv, watchVars
    <2>4. CASE part = "watches"
      <3>1. [Watching!Next]_(Watching!vars) /\ UNCHANGED itemVars
        BY <2>4 DEF BotsNext, allVars, watchVars, storeVars, itemVars, Watching!vars,
                    Watching!storeVars
      <3>2. WatchInv'
        BY <2>4, <3>1, WatchKept DEF BotsInv
      <3> QED BY <2>1, <2>2, <2>4, <3>1, <3>2 DEF BotsInv, itemVars
    <2>5. CASE part # "items" /\ part # "watches"
      <3>1. UNCHANGED <<itemVars, watchVars>>
        BY <2>5 DEF BotsNext, allVars
      <3> QED BY <2>1, <2>2, <2>5, <3>1 DEF BotsInv, itemVars, watchVars
    <2> QED BY <2>3, <2>4, <2>5
  <1> QED BY <1>1, <1>2, PTL DEF BotsSpec

\* TrackersHear in every behaviour of the bots that TLC explores, for any constants.
THEOREM BotsTrackersHear ==
  ASSUME NoneIsNoToken, NoneIsNoMonitor
  PROVE  BotsSpec => []TrackersHear
  <1>1. ASSUME BotsInv PROVE TrackersHear
    <2>1. CASE part = "items"
      BY <1>1, <2>1, ItemsSuffice DEF BotsInv, TrackersHear
    <2>2. CASE part # "items"
      BY <1>1, <2>2 DEF BotsInv, TrackersHear, Items!TrackersHear
    <2> QED BY <2>1, <2>2
  <1>2. BotsSpec => []BotsInv
    BY BotsInvariant
  <1> QED BY <1>1, <1>2, PTL

\* WatchersHear in every such behaviour.
THEOREM BotsWatchersHear ==
  ASSUME NoneIsNoToken, NoneIsNoMonitor
  PROVE  BotsSpec => []WatchersHear
  <1>1. ASSUME BotsInv PROVE WatchersHear
    <2>1. CASE part = "watches"
      BY <1>1, <2>1, WatchSuffices DEF BotsInv, WatchersHear
    <2>2. CASE part # "watches"
      <3>1. Watching!Cardinality({}) = 0
        BY SameCardinality, FS_EmptySet
      <3>2. ASSUME NEW n \in Watching!Event, NEW c \in Chat
            PROVE  alerts[n][c] <= Watching!Cardinality(alerter[n].wallets)
        <4>1. alerts[n][c] = 0 /\ Watching!Cardinality(alerter[n].wallets) = 0
          BY <1>1, <2>2, <3>1 DEF BotsInv
        <4> QED BY <4>1
      <3>3. \A n \in Watching!Event : alerter[n].at # "done"
        BY <1>1, <2>2 DEF BotsInv
      <3> QED BY <3>2, <3>3 DEF WatchersHear, Watching!WatchersHear
    <2> QED BY <2>1, <2>2
  <1>2. BotsSpec => []BotsInv
    BY BotsInvariant
  <1> QED BY <1>1, <1>2, PTL

\* BroadcastReaches in every such behaviour.
THEOREM BotsBroadcastReaches ==
  ASSUME NoneIsNoToken, NoneIsNoMonitor
  PROVE  BotsSpec => []BroadcastReaches
  <1>1. ASSUME BotsInv PROVE BroadcastReaches
    BY <1>1, CastsSuffice DEF BotsInv, BroadcastReaches
  <1>2. BotsSpec => []BotsInv
    BY BotsInvariant
  <1> QED BY <1>1, <1>2, PTL

=============================================================================
