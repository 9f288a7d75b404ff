------------------------------ MODULE ClaimFeed ------------------------------
(***************************************************************************)
(* The first-claim feed of the channel bot: the claim handler of           *)
(* packages/channel/src/index.ts (Path A, GitHub social fee claims), its   *)
(* Telegram posting helpers, and packages/channel/src/claim-tracker.ts,    *)
(* which remembers in memory and on disk which accounts were announced.    *)
(* The monitor does not await the handler, so handlers of different claims *)
(* interleave at their awaits; each step below runs from one await to the  *)
(* next.  A restart loses memory, timers and running handlers, and the     *)
(* monitor then delivers the recent transactions again.                    *)
(***************************************************************************)
EXTENDS Naturals, Sequences, FiniteSets, Functions

CONSTANTS Users,         \* GitHub accounts, one social fee PDA each
          Amounts,       \* bound: amounts one claim may withdraw
          MAX_ENTRIES,   \* 50,000 in the code
          MAX_RETRIES,   \* maxRetries of withRetry, 3 in the code
          BATCH,         \* bound: claim instructions in one transaction
          MaxTxs,        \* bound: claim transactions on the chain
          MaxRestarts,   \* bound: restarts of the bot
          SaveFaults,    \* may a save fail half way (disk full, process killed)?
          LostReplies    \* may Telegram post a message and the reply be an error?

ASSUME FeedAssumption == /\ Amounts \subseteq Nat \ {0}
                         /\ {MAX_ENTRIES, BATCH} \subseteq Nat \ {0}
                         /\ {MAX_RETRIES, MaxTxs, MaxRestarts} \subseteq Nat
                         /\ {SaveFaults, LostReplies} \subseteq BOOLEAN

VARIABLES chain,      \* the claim transactions: number of claims, last event
          lifetime,   \* lamports each account has withdrawn so far
          linked,     \* SocialFeeIndex: tokens known for the account's PDA, 2 = several
          seen,       \* transactions the monitor has passed on in this run
          handler,    \* running handlers, by transaction and instruction
          claimed,    \* githubUserFirstClaim, in insertion order
          counts,     \* githubUserClaimCounts
          saveTimer,  \* is a debounced save scheduled?
          disk,       \* the files: those torn, and the contents of two
          restored,   \* history: keys loaded by the last start, not evicted since
          restarts,
          saveFailed, \* history: has a save failed since the last good one?
          heard,      \* history: claims the channel showed in this run, with their keys
          late,       \* history: handlers that passed the test for a first claim while
                      \* another handler of the key was past it, or the key had lapsed
          lapsed      \* history: keys the full set evicted or a lost reply left unmarked
chainVars == <<chain, lifetime>>
remembered == <<claimed, saveTimer, restored, lapsed>>
memory == <<remembered, counts>>
process == <<disk, restarts, saveFailed>>
shown == <<heard, late>>
vars == <<chainVars, linked, seen, handler, memory, process, shown>>

Keys == [user : Users, mint : BOOLEAN]   \* "userId:mint" or "userId"
Event == [user : Users, amount : Nat, lifetime : Nat]
Empty == [k \in Keys |-> 0]
Ids == (Nat \ {0}) \X (1..BATCH)        \* transaction and instruction

\* The files of claim-tracker.ts in the order they are written and read.  Only what
\* the third and the fifth hold matters here.
GITHUB_FIRST_CLAIMS_FILE == 3
GITHUB_CLAIM_COUNTS_FILE == 5
Files == 1..5

TypeOK ==
    /\ chain \in Seq([n : 1..BATCH, event : Event])
    /\ lifetime \in [Users -> Nat]
    /\ linked \in [Users -> 0..2]
    /\ seen \subseteq DOMAIN chain
    /\ DOMAIN handler \subseteq (DOMAIN chain) \X (1..BATCH)
    /\ \A h \in DOMAIN handler :
           handler[h] \in [stage : {"candidates", "context", "asked", "posted", "lost"},
                           event : Event, key : Keys,
                           photo : BOOLEAN, tries : 0..MAX_RETRIES]
    /\ claimed \in Seq(Keys) /\ IsInjective(claimed) /\ Len(claimed) <= MAX_ENTRIES
    /\ counts \in [Keys -> Nat]
    /\ saveTimer \in BOOLEAN
    /\ disk.torn \subseteq Files /\ Len(disk.claims) <= MAX_ENTRIES
    /\ restored \subseteq Keys
    /\ restarts \in 0..MaxRestarts
    /\ saveFailed \in BOOLEAN
    /\ heard \subseteq [id : Ids, key : Keys]
    /\ late \subseteq Ids
    /\ lapsed \subseteq Keys

Init == /\ chain = <<>> /\ lifetime = [u \in Users |-> 0]
        /\ linked = [u \in Users |-> 0]
        /\ seen = {} /\ handler = <<>>
        /\ claimed = <<>> /\ counts = Empty /\ saveTimer = FALSE
        /\ disk = [torn |-> {}, claims |-> <<>>, counts |-> Empty]
        /\ restored = {} /\ restarts = 0 /\ saveFailed = FALSE
        /\ heard = {} /\ late = {} /\ lapsed = {}

------------------------------------------------------------------------------
(* The environment: claims on the chain, and what the index learns.        *)

Withdrawn(l, u, a) == [l EXCEPT ![u] = @ + a]

\* A transaction with one claim or, up to BATCH, two: buildClaimEvent() reads
\* every event of the transaction for each of its instructions and keeps the
\* fields of the last one.
Claim ==
    /\ Len(chain) < MaxTxs
    /\ \E n \in 1..BATCH, u, v \in Users, a, b \in Amounts :
           /\ n = 1 => u = v /\ a = b
           /\ LET before == IF n = 1 THEN lifetime ELSE Withdrawn(lifetime, u, a)
                  after == Withdrawn(before, v, b)
              IN /\ lifetime' = after
                 /\ chain' = Append(chain, [n |-> n, event |->
                        [user |-> v, amount |-> b, lifetime |-> after[v]]])
    /\ UNCHANGED <<linked, seen, handler, memory, process, shown>>

\* bootstrap() or a fee sharing event adds a token to the account's PDA;
\* mappings are only ever added.
Link(u) ==
    /\ linked[u] < 2
    /\ linked' = [linked EXCEPT ![u] = @ + 1]
    /\ UNCHANGED <<chainVars, seen, handler, memory, process, shown>>

------------------------------------------------------------------------------
(* claim-tracker.ts *)

HasClaimed(k) == k \in Range(claimed)

MarkClaimed_NoSave(k) ==
    /\ claimed' = IF HasClaimed(k) THEN claimed ELSE Append(claimed, k)
    /\ UNCHANGED <<saveTimer, restored, lapsed>>
\* markGithubUserClaimed(): the oldest entry goes when the set outgrows its limit.
MarkClaimed(k) ==
    IF HasClaimed(k) THEN UNCHANGED remembered
    ELSE LET full == Len(claimed) = MAX_ENTRIES
             kept == IF full THEN Tail(claimed) ELSE claimed
             gone == IF full THEN {Head(claimed)} ELSE {}
         IN /\ claimed' = Append(kept, k) /\ saveTimer' = TRUE
            /\ restored' = restored \ gone
            /\ lapsed' = (lapsed \cup gone) \ {k}

\* The debounced save writes the files one after the other in one try block: a
\* failure is logged and leaves the later files old, and the file f it met old or
\* truncated.
Save ==
    /\ saveTimer
    /\ saveTimer' = FALSE
    /\ \/ /\ disk' = [torn |-> {}, claims |-> claimed, counts |-> counts]
          /\ saveFailed' = FALSE
       \/ /\ SaveFaults /\ saveFailed' = TRUE
          /\ \E f \in Files, cut \in BOOLEAN : disk' =
                 [torn |-> (disk.torn \ 1..(f - 1)) \cup (IF cut THEN {f} ELSE {}),
                  claims |-> IF f > GITHUB_FIRST_CLAIMS_FILE THEN claimed ELSE disk.claims,
                  counts |-> disk.counts]
    /\ UNCHANGED <<chainVars, linked, seen, handler, claimed, counts, restored, lapsed,
                   restarts, shown>>

\* loadPersistedClaims(): the files are read in the same order, and one that does not
\* parse ends the load.
Loads(f) == disk.torn \cap 1..f = {}
Load == /\ claimed' = IF Loads(GITHUB_FIRST_CLAIMS_FILE) THEN disk.claims ELSE <<>>
        /\ restored' = Range(claimed')
        /\ counts' = IF Loads(GITHUB_CLAIM_COUNTS_FILE) THEN disk.counts ELSE Empty

\* The process ends, by a crash or by shutdown(), which does not wait for a
\* pending save or a running handler, and starts again.
Restart ==
    /\ restarts < MaxRestarts
    /\ restarts' = restarts + 1
    /\ Load
    /\ saveTimer' = FALSE
    /\ seen' = {} /\ handler' = <<>>
    /\ linked' = [u \in Users |-> 0]
    /\ heard' = {} /\ late' = {} /\ lapsed' = {}
    /\ UNCHANGED <<chainVars, disk, saveFailed>>

------------------------------------------------------------------------------
(* The handler, Path A *)

\* The lifetime total does not exceed this claim by more than 1 %.
LooksFirst(e) == 100 * e.lifetime <= 101 * e.amount

At(stage, e, k, photo, tries) ==
    [stage |-> stage, event |-> e, key |-> k, photo |-> photo, tries |-> tries]
Ended(ids) == Restrict(handler, DOMAIN handler \ ids)
Becomes(ids, r) == [h \in DOMAIN handler \cup ids |-> IF h \in ids THEN r ELSE handler[h]]

PastTest(h) == handler[h].stage # "candidates"

\* The handlers among ids that find the key being announced, or lapsed.  Of several
\* in one go the first does not.
Overlapping(ids, k) ==
    IF k \in lapsed \/ \E g \in DOMAIN handler \ ids : PastTest(g) /\ handler[g].key = k
    THEN ids ELSE ids \ {CHOOSE h \in ids : TRUE}

\* From the test for a first claim to the next await or the end.  A claim the
\* lifetime shows to be a repeat is recorded; only first claims go on.
Check_Unread(ids, e, k) ==
    /\ IF LooksFirst(e)
       THEN /\ handler' = Becomes(ids, At("context", e, k, FALSE, 0))
            /\ late' = late \cup Overlapping(ids, k)
            /\ UNCHANGED remembered
       ELSE handler' = Ended(ids) /\ MarkClaimed(k) /\ UNCHANGED late
    /\ UNCHANGED counts
Check(ids, e, k) ==
    /\ IF HasClaimed(k) \/ ~LooksFirst(e)
       THEN handler' = Ended(ids) /\ MarkClaimed(k) /\ UNCHANGED late
       ELSE /\ handler' = Becomes(ids, At("context", e, k, FALSE, 0))
            /\ late' = late \cup Overlapping(ids, k)
            /\ UNCHANGED remembered
    /\ UNCHANGED counts

\* The monitor calls the handler once per claim instruction, in one go.  With
\* several candidate tokens the handler first awaits their details and leaves
\* the claim without a mint.
HandleTx(t) ==
    /\ t \in DOMAIN chain \ seen
    /\ seen' = seen \cup {t}
    /\ LET ids == {t} \X (1..chain[t].n)
           e == chain[t].event
       IN IF linked[e.user] = 2
          THEN /\ handler' = Becomes(ids, At("candidates", e,
                                 [user |-> e.user, mint |-> FALSE], FALSE, 0))
               /\ UNCHANGED <<memory, late>>
          ELSE Check(ids, e, [user |-> e.user, mint |-> linked[e.user] = 1])
    /\ UNCHANGED <<chainVars, linked, process, heard>>

\* An exception of the lookups ends the handler, here and below.
CandidatesFetched(h) ==
    /\ handler[h].stage = "candidates"
    /\ \/ Check({h}, handler[h].event, handler[h].key)
       \/ handler' = Ended({h}) /\ UNCHANGED <<memory, late>>
    /\ UNCHANGED <<chainVars, linked, seen, process, heard>>

\* The profile, price and holder lookups are back: incrementGithubClaimCount(),
\* then, unless formatting throws, the first attempt to post, as a photo when the
\* caption is short enough.
ContextFetched(h) ==
    /\ handler[h].stage = "context"
    /\ \/ /\ counts' = [counts EXCEPT ![handler[h].key] = @ + 1]
          /\ saveTimer' = TRUE
          /\ \/ handler' = Ended({h})
             \/ \E photo \in BOOLEAN : handler' =
                    Becomes({h}, At("asked", handler[h].event, handler[h].key, photo, 0))
       \/ handler' = Ended({h}) /\ UNCHANGED <<counts, saveTimer>>
    /\ UNCHANGED <<chainVars, linked, seen, claimed, restored, lapsed, process, shown>>

\* Telegram posts the message; its reply, or the news of its loss, is under way.
Delivered(h) ==
    /\ handler[h].stage = "asked"
    /\ \E stage \in {"posted"} \cup (IF LostReplies THEN {"lost"} ELSE {}) :
           handler' = [handler EXCEPT ![h].stage = stage]
    /\ heard' = heard \cup {[id |-> h, key |-> handler[h].key]}
    /\ UNCHANGED <<chainVars, linked, seen, memory, process, late>>

\* The post resolves: markGithubUserClaimed(), and the handler returns.
Acked(h) ==
    /\ handler[h].stage = "posted"
    /\ MarkClaimed(handler[h].key)
    /\ handler' = Ended({h})
    /\ UNCHANGED <<chainVars, linked, seen, counts, process, shown>>

\* withRetry(): a 429 or 5xx is retried up to MAX_RETRIES times; any other error,
\* or the last one, makes a photo fall back to text and a text post give up.
Refused_NeverGivesUp(h) ==
    /\ handler[h].stage = "asked"
    /\ handler' = Becomes({h}, At("asked", handler[h].event, handler[h].key,
                                  handler[h].photo, (handler[h].tries + 1) % (MAX_RETRIES + 1)))
    /\ UNCHANGED <<chainVars, linked, seen, memory, process, shown>>
Refused(h) ==
    /\ handler[h].stage \in {"asked", "lost"}
    /\ LET e == handler[h].event
           k == handler[h].key
           retry == At("asked", e, k, handler[h].photo, handler[h].tries + 1)
           unmarked == \E c \in heard : c.id = h /\ ~HasClaimed(k)
       IN \/ /\ handler[h].tries < MAX_RETRIES
             /\ handler' = Becomes({h}, retry) /\ UNCHANGED lapsed
          \/ /\ handler[h].photo
             /\ handler' = Becomes({h}, At("asked", e, k, FALSE, 0)) /\ UNCHANGED lapsed
          \/ /\ ~handler[h].photo
             /\ handler' = Ended({h})
             /\ lapsed' = IF unmarked THEN lapsed \cup {k} ELSE lapsed
    /\ UNCHANGED <<chainVars, linked, seen, claimed, saveTimer, restored, counts, process,
                   shown>>

HandlerStep(h) == CandidatesFetched(h) \/ ContextFetched(h) \/ Delivered(h)
                  \/ Acked(h) \/ Refused(h)

Next == \/ Claim
        \/ \E u \in Users : Link(u)
        \/ Save
        \/ Restart
        \/ \E t \in DOMAIN chain : HandleTx(t)
        \/ \E h \in DOMAIN handler : HandlerStep(h)

\* Fetches and posts settle: every request has a timeout or a reply.
Fairness == \A h \in (1..MaxTxs) \X (1..BATCH) :
                WF_vars(h \in DOMAIN handler /\ HandlerStep(h))

Spec == Init /\ [][Next]_vars
FairSpec == Spec /\ Fairness

------------------------------------------------------------------------------
\* Later claims of an account so large that what it had withdrawn before is within
\* the 1 % of LooksFirst.
Dwarfing(u) == {t \in DOMAIN chain :
                   LET e == chain[t].event
                   IN e.user = u /\ e.lifetime > e.amount /\ 100 * e.lifetime <= 101 * e.amount}

\* "Only post FIRST claims" (index.ts), as far as it holds: within a run the channel
\* shows one claim of each key, although handlers overlap, the mark is set after the
\* post and a full set evicts; a second one only from a handler that passed the test
\* before the first was marked, or after its mark was lost.  And of the claims of one
\* account in several transactions, later ones only when they dwarf the earlier.
FirstClaimsOnly ==
    \A c, d \in heard :
        /\ c.key = d.key => c.id = d.id \/ {c.id, d.id} \cap late # {}
        /\ c.key.user = d.key.user /\ c.id[1] < d.id[1] => d.id[1] \in Dwarfing(d.key.user)

\* "Only post FIRST claims", as a reader takes it: one claim of each account.
AnnouncedOnce == \A c, d \in heard : c.key.user = d.key.user => c.id = d.id

\* The debounced save loses nothing by itself: what memory has and the disk has
\* not is always covered by a scheduled save, unless a save failed.
UnsavedIsScheduled ==
    \/ saveTimer \/ saveFailed
    \/ disk = [torn |-> {}, claims |-> claimed, counts |-> counts]

\* A key that was restored from disk is never announced again, unless the full
\* set evicts it first: no handler gets past its test for it, whatever
\* transactions the new run receives again.
RestoredStaysSilent ==
    \A h \in DOMAIN handler :
        PastTest(h) => handler[h].key \notin restored

\* The handlers of a transaction all come to an end: their retries are bounded.
HandlersEnd ==
    \A t \in 1..MaxTxs :
        LET running == {h \in DOMAIN handler : h[1] = t} IN running # {} ~> running = {}

=============================================================================
