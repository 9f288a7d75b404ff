------------------------------- MODULE ApiClaims -------------------------------
(***************************************************************************)
(* What clients of the monitor bot's REST API (packages/monitor/src/api)   *)
(* see of the claims: the ring buffer and its pages (claimBuffer.ts), and  *)
(* live streams, behind the rate limiter (server.ts).  None of these       *)
(* handlers awaits anything, so that each request is one step.             *)
(***************************************************************************)
EXTENDS RateLimiter, SequencesExt

CONSTANTS Stream,           \* connections that may ask for a stream
          claimBufferSize,  \* CLAIM_BUFFER_SIZE, 10_000 by default
          PageLimit,        \* the limit parameter of the client that reads pages
          MaxClaims         \* bound: claims detected

ASSUME ApiAssumption ==
    claimBufferSize \in Nat \ {0} /\ PageLimit \in Nat \ {0} /\ MaxClaims \in Nat

VARIABLES buffer,       \* the claims in the ring buffer, oldest first
          detected,     \* totalProcessed; a claim is its number
          stream,       \* the stream connections
          subscribers,  \* the connection behind each subscriber id
          reader        \* a client that reads page after page (external)

claimVars == <<buffer, detected>>
streamVars == <<stream, subscribers>>
vars == <<rateVars, claimVars, streamVars, reader>>

NotOpened == [at |-> "none"]
Connection == {NotOpened} \cup [at : {"open", "closed"}, client : Client, since : 0..MaxTime]

TypeOK ==
    /\ RateTypeOK
    /\ detected \in 0..MaxClaims /\ Len(buffer) <= claimBufferSize
    /\ buffer = [k \in 1..Len(buffer) |-> detected - Len(buffer) + k]
    /\ stream \in [Stream -> Connection]
    /\ DOMAIN subscribers \subseteq Client \X (0..now)
    /\ \A k \in DOMAIN subscribers : stream[subscribers[k]].at = "open"
    /\ reader.there \cup reader.seen \subseteq 1..detected

Init == /\ RateInit
        /\ buffer = <<>> /\ detected = 0
        /\ stream = [s \in Stream |-> NotOpened]
        /\ subscribers = <<>>
        /\ reader = [at |-> "idle", page |-> 1, seen |-> {}, there |-> {}]

\* A request beyond the rate is answered with 429; others that change nothing
\* count against it all the same.
TooMany(c) == Refuse(c) /\ UNCHANGED <<claimVars, streamVars, reader>>
OtherRequest(c) == Allow(c) /\ UNCHANGED <<claimVars, streamVars, reader>>

------------------------------------------------------------------------------
(* Claims and their pages *)

\* push(): the newest claim evicts the oldest from a full buffer.
HandleClaim ==
    /\ detected < MaxClaims /\ detected' = detected + 1
    /\ buffer' = LET b == Append(buffer, detected + 1)
                 IN IF Len(b) > claimBufferSize THEN Tail(b) ELSE b
    /\ UNCHANGED <<rateVars, streamVars, reader>>

\* query(): page p, newest first.
Slice(s, p) == LET from == (p - 1) * PageLimit
                   to == IF from + PageLimit < Len(s) THEN from + PageLimit ELSE Len(s)
               IN SubSeq(s, from + 1, to)
PageOf_OldestFirst(p) == Slice(buffer, p)
PageOf(p) == Slice(Reverse(buffer), p)

\* GET /claims: the client asks for the next page while the answer says hasNext.
ReadPage(c) ==
    /\ Allow(c)
    /\ LET first == reader.at # "reading"
           p == IF first THEN 1 ELSE reader.page
           hasNext == p * PageLimit < Len(buffer)
       IN reader' = [at |-> IF hasNext THEN "reading" ELSE "done",
                     page |-> p + 1,
                     seen |-> Range(PageOf(p)) \cup (IF first THEN {} ELSE reader.seen),
                     there |-> IF first THEN Range(buffer) ELSE reader.there]
    /\ UNCHANGED <<claimVars, streamVars>>

------------------------------------------------------------------------------
(* Live streams *)

\* handleClaimStream(): the subscriber id is made of the client and the instant.
SubscriberId_OfClient(c, t) == <<c, 0>>
SubscriberId(c, t) == <<c, t>>

\* subscribe() maps the id to the new connection.
OpenStream(c, s) ==
    /\ Allow(c)
    /\ stream[s] = NotOpened
    /\ stream' = [stream EXCEPT ![s] = [at |-> "open", client |-> c, since |-> now]]
    /\ LET id == SubscriberId(c, now)
       IN subscribers' = [k \in (DOMAIN subscribers) \cup {id} |->
                            IF k = id THEN s ELSE subscribers[k]]
    /\ UNCHANGED <<claimVars, reader>>

\* The connection closes: its id is unsubscribed.
CloseStream(s) ==
    /\ stream[s].at = "open"
    /\ stream' = [stream EXCEPT ![s].at = "closed"]
    /\ LET id == SubscriberId(stream[s].client, stream[s].since)
       IN subscribers' = [k \in (DOMAIN subscribers) \ {id} |-> subscribers[k]]
    /\ UNCHANGED <<rateVars, claimVars, reader>>

Next == \/ (Tick \/ Cleanup) /\ UNCHANGED <<claimVars, streamVars, reader>>
        \/ HandleClaim
        \/ \E c \in Client : TooMany(c) \/ OtherRequest(c) \/ ReadPage(c)
        \/ \E c \in Client, s \in Stream : OpenStream(c, s)
        \/ \E s \in Stream : CloseStream(s)

Spec == Init /\ [][Next]_vars

------------------------------------------------------------------------------
\* An open stream hears the next claim, whatever other streams come and go,
\* unless another one was opened by the same client at the same instant: then
\* they share a subscriber id, and the last one to come or go decides.
OpenStreamsHear ==
    \A s \in Stream :
        stream[s].at = "open" =>
            \/ s \in Range(subscribers)
            \/ \E t \in Stream \ {s} : /\ stream[t] # NotOpened
                                      /\ stream[t].client = stream[s].client
                                      /\ stream[t].since = stream[s].since

\* A client that has read page after page while claims arrived and old ones were
\* evicted has seen every claim that was there from beginning to end.
PagesMissNothing == reader.at = "done" => (reader.there \cap Range(buffer)) \subseteq reader.seen

=============================================================================
