----------------------------- MODULE RpcFallback -----------------------------
(***************************************************************************)
(* The RPC connection manager of the channel bot                           *)
(* (packages/channel/src/rpc-fallback.ts).  The poller, the request queue  *)
(* and the index bootstrap share one instance: their withFallback() calls  *)
(* interleave at the await of each attempt.  An attempt uses the endpoint  *)
(* that is current when it is made; its result is reported against the     *)
(* endpoint that is current when it settles.                               *)
(***************************************************************************)
EXTENDS Endpoints, Sequences, SequencesExt

CONSTANTS Healthy,   \* choices of the endpoints that always answer
          Fatal      \* may a call fail with an error that is not retried?

VARIABLES current,   \* currentIndex
          fails,     \* failCounts
          cooled,    \* endpoints in cooldown, the earliest to expire first
          call,      \* the withFallback() calls
          healthy    \* endpoints that always answer (the environment)
vars == <<current, fails, cooled, call, healthy>>

\* A caller between calls; rejected tells whether its last call failed with a
\* retryable error.
Idle(rejected) == [on |-> 0, attempt |-> 0, rejected |-> rejected]

TypeOK == /\ current \in Endpoint
          /\ fails \in [Endpoint -> Nat]
          /\ cooled \in Seq(Endpoint) /\ IsInjective(cooled)
          /\ call \in [Caller -> [on : Endpoint, attempt : 0..NumUrls, rejected : BOOLEAN]]
          /\ healthy \in Healthy

Init == /\ current = 0
        /\ fails = [e \in Endpoint |-> 0]
        /\ cooled = <<>>
        /\ call = [c \in Caller |-> Idle(FALSE)]
        /\ healthy \in Healthy

------------------------------------------------------------------------------
\* cooldownUntil.set(): the cooldown of e begins, or begins again.
PutAside(cool, e) ==
    Append(IF Contains(cool, e) THEN RemoveAt(cool, CHOOSE k \in DOMAIN cool : cool[k] = e)
           ELSE cool, e)

\* The endpoint rotate() chooses after prev: the next one out of cooldown, or
\* of the others the one whose cooldown ends first.
After(prev, i) == (prev + i) % NumUrls
FirstOther(prev, cool) ==
    cool[CHOOSE k \in DOMAIN cool :
             cool[k] # prev /\ \A j \in DOMAIN cool : cool[j] # prev => k <= j]
NextEndpoint_CooledFirst(prev, cool) ==
    IF \E k \in DOMAIN cool : cool[k] # prev THEN FirstOther(prev, cool) ELSE After(prev, 1)
NextEndpoint(prev, cool) ==
    LET ready == {i \in 1..(NumUrls - 1) : ~Contains(cool, After(prev, i))}
    IN IF ready # {}
       THEN After(prev, CHOOSE i \in ready : \A j \in ready : i <= j)
       ELSE FirstOther(prev, cool)

\* reportFailure(): the count of the current endpoint goes up, and at the limit
\* it starts a cooldown and another endpoint becomes the current one.
ReportFailure_NeverRotates ==
    /\ fails' = [fails EXCEPT ![current] =
                    IF @ < MAX_CONSECUTIVE_FAILS THEN @ + 1 ELSE @]
    /\ UNCHANGED <<current, cooled>>
ReportFailure ==
    /\ fails' = [fails EXCEPT ![current] =
                    IF @ < MAX_CONSECUTIVE_FAILS THEN @ + 1 ELSE @]   \* capped: bound
    /\ IF fails[current] + 1 >= MAX_CONSECUTIVE_FAILS /\ NumUrls > 1
       THEN LET cool == PutAside(cooled, current)
            IN cooled' = cool /\ current' = NextEndpoint(current, cool)
       ELSE UNCHANGED <<current, cooled>>

Attempt(c, e, n) == call' = [call EXCEPT ![c] = [on |-> e, attempt |-> n, rejected |-> FALSE]]

\* withFallback() is called: its first attempt.
Call(c) ==
    /\ call[c].attempt = 0
    /\ Attempt(c, current, 1)
    /\ UNCHANGED <<current, fails, cooled, healthy>>

\* The attempt resolves: reportSuccess().
Succeed(c) ==
    /\ call[c].attempt > 0
    /\ fails' = [fails EXCEPT ![current] = 0]
    /\ call' = [call EXCEPT ![c] = Idle(FALSE)]
    /\ UNCHANGED <<current, cooled, healthy>>

\* A 429, 5xx or connection error: the next attempt, or the error is thrown.
FailRetryable_Forever(c) ==
    /\ call[c].attempt > 0 /\ call[c].on \notin healthy
    /\ ReportFailure
    /\ Attempt(c, current', call[c].attempt)
    /\ UNCHANGED healthy
FailRetryable(c) ==
    /\ call[c].attempt > 0 /\ call[c].on \notin healthy
    /\ ReportFailure
    /\ IF call[c].attempt < NumUrls
       THEN Attempt(c, current', call[c].attempt + 1)
       ELSE call' = [call EXCEPT ![c] = Idle(TRUE)]
    /\ UNCHANGED healthy

\* Any other error is thrown at once and counts for nothing.
FailFatal(c) ==
    /\ Fatal /\ call[c].attempt > 0 /\ call[c].on \notin healthy
    /\ call' = [call EXCEPT ![c] = Idle(FALSE)]
    /\ UNCHANGED <<current, fails, cooled, healthy>>

\* 60 seconds after an endpoint was put aside its cooldown is over.
CooldownEnds ==
    /\ cooled # <<>>
    /\ cooled' = Tail(cooled)
    /\ UNCHANGED <<current, fails, call, healthy>>

Settle(c) == Succeed(c) \/ FailRetryable(c) \/ FailFatal(c)

Next == CooldownEnds \/ \E c \in Caller : Call(c) \/ Settle(c)

\* The bot keeps calling, and every request settles.
Fairness == \A c \in Caller : WF_vars(Call(c)) /\ WF_vars(Settle(c))

Spec == Init /\ [][Next]_vars
FairSpec == Spec /\ Fairness

------------------------------------------------------------------------------
\* A call whose attempts all fail with retryable errors is rejected in the end:
\* rotation by other calls cannot keep it going.
CallsSettle == \A c \in Caller : call[c].attempt > 0 ~> call[c].attempt = 0

\* While one endpoint answers, calls keep ending with success or an error that is
\* not retried: failures that settle late and are counted against the wrong
\* endpoint cannot keep the bot on dead ones, so that from some time on every
\* call ends with a retryable error.
Failover == healthy # {} =>
                []<>(\E c \in Caller : call[c].attempt = 0 /\ ~call[c].rejected)

\* The bot turns to an endpoint that is still in cooldown only when every
\* endpoint is, however late failures moved the current one.
CooldownNeedsAll ==
    [][current' # current /\ Contains(cooled', current')
          => \A e \in Endpoint : Contains(cooled', e)]_vars

=============================================================================
