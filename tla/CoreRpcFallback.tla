--------------------------- MODULE CoreRpcFallback ---------------------------
(***************************************************************************)
(* The RPC connection manager of the core package                          *)
(* (packages/core/src/solana/rpc.ts).  Unlike the channel bot's copy,      *)
(* withFallback() loops until every endpoint was tried, rotates past       *)
(* endpoints in cooldown, and rotate() puts the endpoint it leaves into    *)
(* cooldown, failed or not.  The skipping is synchronous: while a call is  *)
(* in it nothing else in the process runs, and no 60 seconds pass.         *)
(***************************************************************************)
EXTENDS Endpoints

CONSTANT None   \* no call

VARIABLES current,   \* currentIndex
          fails,     \* failCounts
          cooling,   \* endpoints whose cooldownUntil lies ahead
          tried,     \* per call, the endpoints it has tried
          waiting,   \* calls at the await of an attempt
          looping    \* the call at the test of the while loop, if any
coreVars == <<current, fails, cooling, tried, waiting, looping>>

CoreTypeOK == /\ current \in Endpoint
              /\ fails \in [Endpoint -> 0..MAX_CONSECUTIVE_FAILS]
              /\ cooling \subseteq Endpoint
              /\ tried \in [Caller -> SUBSET Endpoint]
              /\ waiting \subseteq Caller
              /\ looping \in Caller \cup {None}

CoreInit == /\ current = 0 /\ fails = [e \in Endpoint |-> 0] /\ cooling = {}
            /\ tried = [c \in Caller |-> {}] /\ waiting = {} /\ looping = None

------------------------------------------------------------------------------
\* rotate(), with the counts f so far.
Rotate_KeepsCount(f) ==
    /\ cooling' = cooling \cup {current}
    /\ current' = (current + 1) % NumUrls
    /\ fails' = f
Rotate(f) ==
    /\ cooling' = cooling \cup {current}
    /\ current' = (current + 1) % NumUrls
    /\ fails' = [f EXCEPT ![current'] = 0]

ReportFailure ==
    LET f == [fails EXCEPT ![current] = @ + 1]
    IN IF f[current] >= MAX_CONSECUTIVE_FAILS THEN Rotate(f)
       ELSE fails' = f /\ UNCHANGED <<current, cooling>>

Return(c) == /\ waiting' = waiting \ {c} /\ looping' = None
             /\ tried' = [tried EXCEPT ![c] = {}]

Call(c) == /\ looping = None /\ c \notin waiting
           /\ looping' = c
           /\ UNCHANGED <<current, fails, cooling, tried, waiting>>

\* The loop passes over an endpoint in cooldown, and gives up when that leads
\* back to one it has tried.
Skip(c) == /\ looping = c /\ tried[c] # Endpoint /\ current \in cooling
           /\ Rotate(fails)
           /\ IF current' \in tried[c] THEN Return(c)
              ELSE UNCHANGED <<tried, waiting, looping>>

\* The loop makes an attempt on the current endpoint.
Try(c) == /\ looping = c /\ tried[c] # Endpoint /\ current \notin cooling
          /\ tried' = [tried EXCEPT ![c] = @ \cup {current}]
          /\ waiting' = waiting \cup {c}
          /\ looping' = None
          /\ UNCHANGED <<current, fails, cooling>>

\* Every endpoint was tried: 'All RPC endpoints exhausted' is thrown.
Exhausted(c) == /\ looping = c /\ tried[c] = Endpoint
                /\ Return(c)
                /\ UNCHANGED <<current, fails, cooling>>

Succeed(c) == /\ looping = None /\ c \in waiting
              /\ fails' = [fails EXCEPT ![current] = 0]
              /\ Return(c)
              /\ UNCHANGED <<current, cooling>>

\* A retryable error: reported, then back to the test of the loop.
FailRetryable(c) == /\ looping = None /\ c \in waiting
                    /\ ReportFailure
                    /\ waiting' = waiting \ {c} /\ looping' = c
                    /\ UNCHANGED tried

FailFatal(c) == /\ looping = None /\ c \in waiting
                /\ Return(c)
                /\ UNCHANGED <<current, fails, cooling>>

\* A cooldown runs out, while the process is not inside the loop.
CooldownEnds(e) == /\ looping = None /\ e \in cooling
                   /\ cooling' = cooling \ {e}
                   /\ UNCHANGED <<current, fails, tried, waiting, looping>>

Loop(c) == Skip(c) \/ Try(c) \/ Exhausted(c)
Settles(c) == Succeed(c) \/ FailRetryable(c) \/ FailFatal(c)

CoreNext == \/ \E c \in Caller : Call(c) \/ Loop(c) \/ Settles(c)
            \/ \E e \in Endpoint : CooldownEnds(e)

\* The loop runs on, requests settle and cooldowns end.
CoreFairness == /\ \A c \in Caller : WF_coreVars(Loop(c)) /\ WF_coreVars(Settles(c))
                /\ \A e \in Endpoint : WF_coreVars(CooldownEnds(e))

CoreSpec == CoreInit /\ [][CoreNext]_coreVars
CoreFairSpec == CoreSpec /\ CoreFairness

------------------------------------------------------------------------------
\* An endpoint that becomes the current one has its full number of failures
\* before it: whatever other calls report against it, it is left when they
\* reach the limit and starts from zero when the rotation comes back.
FreshStart == fails[current] < MAX_CONSECUTIVE_FAILS

\* "All RPC endpoints exhausted" (the error withFallback() throws): a call made
\* while endpoints are in cooldown is answered or rejected all the same.
CallsSettle == \A c \in Caller : looping = c ~> looping # c

=============================================================================
