------------------------------ MODULE ApiWatches ------------------------------
(***************************************************************************)
(* The watches of the monitor bot's REST API and their webhooks            *)
(* (packages/monitor/src/api: apiStore.ts, webhooks.ts and the handlers of *)
(* server.ts).  Creating and updating a watch await the request's body;    *)
(* everything after it, the file included, is one stretch of code.  A      *)
(* claim is posted once to each URL of the watches it matches, again after *)
(* a failure.  Wallets are compared without regard to case: the members of *)
(* Wallet stand for different ones.                                        *)
(***************************************************************************)
EXTENDS ApiClients, Naturals, FiniteSets

CONSTANTS Wallet, Url,
          Request,              \* requests whose body may be awaited at a time
          maxWatchesPerClient,  \* MAX_WATCHES_PER_CLIENT, 100 by default
          MAX_RETRIES,          \* 3 in the code
          MaxWatches,           \* bound: watches created
          MaxHooked,            \* bound: claims detected
          MaxRestarts,          \* bound: restarts
          NoUrl, Torn

VARIABLES watches,      \* apiWatches, the watches of the process
          idCounter,
          file,         \* what data/api-watches.json holds
          request,      \* the handlers that await a body
          claims,       \* the wallet of each claim detected
          hook,         \* deliverWithRetry() per claim and URL, and its history
          restarts

watchVars == <<watches, idCounter, file>>
apiWatchVars == <<watchVars, request, claims, hook, restarts>>

Id == 1..MaxWatches
Watch == [id : Id, client : Client, wallet : Wallet, url : Url \cup {NoUrl}, active : BOOLEAN]
Claim == 1..MaxHooked
Hook == Claim \X Url

Idle == [for |-> "none"]
Body == [for : {"create"}, client : Client] \cup [for : {"update"}, client : Client, id : Id]
Stages == {"none", "posted", "processed", "backoff", "delivered", "givenUp", "crashed"}
Unused == [at |-> "none", attempt |-> 0, received |-> 0, late |-> 0]

Owned(ws, c) == {w \in ws : w.client = c}
Named(ws, c, i) == {w \in Owned(ws, c) : w.id = i}

WatchesAreTyped ==
    /\ watches \subseteq Watch /\ idCounter \in 0..MaxWatches
    /\ \A w \in watches : w.id <= idCounter
    /\ \A v, w \in watches : v.id = w.id => v = w
    /\ file = Torn \/ file \subseteq Watch
    /\ request \in [Request -> Body \cup {Idle}]
    /\ DOMAIN claims \subseteq Claim /\ \A n \in DOMAIN claims : claims[n] \in Wallet
    /\ hook \in [Hook -> [at : Stages, attempt : 0..MAX_RETRIES, received : Nat, late : Nat]]

WatchesInit == /\ watches = {} /\ idCounter = 0 /\ file = {}
               /\ request = [r \in Request |-> Idle]
               /\ claims = <<>> /\ hook = [h \in Hook |-> Unused] /\ restarts = 0

------------------------------------------------------------------------------
(* Watches *)

\* saveApiWatches() after a change: a failure is logged; the file keeps its old
\* contents or a part of the new.
Saved == file' \in {watches', file, Torn}

\* POST /watches and PATCH /watches/:id up to the await of the body.
Receive(r, body) == /\ request[r] = Idle
                    /\ request' = [request EXCEPT ![r] = body]
                    /\ UNCHANGED <<watchVars, claims, hook, restarts>>

\* handleCreateWatch() after the body: the limit, active duplicates, addApiWatch().
CreateWatch_LimitLast(r, wallet, url) ==
    /\ request[r].for = "create"
    /\ LET c == request[r].client
       IN /\ Cardinality(Owned(watches, c)) <= maxWatchesPerClient
          /\ ~\E w \in Owned(watches, c) : w.wallet = wallet /\ w.active
          /\ idCounter < MaxWatches /\ idCounter' = idCounter + 1
          /\ watches' = watches \cup {[id |-> idCounter', client |-> c, wallet |-> wallet,
                                       url |-> url, active |-> TRUE]}
    /\ Saved
    /\ request' = [request EXCEPT ![r] = Idle]
    /\ UNCHANGED <<claims, hook, restarts>>
CreateWatch(r, wallet, url) ==
    /\ request[r].for = "create"
    /\ LET c == request[r].client
       IN /\ Cardinality(Owned(watches, c)) < maxWatchesPerClient
          /\ ~\E w \in Owned(watches, c) : w.wallet = wallet /\ w.active
          /\ idCounter < MaxWatches /\ idCounter' = idCounter + 1
          /\ watches' = watches \cup {[id |-> idCounter', client |-> c, wallet |-> wallet,
                                       url |-> url, active |-> TRUE]}
    /\ Saved
    /\ request' = [request EXCEPT ![r] = Idle]
    /\ UNCHANGED <<claims, hook, restarts>>

\* handleUpdateWatch() after the body: URL and activity of a watch of the client.
UpdateWatch(r, url, active) ==
    /\ request[r].for = "update"
    /\ \E w \in Named(watches, request[r].client, request[r].id) :
           watches' = (watches \ {w}) \cup {[w EXCEPT !.url = url, !.active = active]}
    /\ Saved
    /\ request' = [request EXCEPT ![r] = Idle]
    /\ UNCHANGED <<idCounter, claims, hook, restarts>>

\* The other ends of both: a bad body, 404, 409.
Rejected(r) == /\ request[r] # Idle
               /\ request' = [request EXCEPT ![r] = Idle]
               /\ UNCHANGED <<watchVars, claims, hook, restarts>>

\* DELETE /watches/:id, which awaits nothing.
DeleteWatch(c, i) ==
    /\ Named(watches, c, i) # {}
    /\ watches' = watches \ Named(watches, c, i)
    /\ Saved
    /\ UNCHANGED <<idCounter, request, claims, hook, restarts>>

------------------------------------------------------------------------------
(* Webhooks *)

\* findMatchingApiWatches() and dispatchWebhooks(): the URLs a claim is posted to.
Targets(wallet) == {w.url : w \in {v \in watches : v.active /\ v.wallet = wallet}} \ {NoUrl}

\* handleClaim() calls it with the matches: the first posts go out at once.
DispatchWebhooks(wallet) ==
    /\ Cardinality(DOMAIN claims) < MaxHooked
    /\ LET n == Cardinality(DOMAIN claims) + 1
       IN /\ claims' = [k \in 1..n |-> IF k = n THEN wallet ELSE claims[k]]
          /\ hook' = [h \in Hook |-> IF h[1] = n /\ h[2] \in Targets(wallet)
                                     THEN [hook[h] EXCEPT !.at = "posted"] ELSE hook[h]]
    /\ UNCHANGED <<watchVars, request, restarts>>

Step(h, next) == hook' = [hook EXCEPT ![h] = next]
hookRest == <<watchVars, request, claims, restarts>>

\* The receiver processes the post (external).
Process(h) == /\ hook[h].at = "posted"
              /\ Step(h, [hook[h] EXCEPT !.at = "processed", !.received = @ + 1])
              /\ UNCHANGED hookRest

\* Its answer is in time.
Answered(h) == /\ hook[h].at = "processed"
               /\ Step(h, [hook[h] EXCEPT !.at = "delivered"])
               /\ UNCHANGED hookRest

\* The post fails, or its answer is later than the timeout though it was
\* processed: deliverWithRetry() waits, or gives up after the last attempt.
PostFails_GivesUpEarly(h) ==
    /\ hook[h].at \in {"posted", "processed"}
    /\ Step(h, [hook[h] EXCEPT
                   !.at = IF hook[h].at = "posted" /\ hook[h].attempt < MAX_RETRIES
                          THEN "backoff" ELSE "givenUp",
                   !.late = IF hook[h].at = "processed" THEN @ + 1 ELSE @])
    /\ UNCHANGED hookRest
PostFails(h) ==
    /\ hook[h].at \in {"posted", "processed"}
    /\ Step(h, [hook[h] EXCEPT
                   !.at = IF hook[h].attempt < MAX_RETRIES THEN "backoff" ELSE "givenUp",
                   !.late = IF hook[h].at = "processed" THEN @ + 1 ELSE @])
    /\ UNCHANGED hookRest

\* The backoff timer fires, whatever has become of the watch.
Retry(h) == /\ hook[h].at = "backoff"
            /\ Step(h, [hook[h] EXCEPT !.at = "posted", !.attempt = @ + 1])
            /\ UNCHANGED hookRest

HookStep(h) == Process(h) \/ Answered(h) \/ PostFails(h) \/ Retry(h)

\* The process ends at any moment and starts again: loadApiWatches() reads the
\* file, ids go on from the time of the start.
Restart == /\ restarts < MaxRestarts /\ restarts' = restarts + 1
           /\ watches' = IF file = Torn THEN {} ELSE file
           /\ request' = [r \in Request |-> Idle]
           /\ hook' = [h \in Hook |-> IF hook[h].at \in {"posted", "processed", "backoff"}
                                      THEN [hook[h] EXCEPT !.at = "crashed"] ELSE hook[h]]
           /\ UNCHANGED <<idCounter, file, claims>>

WatchesNext == \/ \E r \in Request : \/ \E body \in Body : Receive(r, body)
                                     \/ \E w \in Wallet, u \in Url \cup {NoUrl} :
                                            CreateWatch(r, w, u)
                                     \/ \E u \in Url \cup {NoUrl}, a \in BOOLEAN :
                                            UpdateWatch(r, u, a)
                                     \/ Rejected(r)
               \/ \E c \in Client, i \in Id : DeleteWatch(c, i)
               \/ \E w \in Wallet : DispatchWebhooks(w)
               \/ \E h \in Hook : HookStep(h)
               \/ Restart

WatchesSpec == WatchesInit /\ [][WatchesNext]_apiWatchVars

------------------------------------------------------------------------------
\* Creations of one client that await their bodies together never give it more
\* than maxWatchesPerClient watches, nor does what a restart reads back.
WatchLimit == \A c \in Client : Cardinality(Owned(watches, c)) <= maxWatchesPerClient

\* A receiver gets a claim again only after an answer of its own came too late,
\* at most once per attempt, and a delivery is given up only after all attempts.
PostedAgainOnlyIfLate ==
    \A h \in Hook :
        /\ hook[h].received <= hook[h].late + 1
        /\ hook[h].received <= MAX_RETRIES + 1
        /\ hook[h].at = "givenUp" => hook[h].attempt = MAX_RETRIES
        /\ hook[h].at = "delivered" => hook[h].received = hook[h].late + 1

=============================================================================
