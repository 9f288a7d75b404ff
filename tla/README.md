# PumpKit: a TLA+ model of the bots' monitoring and bookkeeping

PumpKit is a set of Telegram bots around the pump.fun programs on Solana. Each
bot finds transactions (log subscriptions or polling), decides which of them
matter, and announces them once. This directory models the parts where that
goes wrong in ways a unit test hardly reaches: queues that drain themselves,
polls that overlap, handlers that test before an `await` and mark after it,
failover shared by concurrent calls, and files written by a timer.

Paths below are relative to `src/packages/`. "Run" names refer to
`PROJECT.json`; `X.cfg` beside a module is its TLC configuration.

## Execution model

Every bot is one Node.js process: code between two `await`s is atomic, and
everything else interleaves. The models therefore have **one action per
stretch of code between awaits**: a timer firing, a promise settling, a
callback. grammY handles Telegram updates one after the other
(`bot.start()`), so two commands never interleave with each other, but they
do with monitor callbacks, timers and unfinished handlers of those callbacks.
External services (the RPC node, Telegram, the price service) answer with any
value of a small set, or fail, at any later time.

## Inventory

| Component | State | Operations | What is hard | What makes it correct |
|---|---|---|---|---|
| Request queue, `channel/src/claim-monitor.ts:43-120`, same class in `monitor/src/monitor.ts:37-121` | `queue`, `inFlight`, `processing` | `enqueue`, `drain`, `finally` of a task | `drain()` is re-entered while it sleeps; the loop test is not repeated after the sleep | concurrency limit, FIFO, no lost wake-up, every accepted request ends |
| Direct RPC monitor of the claim bot, `claim/src/rpc-monitor.ts` | cursors, `processedSigs`, `TxQueue`, timers, subscriptions | `start`, `stop`, `pollAll`, log callbacks, `processTransaction` | `setInterval` polls overlap; cursor read before and written after the request; subscriptions outlive `stop()` | one announcement per residency in the cache; cursors skip nothing silently |
| First-claim feed, `channel/src/index.ts`, `claim-tracker.ts` | `githubUserFirstClaim`, counts, save timer, five files | the claim handler, `markGithubUserClaimed`, debounced save, load | test and mark are several awaits apart; save is 5 s late; Telegram may deliver and still answer with an error | a second announcement only from a handler that tested before the first was marked or after its mark was lost, restored accounts stay silent, no unsaved change without a timer |
| RPC failover, `channel/src/rpc-fallback.ts`, `core/src/solana/rpc.ts` | current endpoint, fail counts, cooldowns | `withFallback`, `reportSuccess`, `reportFailure`, `rotate` | concurrent calls report against the endpoint current when they *settle* | calls end; the bot finds a healthy endpoint; the limit is never passed unnoticed |
| Call ledger of the tracker bot, `tracker/src/bot.ts`, `db.ts`, `ath-tracker.ts` | calls and users tables, pending timers, block list | auto, button and command calls, cancel, wipe, block, ATH polling | polls overlap; prices are late; calls are wiped or finalized while a price is awaited | points add up; highs never fall; old calls are finalized |
| Claim monitor of the monitor bot, `monitor/src/monitor.ts` | cursors, `processedSignatures`, `RpcQueue`, poll timer, subscriptions | `/monitor`, `/stopmonitor`, polling, logs, throttled processing | `stop()` and `start()` during a poll; a page is enqueued and processed later | nothing skipped silently; a stopped monitor falls silent; queued requests end |
| Claim monitor of the channel bot, `channel/src/claim-monitor.ts:122-490` | subscriptions, heartbeat timers, poll timer, cursors, `processedSignatures`, `RpcQueue` | WebSocket with heartbeat, reconnection, polling fallback, rounds over all programs | each reconnection leaves its predecessor's interval running; one error gives up a whole round; polls and logs share cache and queue | there is always a feed; a silent socket is replaced; one announcement per residency; cursors skip nothing silently; polling reaches every program |
| Event monitor of the channel bot, `channel/src/event-monitor.ts` | seen set, cursor, heartbeat timers | WebSocket and polling | polling marks a signature before the function that skips marked ones; reconnections leave intervals behind | one announcement per residency; what is marked is announced; polling sees every transaction |
| Social fee index, `channel/src/social-fee-index.ts` | PDA to token map | `bootstrap`, `addMapping` | lookups race the bootstrap | environment action `Link` of `ClaimFeed` |
| Launch and event monitors, `monitor/src/token-launch-monitor.ts`, `pump-event-monitor.ts` | as the monitor's | as the monitor's | polls overlap each other and the log handlers; a signature is marked before its transaction is fetched | the same three |
| Monitor API, `monitor/src/api/` | watches, claim ring, rate windows, stream subscribers, webhook deliveries | CRUD, claim fan-out, `check`, pages, `deliverWithRetry` | timestamps dropped by two cleanups; pages shift while they are read; ids shared by streams; retries, eviction | the rate holds over any window; pages miss nothing that stays; open streams hear; the watch limit holds; a receiver is posted to again only after a late answer |
| Watches and launch monitors of the monitor bot, `monitor/src/store.ts`, `launch-store.ts`, `bot.ts` | watch list and its file, monitor entries | `/watch`, `/unwatch`, `/monitor`, `/stopmonitor`, `/alerts`, claim, creator change and broadcast handlers | lists found before an await are used after it, while commands replace entries | who is concerned all the while hears, nobody hears twice or without having been concerned |
| Tracked items of the claim bot, `claim/src/store.ts`, `bot.ts` | items and their file | `/add`, `/remove`, the claim handler | two lookups between the items and the notices; one chat may match twice | the same |
| Relay client, `claim/src/monitor.ts` | socket, reconnect delay and timer | connect, close, reconnect | a close during a start, a stop during a retry | the connection comes back until it is stopped |
| Core monitors, `core/src/monitor` | subscriptions, reconnect timers, seen set | subscribe, poll, reconnect, stop | a pending reconnect across `stop()`/`start()` | a running monitor gets subscribed |
| Dashboard feed, `web/src/hooks/usePumpPortalFeed.ts` | socket, retry timers, trade window | connect effect, close, retry, track a mint | timers of earlier runs fire late; a new connection knows no subscription | the connection comes back, with the subscriptions of the window |
| Core retry, storage, shutdown, `core/src/util`, `storage`, `shutdown.ts` | files | save, load, retry | | not modelled, see below |
| Formatters, API clients, web dashboard, configuration, logger, event decoding | none, or caches | pure functions and I/O | | not modelled: no control state |

Interactions: a monitor calls the handler it was given (`onClaim`) without
awaiting it; the handler awaits clients and Telegram; the channel bot's poller,
queue tasks and index bootstrap share one `RpcFallback`. Stores are read and
written by handlers and, in the channel and tracker bots, by timers.

## The modules

| Module | Models | Kind |
|---|---|---|
| `TaskQueue` | what a bounded, rate-limited FIFO of tasks promises | abstract specification |
| `RpcQueue` | the class `RpcQueue` | implements `TaskQueue` |
| `RpcClaimMonitor`, `MCRpcClaimMonitor` | `claim/src/rpc-monitor.ts` | component |
| `RpcClaimMonitorProofs` | theorems about it | proofs |
| `ChannelClaims`, `MCChannelClaims` | `ClaimMonitor` of `channel/src/claim-monitor.ts` on what `TaskQueue` promises (INSTANCE) | composition |
| `ChannelClaimsProofs` | theorems about it | proofs |
| `EventMonitors` | `channel/src/event-monitor.ts`, `monitor/src/token-launch-monitor.ts`, `monitor/src/pump-event-monitor.ts` | component |
| `EventMonitorsProofs` | theorems about it | proofs |
| `ClaimFeed` | the GitHub path of the channel bot's claim handler with `claim-tracker.ts` | component |
| `ClaimAlerts` | `claim/src/store.ts`, `claim/src/bot.ts` | component |
| `WatchAlerts` | `monitor/src/store.ts` and the claim and creator change handlers of `monitor/src/bot.ts` | component |
| `MonitorBroadcasts` | `monitor/src/launch-store.ts` and the broadcasts of `monitor/src/bot.ts` | component |
| `Endpoints` | what the two failover managers share | declarations |
| `RpcFallback` | `channel/src/rpc-fallback.ts` | component |
| `CoreRpcFallback` | `core/src/solana/rpc.ts` | component |
| `CoreMonitors` | the six monitors of `core/src/monitor` | component |
| `RelayClient` | `claim/src/monitor.ts` | component |
| `WebFeed` | `web/src/hooks/usePumpPortalFeed.ts` | component |
| `TrackerCalls` | the tracker bot's calls | component |
| `TrackerCallsProofs` | theorems about it | proofs |
| `ApiClients` | the clients the API's parts share | declarations |
| `RateLimiter` | `monitor/src/api/rateLimiter.ts` | component |
| `ApiClaims` | the claims, pages and streams of the monitor's API (`claimBuffer.ts`, `server.ts`) behind the rate limiter (EXTENDS) | composition |
| `ApiWatches` | the API's watches and webhooks (`apiStore.ts`, `webhooks.ts`, `server.ts`) | component |
| `MonitorClaims`, `MCMonitorClaims` | `monitor/src/monitor.ts` on top of `RpcQueue` (INSTANCE) | composition |
| `MonitorClaimsProofs` | theorems about it | proofs |
| `MCConnections`, `MCBots`, `MCMonitorBot` | several components side by side, for TLC | instances |
| `ConnectionProofs` | theorems about `RpcQueue`, `WebFeed`, `CoreRpcFallback` and `RpcFallback` | proofs |
| `BotsProofs` | theorems about `ClaimFeed`, `ClaimAlerts`, `WatchAlerts`, `MonitorBroadcasts` and the run `MCBots` that holds them | proofs |
| `ApiProofs` | theorems about `RateLimiter`, `ApiClaims` and `ApiWatches` | proofs |

The three instances `MCConnections` to `MCMonitorBot` put components that share
no state into one run: a variable
`part`, chosen in the initial state, says which of them runs, and the others
stay as they start. What is checked is each component by itself; the fairness
of a component that could move initially is guarded by its `part`. Properties
of components that are included by INSTANCE have their names again in the MC
module.

Operators whose name has a suffix, such as `Settle_NoRedrain`, are variants of
the operator before the underscore with a plausible bug; no specification uses
them. Each property is known to fail when its variant replaces the original.

### RpcQueue and TaskQueue

A request is a ticket, numbered as it is accepted. `queue`, `inFlight` and
`processing` are the fields; `running` is the set of `processFn()` calls that
have not settled and `sleepers` counts the `drain()` activations that sleep
for the throttle. `Enqueue` is `enqueue()` with the `drain()` it calls,
`Wake` is the code after the sleep up to the next one, `Settle(t)` is the
`finally()` handler with its `drain()`. Whether the throttle sleeps is
nondeterministic, since the interval that has elapsed is not modelled.
`started == accepted - Len(queue)` is the refinement mapping to `TaskQueue`,
where an accepted request is started once, in order, under the limit.

### RpcClaimMonitor

`poll[i]` is an activation of `pollAll()`: it has asked for a page with the
cursor it read, has its answer, or pauses between programs. `initial` counts
the 2-second timeouts, which `stop()` does not clear; `wsSubs` counts
subscriptions per program, which `stop()` cannot remove since it addresses
`this.connection` and they were made on another object. `drain`, `current` and
`queue` are `TxQueue`, which processes one signature at a time, and
`processed` is the cache with its eviction of all but the newest entries.
`PollContinue` is the rest of `pollProgram()` after its await: cursor first,
then the page, newest first, through `EnqueueAll`, the synchronous run of
`enqueue()` calls. `evicted`, `notified`, `dropped` and `skipped` are history.

### ChannelClaims

`loop[l]` is a poll loop: its timer is set, it has asked for a program's page,
has the answer, or works the page off. `pollAllPrograms()` awaits only the
request, so while a loop is at `page` nothing else is enabled and no
interleaving is added by taking one signature per step. `heartbeats` counts the
intervals `startWebSocket()` has set (two stands for any larger number):
`reconnectWebSocket()` clears none of them on success and, on failure, the one
in `wsHeartbeatTimer` (`tracked`) only. `ReconnectFails` is the case in which
`startWebSocket()` throws, which only the constructor of its `Connection` can
do, before any subscription. Older intervals then fail again and start one
more poll loop each time; `MaxLoops` bounds the loops told apart.

The request queue is used through `TaskQueue`, the specification `RpcQueue` is
shown to implement. `asked` keeps the signature behind each ticket. `credit`
(insertions of a signature into the cache less its announcements) and
`passedOver` (signatures dropped for one of the reasons the code has) are
history. Left out: `stop()`, which only the end of the process calls, and the
watchdog, which logs and flips a health flag.

### ClaimFeed

`handler[h]` is a run of the claim handler for one claim instruction, at the
await it has reached: candidate tokens, the context lookups, the post that was
asked for, the reply. `Delivered` (external) and `Acked`/`Refused` split a
post into Telegram's side and the reply, so that a delivered post may look
failed; `withRetry()` then posts again, and a photo falls back to text.
An exception of a lookup or of the formatting ends a handler, as the outer
`catch` does. `disk`, `saveTimer`, `Save`, `Load` and `Restart` are the five
files of `claim-tracker.ts`, written and read one after the other; a save may
fail at each of them, and a torn one ends the next load. What the third and the
fifth hold is kept, of the others only whether they are torn.
`LooksFirst` is the 1 % test of the account's on-chain lifetime total.
Link models the fee index, whose knowledge decides the key (`userId:mint` or
`userId`).

`restored`, `saveFailed`, `heard`, `late` and `lapsed` are history. `heard` are
the claims the channel showed in this run, also those whose reply was lost. The
test of `Check` and the mark of `Acked` are several awaits apart, so that two
handlers of an account can both pass the test; `late` are those that passed it
while another one of the same key was past it, or after the key had `lapsed`:
the full set evicted it, or a lost reply left a shown claim unmarked. Of two
announcements of one key one is always `late` (`FirstClaimsOnly`). The 1 % of the
test lets a claim pass that is at least a hundred times what its account withdrew
before; `Dwarfing` are those claims, and a later transaction of an announced
account is announced only for one of them. That an account is announced once,
as the code's comment has it (`AnnouncedOnce`), is what `feed_twice` refutes:
the handlers of one transaction all get the event that comes last in its logs.

### EventMonitors

The three monitors share subscription, polling, cursor and cache, and differ in
order: the channel bot marks whatever it sees and dispatches from the logs, the
monitor bot marks what carries an event (`Carrying`) and then fetches the
transaction, whose launch the filter for GitHub links may still drop
(`Relevant` are those announced); the channel bot trims its cache after a page,
the others on each insertion. `kind`, chosen in `Init`, says which one runs.
`poll[i]` is a run of `poll()`: the monitor bot's interval starts one whatever
others are under way, the channel bot's chain schedules its successor. `GoOn`
is the stretch of `poll()` from one await to the next. `credit` (insertions
into the cache less announcements), `taken`, `told`, `lost`, `polled`,
`skipped` are history.

### ClaimAlerts, WatchAlerts and MonitorBroadcasts

A handler is a record: the items or watches it found and has not come to, and
the await it is at. Commands change the lists between its steps, and a restart
cuts it and reads back the file, which a failed save may have left old or torn.
`since` and `wanting` say, for each handler, which items were of interest all
the while and which at some moment; the properties compare the messages with
these two sets. In `MonitorBroadcasts` `/monitor` replaces a chat's entry while
a broadcast still refers to the old one (`replaced`), and `DeactivateMonitor`
changes the entry in place, as in the code.

### CoreMonitors, RelayClient and WebFeed

What is counted is timers: a reconnection that was scheduled cannot be called
back (`reconnects`), a subscription that was replaced cannot be removed
(`listeners` and `owned`), and of the dashboard's retry timers only the last is
in the reference (`timers` and `inRef`). `server` is what the service has this
connection subscribed to.

### RpcFallback and CoreRpcFallback

`call[c]` is a `withFallback()` call with the endpoint its attempt uses.
Cooldown expiry times are modelled by their order: `cooled` lists the
endpoints in cooldown, earliest first. `Succeed`, `FailRetryable` and
`FailFatal` report against `current`, as the code does, not against the
endpoint that was used. In `CoreRpcFallback` the `while` loop of the call is
spelled out (`Skip`, `Try`, `Exhausted`), since its skip branch is where calls
hang. `MCConnections` gives each its own fields.

### TrackerCalls

`job` holds the registrations under way (30-second timer, then the price
lookup), `pending` the map `pendingAutoCalls`, `busy` the update that is being
handled: while it awaits a lookup no other update is. `calls` and `points`
are the tables. A poll is a snapshot it walks through, `on` being the call
whose price it awaits; `RunLoop` is the stretch up to the next await, which
finalizes every call past its 48 hours it meets. `Raised`, `WithAth` and
`Credit` are `updateCallAth()`, which reads the row again.

### MonitorClaims

Composes polling and subscriptions with `RpcQueue` (`Queue == INSTANCE
RpcQueue`): every action of the queue takes place inside a step of the
monitor, together with what the monitor does around it. A task that starts
marks its signature at once (`MarkStarted`), tries up to three times
(`Retry`), and ends (`Finish`). The synchronous loop over a page is one step
per signature (`EnqueueNext`); while `burst` is not empty nothing else is
enabled, so no interleaving is added. `Loop` has two elements per `start()`:
the initial poll, whose timeout is not stored, and the rescheduling loop.

### RateLimiter and ApiClaims

No handler of the API that these modules cover awaits anything, so a request is
one step: it is refused (`TooMany`), or it is allowed and served (`OtherRequest`,
`ReadPage`, `OpenStream`). A bucket's timestamps are kept as positions in
`allowedAt`, the history of allowed requests, so that what the filter of
`check()` and the cleanup timer drop can be compared with what was allowed.
`buffer` and `detected` are the ring and its `totalProcessed`; `subscribers` is
the map of `claimBuffer.ts`, whose key the server makes of the client and the
instant. `reader` is an external client that follows `hasNext`; `there` and
`seen` are what the buffer held when it began and what its pages have shown.
The filters of `query()` are left out.

### ApiWatches

`POST /watches` and `PATCH /watches/:id` await the body (`Receive`) and then do
all their work in one stretch (`CreateWatch`, `UpdateWatch`, `Rejected`), the
write of the file included; `DELETE` awaits nothing. `hook[h]` is a run of
`deliverWithRetry()` for one claim and URL: `Process` is the receiver's side
(external), `PostFails` the rejection or the timeout, which may come after the
receiver processed the post (`late`), `Retry` the backoff timer. A restart ends
deliveries and reads back what the file holds.

## Runs

Deadlock is checked in `core_hang`, whose counterexample is no deadlock;
elsewhere a bot may really have nothing left to do, so it is not. Bounds are as
small as they can be with every hazard still present; each mutant named in
`PROJECT.json` is found under the same bounds.

| Run | Bounds | Shows |
|---|---|---|
| `connections` | queue: 2 waiting, 2 slots, 8 requests; core monitors: 3 subscriptions, 2 pending reconnections; feed: window of 2 of 3 mints, 3 timers; RPC managers: 3 endpoints of which the first or none answers, limit 3 as in the code, 3 callers, 2 of the core manager | no lost wake-up, refinement of `TaskQueue`, every accepted request settles; each client gets its connection back; the feed is subscribed to its window; calls settle, an endpoint in cooldown is used only when all are, failover succeeds; the core manager's current endpoint has failures left |
| `claim` | 2 transactions of which one mentions both programs, 2 overlapping polls, queue, page and cache of 1, one `start()` | at most one announcement per residency; the cursor passes nothing silently; queued signatures are taken up |
| `channel` | 2 programs, 2 transactions of which one mentions both, page, cache and queue of 1, one loop | a feed is always alive, silence is noticed, one announcement per residency, cursor coverage, polling reaches every program |
| `bots` | feed: one account (two keys), set limit 1, one retry, two transactions, either of one or two claims of 1 or 100 lamports with lost replies and two handlers at a time, or of one claim of 1 lamport with one restart and faulty saves; claim bot: 2 chats, one token, 2 handles, 2 items, one claim, one restart; watches: 2 chats, 2 wallets, 3 watches, one event, one restart; broadcasts: 2 chats, 2 kinds, one event | a second announcement of a key only from a handler that tested too early or after the mark was lost, none of what was restored; memory is covered by a scheduled save, handlers end; each chat concerned hears once |
| `calls` | 2 users, 2 jobs, 2 overlapping polls, market caps 10, 12 and 60 (points -1 and 3, two rises of one call) | ledger balances, highs stand, old calls are finalized |
| `monitor` | API: one client, 3 streams, rate 2 in a window of 2 out of 5 instants, ring of 2, pages of 1, 4 claims; watches: 2 requests at once, limit 1, 2 retries, one restart; claim monitor: one program, 3 transactions, pages of 2, queue and cache of 1, 3 polls | the rate holds over any window, open streams hear, pages miss nothing that stays; the watch limit; posted again only if late; cursor coverage |
| `monitor_live` | 2 programs, 2 starts, polling or subscriptions, 2 attempts | stopped monitors fall silent, queued requests end |
| `events` | each of the 3 monitors with 2 events, of which the filter drops one, pages of 2, a cache of 1, 2 polls at once | one announcement per residency, what is marked is announced, polling sees every transaction |
| `core_hang`, `feed_twice`, `monitor_twice`, `event_polls` | smallest that show it | disagreements of code and documentation, below |

In `claim`, a cache of one makes every eviction case happen with two
signatures; a page of one makes a page limit bite with two; a queue of one
makes a refusal possible. Repeated `start()`s, which double the log
subscriptions, are outside that run and covered by the theorem
`MonitorOncePerResidency`, which holds for any number of them.

In `channel`, one poll loop is enough for the liveness properties; the safety
properties were also checked with two overlapping loops and one program
(1.4 million states), and `ChannelAnnouncedPerResidency` holds for any number.

In `bots`, the amounts 1 and 100 make both a repeat and a claim that dwarfs the
one before it happen, and two claims per transaction make two handlers pass the
test in one go. Overlaps and lost replies are in one part of the run, restarts
and faulty saves in another (`part` is `"feed"` or `"restarts"`), since together
they are too many; the theorems hold for both together. One claim
per chat list is enough for the alerts: handlers of different claims share
nothing but the list.

In `monitor`, the limiter treats clients apart, so one shows it; pages of one
and a ring of two make both an eviction and a shift happen between two pages.
The theorems about it hold for any number of clients, streams and claims. Two
requests that await their bodies together are what the watch limit could fail on.

In `events`, a cache of one evicts at each second signature, also one that is
being fetched; two slots let a poll overlap its successor.

`Failover` depends on the number of concurrent calls. With the limit of 3 and
up to 3 calls it holds; with more callers than the limit, late failures charged
to the endpoint that has just become current can rotate away from the healthy
endpoint for ever (TLC shows it with 2 endpoints, limit 2 and 4 callers, and
with limit 2 and 3 callers). In steady operation the poller and the one-slot
request queue share an instance; four bootstrap requests join them only for
the first minute or so.

The type invariants are theorems, and those of the modules without proofs were
checked once on instances of the same size; the runs leave them out.

### Fairness

* `RpcQueue`, `MonitorClaims`, `RpcClaimMonitor`: sleeps end (`setTimeout`) and
  started requests settle. web3.js requests settle or are rejected; a request
  that never does is outside the model, and with one slot it would stop the
  queue.
* `ChannelClaims`: an interval whose socket is silent reconnects or fails to;
  timers fire and code between awaits runs on. A round starts with the first
  program and is given up at the first error, so weak fairness would let the
  last program be starved: `PollingSees` assumes that a program asked about
  again and again is answered some time (strong fairness of `Answer` for each
  loop and program). Requests of the queue need no fairness here.
* `EventMonitors`: timers fire, requests settle, and a request made again and
  again is answered some time (strong fairness of `Answer`).
* `CoreMonitors`, `RelayClient`, `WebFeed`: timers fire, React runs its effects,
  a socket opens or closes; a connection asked for again and again is taken
  some time (strong fairness of the opening). Starts, stops and toggles are free.
* `ClaimFeed`: the steps of a running handler; fetches have timeouts, Telegram
  replies or errs. Saves, restarts and the environment have no fairness.
* `RpcFallback`: weak fairness of each caller's next call and its settling,
  not of success: failures may go on as long as the endpoint is not healthy.
* `TrackerCalls`: the interval keeps firing and price lookups settle; ageing,
  messages and wipes are free.
* `ApiClaims`, `ApiWatches`, `ClaimAlerts`, `WatchAlerts`, `MonitorBroadcasts`:
  none; they state safety only.
* `CoreRpcFallback` (for `core_hang`): the loop runs on and attempts settle;
  the counterexample is a cycle of the loop itself.

## Proofs

TLAPS proves, for every value of the constants allowed by the named
assumptions (`QueueAssumption`, `MonitorAssumption`, `ChannelClaimsAssumption`,
`EndpointsAssumption`, `RateAssumption`, `ApiAssumption`, `FeedAssumption`,
`WebAssumption`, `TrackerAssumption`, `EventMonitorsAssumption`,
`MonitorClaimsAssumption`) and the hypotheses a theorem names. Every safety and
action property that a passing run checks is stated by one of them. The
hypotheses are that a placeholder is no value of its kind: `NoneIsNoToken` and
`NoneIsNoMonitor` (no token and no entry of a chat is the absent one); a cfg makes
each of these a model value.

| Theorem | Says |
|---|---|
| `QueueTypeOK`, `QueueConcurrencyBound`, `QueueNoLostWakeup` | the invariants of `RpcQueue` |
| `QueueImplementsTaskQueue` | `Spec` implies the abstract `TaskQueue` |
| `MonitorTypeOK`, `MonitorOncePerResidency` | types, and no claim is announced twice while remembered |
| `MonitorCursorCoverage` | no cursor passes a transaction that was not dealt with |
| `ChannelTypeOK`, `ChannelAnnouncedPerResidency` | types, and no transaction is announced more often than it entered the cache |
| `ChannelFeedAlive`, `ChannelCursorCoverage` | a running monitor has a feed; no cursor passes a transaction that was not dealt with |
| `FallbackTypeOK`, `FallbackFreshStart` | types, and the current endpoint of the core manager has failures left |
| `BotTypeOK`, `BotCooldownNeedsAll` | types of the bots' manager; an endpoint in cooldown is chosen only when all are |
| `CallsTypeOK`, `CallsLedgerBalances`, `CallsHighsStand` | types; the points of a user are the sum over the calls that count; highs never fall and final calls never change |
| `ClaimMonitorTypeOK`, `ClaimMonitorCursorCoverage` | the monitor bot's claim monitor: types, and no cursor passes a transaction without a reason |
| `MonitorsTypeOK`, `MonitorsAnnounceOnce`, `MonitorsAnnounceMarked` | the event monitors: types, one announcement per residency, what is marked is announced |
| `BotsTrackersHear`, `BotsWatchersHear`, `BotsBroadcastReaches` | who is concerned all the while hears, once, and nobody else; from `ItemsTrackersHear`, `WatchingWatchersHear`, `CastsReach` about each component alone |
| `ApiTypeOK`, `ApiRateRespected` | types, and no window holds more than the allowed requests |
| `ApiPagesMissNothing`, `ApiOpenStreamsHear` | a reader has seen every claim that stayed; an open stream is subscribed unless its id is shared |
| `WatchesTypeOK`, `WatchesWatchLimit`, `WatchesPostedAgainOnlyIfLate` | types; no client owns more watches than allowed; a receiver is posted to again only after a late answer |
| `FeedTypeOK` | types and limits of memory, files and handlers, also after a load; posts are attempted as often as `withRetry()` allows |
| `FeedRestoredStaysSilent`, `FeedUnsavedIsScheduled` | restored accounts stay silent; what memory has and the files have not is scheduled to be saved |
| `FeedSubscribedToWindow` | an open dashboard feed is subscribed to exactly the mints of its window |
| `FeedFirstClaimsOnly` | of two announcements of a key in one run one has a handler that tested before the other was marked or after its mark was lost; a later transaction of an announced account is announced only if its claim dwarfs the earlier ones; for any number of claims in a transaction |

**RpcQueue.** `ConcurrencyBound` is not inductive: a sleeping activation starts
a task without testing the limit again. The invariant `IInv` adds that
`processing` holds exactly when the loop condition does (`Flag`), that at most
one activation sleeps, and that tickets in the queue are consecutive and the
running ones older (`Consistent`). So whenever an activation wakes, the
condition it tested before its sleep still holds: only tasks ending and
requests arriving can have happened, since every other activation returned at
the flag. `DrainKeeps` states this once for both callers of `drain()`.

**RpcClaimMonitor.** `OncePerResidency` is strengthened by what holds of the
signature being fetched: it was put into the cache after its last
announcement, hence `notified < Residencies` (`DrainInv`), and the cache has no
duplicates. `RememberKeeps` is the core: adding a new signature raises its
residencies by one, and eviction trades membership for a count.

**ChannelClaims.** `AnnouncedPerResidency` (`credit[s] >= 0`) says nothing about
tickets that may still announce, so it is strengthened to
`Cardinality(Open(s)) <= credit[s]`: each waiting or running ticket of a
signature was paid for by an insertion. `EnqueueKeeps` opens a ticket together
with the insertion, `StartFromKeeps` moves it from waiting to running, and
`FinishTask` closes it, announcing at most once. `FeedAlive` is inductive with
the types: a step that ends a subscription starts a poll loop
(`StartPollingPolls`), and no step of a loop ends it (`PollStepPolls`).

**The cursors** (`CInv`, in `RpcClaimMonitorProofs` and `ChannelClaimsProofs`).
`CursorCoverage` speaks of the cursor now, a request of the cursor as it was when
it was sent, and the node of its history when it answers. What connects them is
that *dealt with* (`Handled`) only grows (`Grows`): tickets, refusals and cut off
signatures stay recorded, and an eviction from the claim bot's cache trades
membership for a count (`ProcessHandles`, `KnownStays`). So a loop that asked with
`until` keeps everything up to `until` dealt with, although other loops move the
cursor back and forth meanwhile (`LoopKnown`, `AskKnown`); the answer is exactly
what comes after `until` (`NewerIsAfter`, `AnswerKnown`, from the ledgers having
no duplicates); hence all that the new cursor passes was dealt with before, is on
the page or is cut off (`ContinueKeepsCursor`). In the channel bot the page is
worked off one signature at a time and at most one loop is at a page (`OnePage`),
so that a loop asking for the next program finds nothing hidden in a page; in the
claim bot it is one step, for which `EnqueueHandles` shows that a run of
`enqueue()` calls accepts or refuses each signature. The two runs use pages of one
signature; the theorems hold for every page size.

**CoreRpcFallback.** `CoreTypeOK /\ FreshStart` is inductive; `rotate()` gives the
new endpoint a zero count and `reportFailure()` rotates at the limit.

**RpcFallback.** The invariant is that the endpoints in cooldown are a list without
repetition; putting one aside keeps that, since an endpoint already in the list
leaves its place (`PutAsideIs`). The search of `rotate()` starts after the current
endpoint and reaches every other one (`AfterReaches`), so it settles on one in
cooldown only when it found none ready; the current one has just been put aside
itself, hence all are (`NextIs`). Which endpoint a late failure is charged to does
not matter for this.

**MonitorClaims** (`IInv` of `MonitorClaimsProofs`). The argument of the other two
monitors' cursors below, on top of the real queue instead of its abstraction:
tickets in the queue are consecutive and the running ones older (`Fifo`), so the
ticket a call of `drain()` starts was not running before and is the one whose
signature the same step marks (`DrainStarts`, `MarkStarted`); what is in the cache
was marked once, hence `handled`. A signature thus goes from the page to the queue,
from there to `handled`, and is never forgotten (`Grows`). `Reached(p, c)` says
that everything up to `c` in the ledger of `p` is dealt with, and holds for each
cursor and for the signature each request in flight asks from.

**EventMonitors.** `AnnouncedPerResidency` (`credit[s] >= 0`) is strengthened to
`Covered`: the insertions of a signature that are not announced yet are at least
as many as its fetches under way, which are the polls at `fetch` and the log
handler. A fetch starts with an insertion and an announcement ends one; the new
poll state moves one element in or out of a set of polls (`FetchersMove`). That a
poll does not meet the signature it has just fetched again in the rest of its page
needs pages without repetition (`PageFresh`), which comes from the ledger. The
channel bot announces in the step that inserts, from its log handler or from a
poll whose mark was trimmed away while it fetched, so that for it `credit[s] >= 0`
is inductive as it stands. `credit` is cut at `MaxCredit`, a bound for TLC; were
the cut below the number of fetches there can be at once, it would lose insertions
that are still owed an announcement, so `EventMonitorsAssumption` asks that it
exceed the number of polls. The code has no such cut.

**TrackerCalls.** `LedgerBalances` says that a user's points, with what a wipe took,
are the sum over the calls of that user. The module forms the sum with a fold over a
set, whose result depends on no order only because addition has none; that is
proved for sets of numbers by taking a smallest counterexample instead of by
induction (`SumsExist`, `SumsUnique`, `SumsRemove`, resting on `Least`). From them: a
change of one call changes its user's sum by the difference (`AwardedChanged`), a new
call and a final one change no sum (`AwardedPut`, `AwardedSame`), so `updateCallAth()`,
which adds the difference of a call's points to its user's, keeps the balance also
when the price is older than the row. `NewInv` (registrations under way are not in
the table) makes each call new when it is written.

**ApiClaims.** The rate holds because a bucket still has every request of the
last window (`HoldsWindow`): neither the filter nor the cleanup drops a younger
one. Were request `n + 1` allowed within a window of request `n + 1 -
rateLimitMax`, all those between would be in the bucket, which is `rateLimitMax`
of them (`RecentIsFew`). Pages miss nothing because a reader about to ask for
page `p` has seen every claim that was there and is newer than
`detected - (p - 1) * PageLimit`: a claim that arrives between two pages pushes
older ones to later pages, where they are shown again, never to earlier ones.
For streams, each subscriber id belongs to an open stream of that client and
instant (`OpenStreamKeeps`, `CloseStreamKeeps`).

**ApiWatches** (hypothesis `Bounds`: the numbers are naturals). The limit is a
property of the file too: a restart reads it back, possibly an older one. `Kept`
(finite, ids unique and issued, no client over the limit) is therefore an
invariant of both `watches` and the file, and a save puts one of three values
there, all of them kept (`SavedKeeps`). That creations awaiting their bodies
together cannot pass the limit is the step from test to insertion being one
stretch of code (`AddKeeps`). For webhooks, `Delivery` accounts at each stage for
posts received, late answers and attempts: at `processed` one post is ahead of
the late answers, after a failure none is.

**ClaimFeed.** `FeedTypeOK` adds the limits to `IInv`, of the set and of the file as
well, for a load takes over what the file holds without a check:
`markGithubUserClaimed()` adds an absent account and drops the oldest one past the
limit (`MarkWithin`, `CheckWithin`). `RestoredStaysSilent` needs that what is
restored is in the set and that no handler past its test holds such a key: the
test of `Check` comes first, and only a restart adds to `restored`, when no
handler runs. For `UnsavedIsScheduled` a torn file implies a failed save.
`FirstClaimsOnly` speaks of what was shown; what carries it is `OneInv` about the
handlers of a key that are past the test together with those that showed it
(`Active`): of two of them one is late. A handler joins them in `Check`, either
with none there, or with one at work, or after the key has lapsed, because a shown
key is in the set, has lapsed or its handler is still at it (`HeardInv`); only a
key that is not in the set passes (`CheckFirsts`). For the second half, lifetime
totals grow along the chain, so all but the first claim of an account exceed it by
what came before (`GrowingInv`), and what passes the test looks first (`WorkInv`).

**ClaimAlerts** (hypothesis `NoneIsNoToken`). While a handler is under way, the items
that were of interest all the while are among those tracked now, and these among
those that ever were; each of the first is still in the list the handler works off,
has had its message, or is hidden by a lookup that missed (`Hearing`), in which case
the property asks nothing. Before the first lookup answers, the list holds the
items of the token only, and the handle of the creator must be one that was found
tracked (`Asking`): this is the stretch in which commands can change what the list
will be (`CreatorKeeps`, `InfoKeeps`). A chat has a message exactly if it is in
`notified`, which is why two items of a chat bring one (`Told`).

**WatchAlerts.** `/watch` refuses a second watch of a chat on a wallet, and the file
holds a list that was made that way, so each chat has at most as many watches of
interest as the event has wallets (`OnePerWallet`). The messages a chat has and its
watches still in the handler's list are together at most that many (`Bounded`), and a
watch that stood all the while is in the list or has brought its message.

**MonitorBroadcasts** (hypothesis `NoneIsNoMonitor`). `/monitor` replaces the entry of
a chat while a broadcast holds the old one, and `/alerts` and `/stopmonitor` change
the one in the map; `replaced` keeps what the broadcast refers to. The invariant
says of a chat still left that it had no message, and that the entry the broadcast
holds lets it through only if the chat was let through at some moment; and of a chat
let through all the while that it had its message, or is left and held by an entry
that lets it through (`UnderWay`). `SinceKeeps` covers every command at once.

**MCBots.** A behaviour of the run moves one part; `BotsInv` says that each part
keeps its invariant while it runs and is as it starts while another one does.

**WebFeed.** Besides what `SubscribedToWindow` says, the invariant has that no mint
is in the window twice: a new one is appended only if it is not followed yet
(`AppendNew`), so the one that leaves is in no other place (`TailDrops`), and the
set of subscriptions changes by exactly these two (`LaunchKeeps`).

The helpers `PutAside` and `FirstOther` of `RpcFallback` and the function built in
`MonitorBroadcasts` are written out with `CHOOSE` and a function constructor instead
of operators on sequences whose definitions the provers do not see into; they say
what the loops of the code do.

Only model-checked: the liveness properties (`EveryAcceptedSettles`, `GetsSubscribed`,
`RelayReturns`, `DashboardReturns`, `QueuedIsTakenUp`, `QuietSocketReplaced`,
`PollingSees`, `HandlersEnd`, `BotCallsSettle`, `Failover`, `OldCallsAreFinalized`,
`StopEnds`, `QueuedIsFinished`), since fairness and ENABLED are outside TLAPS' reach,
and with them all of `CoreMonitors` and `RelayClient`, of which nothing else is
checked. The four runs that expect a violation have no theorem, of course.

## Known divergences

With a run:

* `core_hang`: with every endpoint in cooldown the synchronous skip loop of
  `core/src/solana/rpc.ts:98-104` renews each cooldown it meets and never ends.
* `feed_twice`: the handler is called for each claim instruction of a transaction
  without waiting, each with the last event of the logs; both pass the test of
  `channel/src/index.ts:186` before either marks (271), and one account is
  announced twice, the other never (its comment, line 197: first claims only).
* `monitor_twice`: a transaction of two programs is queued twice before it is
  marked, and announced twice (`monitor/src/monitor.ts:466`).
* `event_polls`: the channel bot's event polling marks a signature before the
  function that skips marked ones, so it announces nothing
  (`channel/src/event-monitor.ts:279`, against its header, line 22).

Seen while modelling and reproduced by the modules, without a run of their own:

* `channel/src/index.ts:187`: a claim of a hundred times what the account withdrew
  before passes the 1 % test; if its handler overlaps the first one's, or the
  account's key has changed meanwhile, the account is posted again.
* `channel/src/claim-tracker.ts:131`: a restart within the 5-second debounce
  announces an account again (its header, lines 12-13, promises otherwise).
  `restored` therefore holds what the file gave back, not what was posted.
* `channel/src/index.ts:276` says a failed post is retried on the next claim
  event, but the next claim's lifetime total makes it a repeat (187-191).
* `tracker/src/bot.ts:360` answers that a call was cancelled; a second message
  with the same token replaced the timer handle, and cancelling stops only the
  last timer (`bot.ts:451`).
* `channel/src/claim-monitor.ts:336-343`: failed reconnections leave the heartbeat
  intervals of earlier connections running, and each may start another poll loop;
  `channel/src/event-monitor.ts` does the same.
* `channel/src/claim-monitor.ts:346-388`: the log path marks every transaction as
  processed but queues social fee claims only; polling, which queues all, then
  skips the ones marked.
* `channel/src/rpc-fallback.ts:111` says each endpoint is tried once; below the
  failure limit the same one is tried again.
* `monitor/src/monitor.ts:421` calls the cursor "newest"; after the in-place
  `reverse()` it is the oldest of the page, so later polls get the rest again.
* `tracker/src/bot.ts:366,416`: buttons and commands do not test the block list.
* `tracker/src/db.ts:166`: a call that never rises keeps 0 points, not the -1 of
  the README's table.
* `monitor/src/api/server.ts:518`: two streams of one client opened in the same
  millisecond share an id; the last one wins, and closing either silences both
  (`claimBuffer.ts:45` says all subscribers are notified). `OpenStreamsHear`
  makes the exception. The `catch` that unsubscribes a subscriber that throws
  (`claimBuffer.ts:49`) is left out: the only subscriber writes to a response, and a
  write after the end is reported by an event, not thrown.
* `claim/src/bot.ts:208-209`: `/remove @handle` removes nothing, since handles are
  stored without their `@`.
* `monitor/src/bot.ts`: `/unwatch` of a wallet that begins with a digit removes the
  watch with that number in the chat's list, if there is one; a broadcast under
  way still sends to a chat after its `/stopmonitor`; `/alerts` of a
  chat without an entry makes an active one, also with `off`.
* `core/src/monitor`: after `stop()` and `start()` with a reconnection pending,
  subscriptions are leaked and a stopped monitor still hears; the `ClaimMonitor`
  polls a URL as a public key, so every poll fails.
* `fallbackToPolling()` of the launch and event monitors is unreachable: the
  handlers whose errors it counts catch their own.

## Assumptions and what is abstracted

Transactions, accounts and tokens are members of small sets; decoding, texts,
amounts beyond what a test compares and the length of intervals are left out.
History variables (marked in the modules) do not influence any action.
`getSignaturesForAddress` returns the newest signatures after the cursor from a
ledger that only grows; forks are not modelled. `MAX_ENTRIES` bounds the
claimed set only, whose eviction the code does on insertion; the key in use is
what the index knows at that moment, so an account may have two keys.

## Not modelled

* `docs/protocol/pump-official/idl/*.ts`, more than half of the repository's
  TypeScript, are generated descriptions of the on-chain programs: data, no steps.
* Formatters, API clients, event decoding, the SDK bridge, configuration, logger,
  health endpoints and the pages of the dashboard keep no state between calls, or
  a cache whose staleness nothing depends on. A failed request is a null or an
  exception there and a free choice in the models.
* `core/src/util/retry.ts`, `core/src/shutdown.ts`, `core/src/storage`: utilities
  nothing else in the repository composes: a loop with a delay, a list of
  callbacks called at a signal, files read and written whole.
* The graduation handler and the creator fee claims of the channel bot post
  without keeping state; the tracker's leaderboards, cards and statistics are
  queries.
* `channel/src/social-fee-index.ts`: decoding, and a map that only grows, which is
  `Link` of `ClaimFeed`.

## What is left

1. As theorems: `CoreMonitors` and `RelayClient` have liveness properties only; what
   TLAPS can prove of them is the safety part of the argument (a connection that is
   down has a timer or an attempt that will bring it back), and the same for
   `PollingSees` and `OldCallsAreFinalized`. Of the
   instances, theorems cover `BotsSpec` for the three alert parts and `ConnectionsSpec` for the
   bots' manager; for the other parts they are about the component's own specification.
2. The API's watches and its claims in one state, with the matching of a claim
   between the buffer and the webhooks.
3. The core package's storage below a bot, once a bot uses it.
