# Verification of Ticker watch

TLA+ models of the Ticker watch code (the repository beside this directory), the
TLC configurations that check them and the proofs TLAPS checks. Source paths
below are relative to the repository.

## The system

One process writes prices, any number of API processes read them, browsers show
them. PostgreSQL keeps the durable record, Redis a cache of it, Centrifugo fans
publications out to browsers.

| Component | Source | State | Operations |
|---|---|---|---|
| Price service | `src/watchlist/price_service/` | `_last_published`, `_effective_at`, `_upstream_prices`, source, calls in progress | start (wait for schema, reconcile the source, sync the catalog, warm the cache), tick, the three writes, stop |
| Price sources | `price_service/sources/` | the walk of the simulator, the vendor's HTTP client | fetch, catalog |
| Price cache | `shared/cache.py` | Redis `price:*` keys with a TTL | guarded write, pipelined guarded writes, MGET, flush |
| Price table | `modules/prices/prices_controller.py`, `migrations/` | `latest_prices` | guarded upsert, read, delete by source, relabel |
| Snapshot read path | `modules/prices/prices_handler.py` | none between reads | cache first, table for the misses; source reconciliation |
| Auth | `modules/auth/`, `shared/security.py`, `api/routers/auth.py`, `api/deps.py` | `users`, `refresh_tokens` | register, login, refresh (rotate, detect reuse), logout |
| Watchlist | `modules/watchlist/`, `api/routers/watchlist.py` | `watchlists`, `watchlist_items` | view, add, remove |
| Securities | `modules/securities/` | `securities` | search, catalog upsert |
| Realtime token | `modules/realtime/` | none | mint a connection token |
| Push client | `client/src/usePushPrices.js` | subscriptions, buffer, applied rows | connect, resync, apply, drain |
| Poll client | `client/src/usePollPrices.js` | rows, previous prices, timer | refresh |
| Browser session | `client/src/api.js`, `App.jsx`, `LoginForm.jsx` | localStorage, session, the refresh in flight | request with one retry, refresh, log in, log out |
| Search bar | `client/src/SearchBar.jsx` | query, results, request counter | debounce, request, answer |
| Vendor stand-in | `vendor_mock/` | its own walk | prices, tickers |
| Operations | `tools/`, `Makefile`, Compose files | none | migrate, seed, reset prices, load generator, benchmarks |

How they interact. The price service calls PostgreSQL, Redis and Centrifugo
concurrently from one tick; the API reads Redis, then PostgreSQL, for each
snapshot; a push client holds a WebSocket to Centrifugo and reads snapshots over
HTTP; the browser session sits under every HTTP call of the client. Nothing
notifies anybody of a change in a store: the publication and the snapshot are
two independent paths from the same tick to the same screen.

What is hard. Three writes of a tick that finish in any order or not at all; the
process dying between two of them; late writes of an abandoned tick; two stores
with guards that differ at equality; a cache whose keys expire; a restart that
reconstructs memory from one of the two stores; publications at most once; a
client merging two streams of different age; rotation of a token raced by a
second use of it; polls and searches answered out of order; a boot in which health,
schema and first tick could wait for each other.

## What is modelled, and how it corresponds to the code

**PriceQuotes** is the vocabulary: a quote is a record of price, stamp
(`effective_at`) and source, a missing row or key is `NoQuote` with stamp 0, and
the two guards are `CacheAccepts` (the compare-and-set script: only a strictly
older write is rejected) and `TableAccepts` (the `WHERE` of the upsert: only a
strictly newer row replaces). The table compares times; the script compares their
text, which **Timestamps** builds and orders as strings: the digits of the second,
the character after them, the digits of the fraction (`ToIso`, `After`).

**PriceService** is the process and the stores it writes.

| State | In the code |
|---|---|
| `phase` | where `start()`, `run_forever()` or `tick()` is suspended |
| `last`, `eff`, `upstream` | `_last_published`, `_effective_at`, `_upstream_prices` |
| `calls[owner][kind]` | the rows a write has still to deliver; `detached` when its tick was abandoned |
| `failed` | which writes of the last tick failed (their counters went up) |
| `clock` | the wall clock, as stamps handed out |
| `table`, `cache`, `feed` | `latest_prices`, the `price:*` keys, the last publication per channel |

An action is the code between two awaits: `Tick` is everything from reading the
prices to the `gather`; the store's side of a call is an action per key
(`CacheWrite`), per statement (`TableWrite`) or per publish (`FeedWrite`).
`CallFails` is an error an `except` clause names, `Raise` any other: `gather`
returns at once and the other two calls go on without an owner. What a tick reads
(`CurrentPrices`) is the previous answer or a fresh one: the vendor's covers any of
the tickers, the simulator's the tickers it started with (those with a row, when
there are rows) and no other. `Crash` may come
at any point, `Stop` between ticks, `Expire` and `RedisRestart` lose keys. The
source a start is configured with is chosen anew each time.

**GuardedStores** is the abstract specification: two stores whose quotes are
replaced only by newer (table) or not older (cache) ones, and removed only in the
ways the code has. `PriceService` implements it with `table` and `cache` mapped to
themselves (`StoresPromise`).

**PushClient** is `usePushPrices.js`. A price is its stamp. `rows` is
`byTicker.current`, `subs`, `buffering` and `buffer` are the refs of those names, `wire`
the publications on their way to the client, in order per channel; `resync` is two
actions, up to its `await` (`StartResync`, inside `Connect` and `Refresh`) and after it
(`Apply` or `Fail`), so several may be under way. The price service, the API and
Centrifugo are reduced to what the client can see: a tick writes the cache and the table
and publishes in any order, and a publication reaches the channels subscribed at that
moment. A snapshot is read as `SnapshotReader` reads it: membership and the MGET
(`Answer`), which finds nothing when Redis is down, then the SELECT for the tickers the
cache did not have (`ReadTable`), with keys expiring and prices moving in between. A
change of the watchlist (`Toggle`; an add may be of what is there) is followed by a
refresh when its answer arrives; when the answer is lost after the commit, the handlers
of `App.jsx` throw before their `refresh()` and the screen is not told. `sync`, `missed`
and `unseen`, the tickers whose change was not answered since a snapshot was last read,
are history for the properties.

**RefreshTokens** is `auth_handler.py` over the `refresh_tokens` table, for one
user. A request is in a slot and moves from statement to statement; the
transaction of a rotation is one step, and does not look again at the row it
retires, as in the code. **BrowserSession** composes it with the browsers:
`store` is the token in localStorage, `session` the one in React state, one slot
per tab and kind of request stands for the guard `refreshing` of `api.js`.
`ended`, `orphaned` and `reloads` are history.

A tab can be loaded again at any moment (`Reload`): React state is read from
localStorage, nobody hears the answers of the old page, and a refresh that has
reached the server goes on there, in a slot of its own.

**Watchlists** is the watchlist API of one user, statement by statement, over a pool
of connections: a request takes one before its first statement (`Acquire`) and holds
it until its answer is made, while the prices are read too. The default watchlist is
read first and created on a miss, by any number of first requests at once. **Page**
composes it with the page of a browser under `TRANSPORT=poll`: `usePollPrices.js`
(`Poll` when the timer fires, `Show` for an answer, which compares with the previous
prices to decide what flashes), adding and removing with the refresh that follows,
and `SearchBar.jsx` (debounce, request counter, answers in any order). A price is its
stamp and only moves forward, which is what `GuardedStores` promises; a query stands
for its results. Adding empties the box, which is no change of state and keeps the list
when the box was empty before (`Add`).

**Lifecycle** is what `PriceService` leaves out: time, the catalog and the order in
which the stack comes up.

| State | In the code |
|---|---|
| `stage` | `make bootstrap`: bring up and wait for health, migrate, done |
| `schema`, `rows`, `seed` | what the service finds: migrations, `securities`, the seed file |
| `answers`, `quoted` | whether the vendor answers; the tickers the source has a price for |
| `phase`, `wake` | the await the process is in, and the time until it ends |
| `source`, `asked`, `upstream` | the source, `_ticker_to_id`, `_upstream_prices` |
| `since`, `spent`, `beat` | age of the last fetch, of the tick or the wait, of the heartbeat file |
| `busy`, `age`, `missed` | history: time awaited since the last sleep, age of what is served, failed fetches since |

The process goes from its first heartbeat through connecting, `_wait_for_schema` (look,
sleep), `_sync_catalog` and the warm-up to the loop (sleep, fetch, write). Each phase is
an await that lasts any time up to its entry in `Longest`; time is discrete (`Elapse`)
and stops for nothing that is due. Nothing is assumed of how these durations compare: a
fetch or the writes may take longer than the interval, in which case the next tick
follows at once, a sleep ends up to `Jitter` late, and between the schema and the end
of the first tick nothing touches the heartbeat, as in the code. The process may die in
any await (`Crash`), and is restarted after at most `RestartMax`. The vendor lists some
tickers, may be away, refuses a batch with a ticker it does not list, and answers null
for those of `Listed` it cannot price now (`quoted`), which the adapter leaves out; an
answer of nothing but nulls leaves nothing to serve, and the next tick fetches again.

Most modules hold a few definitions commented as seeded bugs. No specification
uses them: each is the form of the definition after it with a plausible mistake,
kept to show that the property it names can fail.

## What the runs show

| Run | Question | Bounds | Outcome |
|---|---|---|---|
| `abandoned_ticks` | types, cache against table, provenance, the promise of the stores, under every failing or crashing call | 1 ticker, 2 prices, 3 stamps, both sources, no lost keys | holds |
| `restarts` | one price per stamp, table = memory, only changes recorded | 2 tickers, 2 prices, 3 stamps; crashes, lost keys, failing cache writes and publishes | holds |
| `between_ticks` | cache and channels current, cache of one source; publishes go out, ticks end, the cache refills | 2 tickers, 2 prices, 3 stamps, both sources; restarts between ticks, failing cache writes, lost keys; fairness below | holds |
| `wipe_without_flush` | the wipe takes the cache keys with it, with crashes | 1 ticker | violated |
| `merge` | the push client's merge of events and snapshots, these read from cache and table; watchlist changes, answered or not | 1 ticker, 3 stamps, 2 requests at once, 1 lost connection or remount | holds |
| `gap` | "read-then-subscribe would drop any update landing in the gap" | 1 ticker, no faults | violated |
| `two_browsers` | rotation, reuse alarm, both copies of the token | 2 browsers with a tab each, 3 tokens, 1 reload | holds |
| `shared_browser` | no tab stays logged in on a dead or missing token | 1 browser, 2 tabs, 2 tokens, 1 reload, fairness below | holds |
| `two_tabs` | "one refresh in flight at a time" with two tabs | 1 browser, 2 tabs | violated |
| `logout_race` | "Logging out one device does not log out the other" | 2 browsers, 4 tokens | violated |
| `polling` | one watchlist, what flashes, late answers of polls and searches, an exhausted pool | 1 security, 2 snapshot requests of which 1 may hang, 1 act, 2 connections, 2 searches, fairness below | holds |
| `bootstrap` | the stack comes up and prices come back; health, padding, age of what is served | 2 listed, 1 delisted, 1 padding ticker; intervals of 1 and 4, fetches of up to 2, other awaits and jitter of up to 1, heartbeat limit 4; crashes in any await; fairness below | holds |

Why these bounds are enough. The writes of different tickers meet only in the one
statement of the upsert and in the moment `gather` returns; a second ticker is in the
runs whose properties depend on that. Three stamps are three changes: a value, its
successor, and the return to the first value with a new stamp, which is the case in
which comparing prices and comparing stamps disagree. Two prices are enough for a change
and for a return. A third token lets a session be rotated while another one is live and
then be logged in again. In the push client one ticker is enough because a row, its
channel and its events never meet those of another ticker but in the order of one list,
which is drained row by row; three stamps give an applied, a buffered and a late event;
two requests give an overlap. On the page one security suffices for the same reason, and
is added and removed while two polls and an act, three requests in all, share two
connections. In `Lifecycle` every duration that decides an order is a constant of its
own. An interval of 1 and a fetch of up to 2 are the proportion of the code's 5 s and
the vendor's timeout of 10 s, so a tick that fetches and writes may take three intervals
and one that writes may take all of its own; with a source interval of 4 several ticks
pass between two fetches, and a heartbeat limit of 4 is reached by a start or a tick
that is slow throughout and not by fast ones. Two listed tickers are a batch of which
one is answered null. Stamps are two to a second (`PerSecond`), so that of three one is
a full second. `shared_browser` has two tokens: one to be rotated, by either tab or by
both, or two logins. The bounds are the constants `MaxStamp`, `MaxGets`, `MaxDrops`,
`MaxTokens`, `MaxReloads`, `MaxTypes` and `MaxMissed`, in the guards of `Tick`, `Move`,
`Toggle`, `Drop`, `Remount`, `SendLogin`, `SendRefresh`, `Abandon`, `Effect` and
`FetchFailed`, plus one abandoned tick at a time in `Raise`. A bound in a guard of a
client's request never holds up an answer of the server.

`CHECK_DEADLOCK FALSE` is given where a bound, not the program, ends the
behaviour (`BrowserSession`: all tokens used up).

### Fairness

`between_ticks` assumes that the loop and the start-up go on when they can
(`ProcessFairness`: Docker restarts the process, nothing in the loop waits for
anything but its calls) and that Centrifugo answers (`FeedFairness`: httpx gives
up after 5 s, and a timeout is a caught failure). Nothing is assumed of Redis or
Postgres for `PublishDespiteStall`. `TickEnds` and `CacheRefills` name the extra
assumption in the property itself (`StoresAnswer`): asyncpg has a command timeout
of 30 s, while the Redis client is built without one, so that Redis answers, and
now and then accepts a write, is an assumption about the environment.

`shared_browser` assumes that a request sent is served, that a logged-in tab whose
calls are refused asks for a refresh, and that it handles the answer. That is so
with `TRANSPORT=poll`, where a tab calls the API every few seconds; with push an idle
tab may make no call for as long as its connection lasts, and a dead session is
noticed at its next one. Nothing is assumed of logins, logouts or lost messages.

`polling` assumes that a waiter of the pool is served (asyncpg queues them in order),
that the statements of a request end (its command timeout), that the timer goes on
firing, and that one of the two snapshot requests is answered now and then. The
other (`Hung`) may never be.

`bootstrap` assumes that the process and the clock go on, and that the operator
migrates once the stack is up. Of Compose it assumes that a service which is healthy
again and again is in the end seen so (`SF(Probe)`): a heartbeat stays fresh for 30 s,
three intervals of the probe, so a probe falls into each such period. That
`up --wait` gives up after three bad probes in a row is not modelled, nor is an end to
crashing assumed: a process that dies time and again is healthy after each start,
because the start touches the heartbeat first.

## What the code does that its words do not say

- `wipe_without_flush`: a crash, or a Redis error during the flush, leaves
  simulated keys that no later start flushes, because no simulated row is left
  to find. An upsert that fails while its cache write succeeds does the same without a
  crash.
- Not a run of its own: `_last_published` is updated although a publish failed, so
  "a dropped tick is superseded by the next one" (`service.py:425`) holds only of
  tickers that keep moving. `FeedCurrent` is checked without failing publishes.
- Not a run of its own: a crash between the cache write and the upsert of a tick
  leaves a key with a stamp the restarted process does not know. If the price has
  meanwhile returned to the value in the table, every rewrite of the key is older and
  loses the guard until the TTL removes it, so `CachePicture` is checked for restarts
  between ticks only.
- Not a run of its own: the vendor is asked for every row that is not padding, so one
  the vendor has delisted, or that only the seed file has, makes it refuse every
  batch, although "the api source prices only the vendor's listings"
  (`service.py:155-156`). `PricesComeBack` is stated for sources that answer.
- Not a run of its own: emptying the search box does not advance the request counter,
  so an answer under way fills the list of an empty box (`SearchBar.jsx:26`).
  `LateAnswersDropped` is stated for a box that is not empty.
- `gap`: the push client's first snapshot is requested before any channel is
  subscribed.
- `two_tabs`: the guard against two refreshes is per tab and the token is shared. A
  single tab that is reloaded during a refresh does the same to itself; `two_browsers`
  shows that nothing but that, a logout or an earlier alarm does (`ReuseOnlyOfEnded`,
  `OneLivePerLogin`).
- `logout_race`: a logout overtaking the refresh of its own device raises the
  reuse alarm and ends the sessions of the others.

## What is proved

TLAPS proves these for every value of the constants: any set of tickers,
securities, browsers and tabs, any number of stamps, tokens, requests and losses, any
configured sources, any set of faults unless the theorem names the ones it leaves out,
any durations. Every invariant and every action property that a passing run checks
is among them, and so is the refinement.

| Theorem | Module | Statement |
|---|---|---|
| `TypeCorrect` | PriceServiceProofs | `Spec => []TypeOK` |
| `ServiceKeepsPromise` | PriceServiceProofs | `Spec => StoresPromise` |
| `RowsOfOneSource` | PriceServiceProofs | `Spec => []TableProvenance` |
| `StampsIdentifyPrices` | PriceServiceStamps | `Spec => []StampIdentifiesPrice`, without `"raise"` |
| `CacheIsNotBehind` | PriceServiceCurrent | `Spec => []CacheNotBehind`, without `"raise"` or without `"loss"` |
| `TableIsCurrent` | PriceServiceCurrent | `Spec => []TableCurrent`, without `"raise"` and `"table"` |
| `TableRecordsChanges` | PriceServiceCurrent | `Spec => RowsRecordChanges`, without `"raise"` and `"table"` |
| `FeedIsCurrent` | PriceServiceCurrent | `Spec => []FeedCurrent`, without `"raise"`, `"table"`, `"feed"` and `"crash"` |
| `CacheIsAPicture` | PriceServiceCurrent | `Spec => []CachePicture`, without `"raise"`, `"table"` and `"crash"` |
| `CacheOfOneSource` | PriceServiceCurrent | `Spec => []CacheProvenance`, without `"raise"`, `"table"` and `"crash"` |
| `TextOrderIsTimeOrder` | TimestampsProofs | `After(ToIso(m), ToIso(n)) <=> m > n` for all naturals |
| `PushTypes` | PushClientProofs | `Spec => []TypeOK` |
| `MergeConverges` | PushClientProofs | `Spec => []ScreenConverges` |
| `SubscribedToRows` | PushClientProofs | `Spec => []ChannelsFollowRows` |
| `EventsMoveForward` | PushClientProofs | `Spec => RowsMoveForward` |
| `SessionTypes` | BrowserSessionProofs | `Spec => []TypeOK` |
| `RotationRaisesNoAlarm` | BrowserSessionProofs | `Spec => []ReuseOnlyOfEnded`, with one tab per browser |
| `RotationKeepsOne` | BrowserSessionProofs | `Spec => []OneLivePerLogin`, with one tab per browser |
| `TabAndStoreAgree` | BrowserSessionProofs | `Spec => []TabAgreesWithStore`, with one tab per browser |
| `PageTypes` | PageProofs | `Spec => []TypeOK` |
| `OneListPerUser` | PageProofs | `Spec => []OneWatchlist` |
| `FlashesAreMoves` | PageProofs | `Spec => FlashesWhatMoved` |
| `LateSearchesDropped` | PageProofs | `Spec => LateAnswersDropped` |
| `LifecycleTypes` | LifecycleProofs | `Spec => []TypeOK` |
| `PaddingIsHeldBack` | LifecycleProofs | `Spec => []PaddingNotAsked` |
| `HealthTellsStalls` | LifecycleProofs | `Spec => []StallsAreSeen` |
| `ServedInTime` | LifecycleProofs | `Spec => []ReadInTime` |

### Assumptions

Those the modules name. `None` is not a price, `MaxStamp` is a natural, `Sources` are
among the two names, `Faults` among the named ones, `PerSecond` is positive. The catalog
is not empty, a pool has a connection, a page has finitely many request slots and the
slot of an act is not one of a poll. Of the durations in `Lifecycle` nothing but that
they are naturals, and the intervals and the limit of the heartbeat positive
(`CadenceAssumption`).

The hypotheses of a theorem are those under which the property is true, not those
under which it was easy. For each fault that a theorem about the service leaves out,
TLC finds its property violated on one ticker, two prices and three stamps as soon as
that one is added to the faults left in (for `CacheNotBehind`, when both are). The
restarts left in where `"crash"` is out are those between ticks (`Stop`). One tab per
browser (`Alone`) is what `NoReuse` of the run `two_tabs` fails without.

### Arguments

None of the properties but some type invariants is inductive. The strengthenings
were checked by TLC on the instances of the runs, or on smaller ones, before they
were proved.

*Types of the service.* Inductive as it stands. The step worth reading is `RowsType`:
a row is built only for a ticker with a price, and its stamp is that of the tick or
an older one, never 0.

*Stamps.* `StampIdentifiesPrice` is not inductive: a tick builds rows with old
stamps from the maps of the process, so one has to know that those maps agree with
what is stored. `StampInv` adds that no call is detached, that no stamp is ahead
of the clock, and `MemoryAgrees`: wherever a quote carries the stamp the process
has for a ticker, it carries the price the process takes the stamp to be of. A
crash may lose memory, because reading the table re-establishes the agreement.
All other steps only move quotes about (`MovedQuotes`). With uncaught errors the
theorem is false: the abandoned tick has renewed the stamp and not the price.

*Provenance of the table.* `RowsOurs` adds the rows still on their way, and that no
call outlives the process that made it; then no late write brings back a label.

*Promise.* Types are the only invariant needed: each step is one disjunct of
`GuardedStores` or touches neither store. The abstract cache guard compares times and
that of the code texts; the step of a cache write goes through
`TextOrderIsTimeOrder`, which holds because the width is fixed: with a fraction of
zero left out it would not.

*Cache against table.* `OrderInv`: calls exist only in the phases that make them, no
stamp anywhere in a loaded process is ahead of `eff` (`StampsAhead`), and each key
either carries the stamp of the process, or is about to be written with it, or was
lost (`CacheFollows`). A late write of an abandoned tick carries an older stamp and
loses to a key that is there; it needs a lost key to do harm, hence the disjunction
in the hypothesis.

*Table.* `TableInv`: once it is loaded, a row either is what the process
remembers or is about to become so in the upsert under way, which changes the price
(`TableAgrees`); and what the last tick read is what it remembers
(`ReadIsPublished`). `RowsRecordChanges` reads the change off the upsert's row.

*Channels and cache between ticks.* `FeedAgrees`: outside a tick the last publication
has the price of the row, within one it is on its way. `CacheBehind` is the mirror
image of `OrderInv`: no key is ahead of the table at a start, nor of `eff` afterwards,
so that the warm-up and every rewrite win the guard; with the stamps identifying
prices, equal stamps are equal prices. `CacheOurs` says which keys a warm-up has still
to replace.

*The merge.* `MergeInv` is about a client that may have any number of resyncs under way.
`Behind`: no snapshot, event or row is ahead of what the service has fed. `RunsAlone`:
while `sync` is `"running"`, one request is under way and buffering is on; afterwards
none is, and it is off. `Membership`: unless a refresh is still to run, what such a
request reads, then the rows, then the channels, are of the watchlist there is, the
changes whose answer was lost since that read apart (`AsTold`). `Merge`: for each ticker
not missed, what its snapshot read is not older than the last price fed, or that price
is on the wire or in the buffer; and so it is with its row once the buffer is drained.
That draining the buffer leaves each row at the newest of itself and its events
(`DrainedHolds`) is an induction over the buffer, done first-order: were it false, there
would be a least position at which it fails (`LeastNumber`, from the well-foundedness of
`<` on the naturals), and the position before is no counterexample.

*Sessions.* `SessionInv` bounds what requests and answers can name: a token that is
known was issued, and a request at a statement has passed the one before.
`AloneInv`, under one tab per browser, follows each token to the one place it can be
presented from: the tokens of two tabs are of different logins (`TabsApart`), the
token of a tab is live, or ended, or spent by the refresh of that tab whose answer is
on its way (`TabInv`), and a refresh about to rotate has the only live token of its
login (`RotatesTheLive`). The window between the check and the transaction of
`auth_handler.py:126` is closed by the client and not by the server: with two tabs
`RotatesTheLive` is false.

*Page.* `ListInv`: a request that has found or created a watchlist has the one there
is, and none exists before the first. `SeenInv` ties the previous prices to the rows
shown. `SearchInv`: the latest request, waiting or sent, is of the text in the box. The
pool bound in the type invariant is a cardinality argument over the slots held.

*Lifecycle.* `LifeInv`: what the process has in memory of the catalog is not padding
(`Memory`); how long a tick has taken, and will have when its await is over (`Budget`);
the heartbeat file is as old as what was awaited since the last sleep began, and at most
that sleep older (`Beats`), which is all the healthcheck can go by; the clock of `Due`
is the age of what is served, until it saturates (`Ages`); and `Served` bounds that age
phase by phase. The bound is of a tick's beginning: the first fetch after a read begins
less than `Slip` after it was asked for, because a tick that serves it again starts
before it is due and lasts `Short` at most, and each fetch that fails moves the next one
by `Long`, the longest a tick can take. Multiplying the failures by `Long` is the only
arithmetic that is not linear, and is kept in one lemma (`OneMissMore`).

## What is only model-checked

Liveness under fairness is out of the prover's reach and stays with TLC:
`PublishDespiteStall`, `TickEnds`, `CacheRefills`, `DeadSessionsEnd`,
`TabsFollowStore`, `PollConverges`, `RequestsServed`, `Bootstrapped` and
`PricesComeBack`. The four runs that expect a violation have no theorem either: each
shows one behaviour of one instance.

## What is not modelled

- A clock that steps back, and `make reset-prices` beside a running service. The code
  handles neither.
- The ranking of the search, passwords, the profile routes, the signature and the
  expiry of access tokens (a call may be refused at any time instead), the REST
  framework, metrics, logging and rendering.
- The connection a search takes from the pool: the search requests of a page are not
  in `Watchlists`. A client's request that is lost is one that was not made.
- `up --wait` giving up on a service that is unhealthy three times in a row, and a
  batch that stays refused: the property about prices is stated for sources that answer.
- Resyncs of the push client that overlap are in the model and leave no promise about
  the merge: `ScreenConverges` is of a last resync that ran alone.
- The load generator, the benchmarks and the tools that dump or capture data.

`Centrifugo`, `Redis`, `Postgres`, Docker and the network are modelled as the code
uses them.

## Plan

Done: all modules of the table above; the proofs of every invariant and action property
the runs check.

To come, in this order:

1. The safety half of the temporal properties: that a tick which waits has only calls
   of its own to wait for, that no state of the page or of the boot is one in which all
   wait for each other.
2. Narrower hypotheses: what `CachePicture` and `FeedCurrent` still promise when an
   upsert or a publish failed (a bound on how far the stores are behind), and what is
   left of `OneLivePerLogin` with several tabs.
3. `Page` on top of what `GuardedStores` promises: that the prices `Watchlists` reads
   only move forward is so far an argument of this document.
