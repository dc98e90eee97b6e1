---------------------------- MODULE PriceService ----------------------------
(***************************************************************************)
(* The price service, the only writer of prices: its start-up, its tick,   *)
(* the three concurrent writes of a tick (Redis cache, latest_prices,      *)
(* Centrifugo) and the stores they reach, under the faults the code        *)
(* handles.  A call in progress is the set of rows it has still to         *)
(* deliver, so the rows of one call and the calls of one tick interleave   *)
(* freely; a call whose tick was abandoned keeps running detached.         *)
(*                                                                         *)
(* Not in this module: the catalog (Tickers is fixed), metrics, logging,   *)
(* and the wall clock, which is taken to be strictly increasing.           *)
(***************************************************************************)
EXTENDS PriceQuotes, FiniteSets

CONSTANTS Sources,   \* the price sources a start may be configured with
          Faults     \* the faults that may happen, from the names below

ASSUME SourcesAssumption == Sources \subseteq SourceNames

\* The three writes of a tick.
Kinds == {"cache", "table", "feed"}

\* "cache", "table", "feed": that write fails with the error the code catches.
\* "raise": a write fails with one it does not, which abandons the tick.
\* "crash": the process dies at any point; "stop": it is restarted between
\* ticks.  "loss": Redis restarts, or a key expires.
ASSUME FaultsAssumption == Faults \subseteq Kinds \cup {"raise", "crash", "stop", "loss"}

\* Who waits for a call: the gather of the current tick, or nobody any more.
Owners == {"awaited", "detached"}

VARIABLES
  clock,     \* the last stamp handed out
  phase,     \* where the process is: see Phases
  source,    \* settings.price_source of the running process
  last,      \* _last_published: ticker -> price or None
  eff,       \* _effective_at: ticker -> stamp or 0
  upstream,  \* _upstream_prices: ticker -> price or None
  calls,     \* owner -> kind -> ticker -> the quote still to deliver, or NoQuote
  failed,    \* the kinds of which a call failed since the last tick began
  table,     \* latest_prices
  cache,     \* the price:* keys of Redis
  feed       \* the last publication fanned out on each ticker:* channel

process == <<clock, source, last, eff, upstream>>
stores == <<table, cache, feed>>
vars == <<clock, phase, source, last, eff, upstream, calls, failed, table, cache, feed>>

\* Not running; start(): before reconciliation, flushing the cache, before the
\* warm-up, warming the cache; then between two ticks, or within one.
Phases == {"down", "boot", "flush", "read", "warm", "idle", "write"}

NoCalls == [o \in Owners |-> [k \in Kinds |-> Nothing]]

Init ==
  /\ clock = 0
  /\ phase = "down"
  /\ source \in Sources
  /\ last = [t \in Tickers |-> None]
  /\ eff = [t \in Tickers |-> 0]
  /\ upstream = [t \in Tickers |-> None]
  /\ calls = NoCalls
  /\ failed = {}
  /\ table = Nothing /\ cache = Nothing /\ feed = Nothing

-----------------------------------------------------------------------------
(* Start-up *)

\* A process is started, with a configuration of its own.
Start(s) ==
  /\ phase = "down"
  /\ phase' = "boot"
  /\ source' = s
  /\ UNCHANGED <<clock, last, eff, upstream, calls, failed, stores>>

\* The sources of the stored rows other than the configured one.
Foreign == {table[t].source : t \in {u \in Tickers : table[u] # NoQuote}} \ {source}

\* reconcile_source: every stored row is of this source already.
ReconcileClean ==
  /\ phase = "boot" /\ Foreign = {}
  /\ phase' = "read"
  /\ UNCHANGED <<process, calls, failed, stores>>

\* Seeded bug: the wipe does not take the cache keys with it.
WipeTableOnly ==
  /\ phase = "boot" /\ Foreign # {} /\ source = "api"
  /\ table' = [t \in Tickers |->
                 IF table[t].source = "simulated" THEN NoQuote ELSE table[t]]
  /\ phase' = "read"
  /\ UNCHANGED <<process, calls, failed, cache, feed>>

\* The vendor starts over simulated rows: they are deleted, then the cache is
\* flushed.  Nobody else writes the table between the SELECT and the DELETE.
Wipe ==
  /\ phase = "boot" /\ Foreign # {} /\ source = "api"
  /\ table' = [t \in Tickers |->
                 IF table[t].source = "simulated" THEN NoQuote ELSE table[t]]
  /\ phase' = "flush"
  /\ UNCHANGED <<process, calls, failed, cache, feed>>

\* Seeded bug: the simulator starts from the real rows and leaves their label.
AdoptUnlabelled ==
  /\ phase = "boot" /\ Foreign # {} /\ source # "api"
  /\ phase' = "read"
  /\ UNCHANGED <<process, calls, failed, stores>>

\* The simulator starts over real rows: they are re-stamped as its own.
Adopt ==
  /\ phase = "boot" /\ Foreign # {} /\ source # "api"
  /\ table' = [t \in Tickers |->
                 IF table[t].source = "api" THEN [table[t] EXCEPT !.source = "simulated"]
                                            ELSE table[t]]
  /\ phase' = "read"
  /\ UNCHANGED <<process, calls, failed, cache, feed>>

\* flush_prices deletes the keys it scans one by one, and ends when none is left.
FlushKey(t) ==
  /\ phase = "flush" /\ cache[t] # NoQuote
  /\ cache' = [cache EXCEPT ![t] = NoQuote]
  /\ UNCHANGED <<process, phase, calls, failed, table, feed>>

FlushDone ==
  /\ phase = "flush" /\ cache = Nothing
  /\ phase' = "read"
  /\ UNCHANGED <<process, calls, failed, stores>>

\* Seeded bugs: the warm-up fills only one of the two maps of the process.
ReadRowsPricesOnly ==
  /\ phase = "read"
  /\ last' = [t \in Tickers |-> table[t].price]
  /\ calls' = [calls EXCEPT !["awaited"]["cache"] = table]
  /\ phase' = "warm"
  /\ UNCHANGED <<clock, source, eff, upstream, failed, stores>>

ReadRowsStampsOnly ==
  /\ phase = "read"
  /\ eff' = [t \in Tickers |-> table[t].at]
  /\ calls' = [calls EXCEPT !["awaited"]["cache"] = table]
  /\ phase' = "warm"
  /\ UNCHANGED <<clock, source, last, upstream, failed, stores>>

\* _warm_cache_from_postgres: every row becomes a guarded write to the cache and
\* what the process believes it published last.  (The code fills the two maps
\* row by row between the writes; nothing reads them before the loop starts.)
ReadRows ==
  /\ phase = "read"
  /\ last' = [t \in Tickers |-> table[t].price]
  /\ eff' = [t \in Tickers |-> table[t].at]
  /\ calls' = [calls EXCEPT !["awaited"]["cache"] = table]
  /\ phase' = "warm"
  /\ UNCHANGED <<clock, source, upstream, failed, stores>>

\* The last row of the warm-up is answered: start() returns to run_forever().
Warmed ==
  /\ phase = "warm" /\ calls["awaited"]["cache"] = Nothing
  /\ phase' = "idle"
  /\ UNCHANGED <<process, calls, failed, stores>>

-----------------------------------------------------------------------------
(* The tick *)

\* A price, or none, for every ticker.
Reads == [Tickers -> Prices \cup {None}]

Priced(read) == {t \in Tickers : read[t] # None}

\* The vendor answers null for any of the tickers it lists.
VendorAnswers == Reads

\* The tickers the simulator walks: those of its answers so far; before the first
\* one, those with a row at the start.  {} leaves the choice to the seed file.
Walked == IF Priced(upstream) # {} THEN Priced(upstream) ELSE Priced(last)

\* The simulator prices the tickers it walks, each moved or not, and no other.
SimulatedAnswers == {read \in Reads : Walked = {} \/ Priced(read) = Walked}

\* What _current_prices may return: a fresh answer of the source, or the previous
\* one when the source is not due or its fetch failed.
CurrentPrices ==
  {upstream} \cup (IF source = "api" THEN VendorAnswers ELSE SimulatedAnswers)

Changed(read) == {t \in Priced(read) : last[t] # read[t]}

\* Seeded bug: a changed price keeps the stamp of the price before it.
StampedOnce(read) == {t \in Priced(read) : eff[t] = 0}

\* The tickers given the stamp of this tick: those that changed, and (setdefault)
\* those that never had one.
Stamped(read) == Changed(read) \cup {t \in Priced(read) : eff[t] = 0}

\* Seeded bug: the clock is read once per process instead of once per tick.
StampsOfLastTick(read) == [t \in Tickers |-> IF t \in Stamped(read) THEN clock ELSE eff[t]]

\* _effective_at as the tick leaves it.
Stamps(read) == [t \in Tickers |-> IF t \in Stamped(read) THEN clock + 1 ELSE eff[t]]

\* The rows one of the three writes of the tick has to deliver.
Rows(read, tickers) ==
  [t \in Tickers |->
     IF t \in tickers
     THEN [price |-> read[t], at |-> Stamps(read)[t], source |-> source]
     ELSE NoQuote]

\* Seeded bug: the cache is given the changed prices only.
ScopeOfChanges(read, k) == Changed(read)

\* The cache is given every current price, the table and the channels only the
\* changed ones.
Scope(read, k) == IF k = "cache" THEN Priced(read) ELSE Changed(read)

\* The source has no price at all: the tick returns early.
TickWithoutPrices ==
  /\ phase = "idle" /\ [t \in Tickers |-> None] \in CurrentPrices
  /\ upstream' = [t \in Tickers |-> None]
  /\ UNCHANGED <<clock, phase, source, last, eff, calls, failed, stores>>

\* Up to the gather.  The wall clock hands out one stamp, used if anything
\* changed; MaxStamp bounds the stamps, not the ticks.
Tick(read) ==
  /\ phase = "idle" /\ read \in CurrentPrices /\ Priced(read) # {}
  /\ Stamped(read) # {} => clock < MaxStamp
  /\ upstream' = read
  /\ clock' = IF Stamped(read) = {} THEN clock ELSE clock + 1
  /\ eff' = Stamps(read)
  /\ calls' = [calls EXCEPT !["awaited"] = [k \in Kinds |-> Rows(read, Scope(read, k))]]
  /\ failed' = {}
  /\ phase' = "write"
  /\ UNCHANGED <<source, last, stores>>

\* Seeded bugs: one of the three writes is left out of the gather, or a tick with
\* a failed write repeats it until none of its rows fails.
EndTickWithout(kind) ==
  /\ phase = "write" /\ \A k \in Kinds \ {kind} : calls["awaited"][k] = Nothing
  /\ last' = [t \in Tickers |-> IF upstream[t] # None THEN upstream[t] ELSE last[t]]
  /\ phase' = "idle"
  /\ UNCHANGED <<clock, source, eff, upstream, calls, failed, stores>>
EndTickWithoutCache == EndTickWithout("cache")
EndTickWithoutFeed == EndTickWithout("feed")
EndTickRetrying ==
  /\ phase = "write" /\ \A k \in Kinds : calls["awaited"][k] = Nothing
  /\ IF failed = {}
     THEN /\ last' = [t \in Tickers |-> IF upstream[t] # None THEN upstream[t] ELSE last[t]]
          /\ phase' = "idle"
          /\ UNCHANGED <<calls, failed>>
     ELSE /\ calls' = [calls EXCEPT !["awaited"]["cache"] = [t \in Tickers |->
                        IF upstream[t] = None THEN NoQuote
                        ELSE [price |-> upstream[t], at |-> eff[t], source |-> source]]]
          /\ failed' = {}
          /\ UNCHANGED <<phase, last>>
  /\ UNCHANGED <<clock, source, eff, upstream, stores>>

\* gather returns when its three calls have: the prices read are now "published".
EndTick ==
  /\ phase = "write" /\ \A k \in Kinds : calls["awaited"][k] = Nothing
  /\ last' = [t \in Tickers |-> IF upstream[t] # None THEN upstream[t] ELSE last[t]]
  /\ phase' = "idle"
  /\ UNCHANGED <<clock, source, eff, upstream, calls, failed, stores>>

-----------------------------------------------------------------------------
(* The three writes *)

\* Redis runs the compare-and-set of one key of the pipeline (or of the warm-up).
CacheWrite(o, t) ==
  LET quote == calls[o]["cache"][t] IN
  /\ quote # NoQuote
  /\ cache' = IF CacheAccepts(cache[t], quote) THEN [cache EXCEPT ![t] = quote] ELSE cache
  /\ calls' = [calls EXCEPT ![o]["cache"][t] = NoQuote]
  /\ UNCHANGED <<process, phase, failed, table, feed>>

\* Postgres runs the upsert: one statement for all the rows.
TableWrite(o) ==
  LET rows == calls[o]["table"] IN
  /\ rows # Nothing
  /\ table' = [t \in Tickers |->
                 IF rows[t] # NoQuote /\ TableAccepts(table[t], rows[t])
                 THEN rows[t] ELSE table[t]]
  /\ calls' = [calls EXCEPT ![o]["table"] = Nothing]
  /\ UNCHANGED <<process, phase, failed, cache, feed>>

\* Seeded bug: the publish is made after the upsert, not beside it.
FeedWriteAfterTable(o, t) ==
  LET quote == calls[o]["feed"][t] IN
  /\ quote # NoQuote /\ calls[o]["table"] = Nothing
  /\ feed' = [feed EXCEPT ![t] = quote]
  /\ calls' = [calls EXCEPT ![o]["feed"][t] = NoQuote]
  /\ UNCHANGED <<process, phase, failed, table, cache>>

\* Centrifugo runs one publish of the batch and fans it out.
FeedWrite(o, t) ==
  LET quote == calls[o]["feed"][t] IN
  /\ quote # NoQuote
  /\ feed' = [feed EXCEPT ![t] = quote]
  /\ calls' = [calls EXCEPT ![o]["feed"][t] = NoQuote]
  /\ UNCHANGED <<process, phase, failed, table, cache>>

\* Centrifugo answers one publish of the batch with an error: counted, not retried.
FeedRejects(o, t) ==
  /\ "feed" \in Faults
  /\ calls[o]["feed"][t] # NoQuote
  /\ calls' = [calls EXCEPT ![o]["feed"][t] = NoQuote]
  /\ failed' = failed \cup {"feed"}
  /\ UNCHANGED <<process, phase, stores>>

\* A write fails with an error its except clause names: what it had not
\* delivered is dropped and counted, and the tick goes on.
CallFails(o, k) ==
  /\ k \in Faults /\ calls[o][k] # Nothing
  /\ o = "awaited" => phase = "write"
  /\ calls' = [calls EXCEPT ![o][k] = Nothing]
  /\ failed' = failed \cup {k}
  /\ UNCHANGED <<process, phase, stores>>

\* A write fails with any other error: gather raises at once, run_forever catches
\* it, _last_published is not updated, and the other two writes keep running with
\* nobody waiting for them.  Bound of the model: one abandoned tick at a time.
Raise(k) ==
  /\ "raise" \in Faults
  /\ phase = "write" /\ calls["awaited"][k] # Nothing
  /\ calls["detached"] = NoCalls["detached"]
  /\ calls' = [calls EXCEPT !["detached"] = [calls["awaited"] EXCEPT ![k] = Nothing],
                            !["awaited"] = NoCalls["awaited"]]
  /\ failed' = failed \cup {k}
  /\ phase' = "idle"
  /\ UNCHANGED <<process, stores>>

-----------------------------------------------------------------------------
(* The process and Redis go away *)

\* What dies with the process: its maps, and the calls it had in progress.
Die ==
  /\ phase' = "down"
  /\ last' = [t \in Tickers |-> None]
  /\ eff' = [t \in Tickers |-> 0]
  /\ upstream' = [t \in Tickers |-> None]
  /\ calls' = NoCalls
  /\ failed' = {}
  /\ UNCHANGED <<clock, source, stores>>

\* Killed, or ended by an error during start-up: at any point.
Crash == "crash" \in Faults /\ phase # "down" /\ Die

\* Restarted while it sleeps between two ticks.
Stop == "stop" \in Faults /\ phase = "idle" /\ calls = NoCalls /\ Die

\* A key's TTL runs out, or Redis restarts empty.
Expire(t) ==
  /\ "loss" \in Faults /\ cache[t] # NoQuote
  /\ cache' = [cache EXCEPT ![t] = NoQuote]
  /\ UNCHANGED <<process, phase, calls, failed, table, feed>>

RedisRestart ==
  /\ "loss" \in Faults /\ cache # Nothing
  /\ cache' = Nothing
  /\ UNCHANGED <<process, phase, calls, failed, table, feed>>

-----------------------------------------------------------------------------
Boot ==
  \/ \E s \in Sources : Start(s)
  \/ ReconcileClean \/ Wipe \/ Adopt
  \/ \E t \in Tickers : FlushKey(t)
  \/ FlushDone \/ ReadRows \/ Warmed

Loop == TickWithoutPrices \/ (\E read \in Reads : Tick(read)) \/ EndTick

CacheCalls == \E o \in Owners, t \in Tickers : CacheWrite(o, t)
TableCalls == \E o \in Owners : TableWrite(o)
FeedCalls == \E o \in Owners, t \in Tickers : FeedWrite(o, t)

Failures ==
  \/ \E o \in Owners, t \in Tickers : FeedRejects(o, t)
  \/ \E o \in Owners, k \in Kinds : CallFails(o, k)
  \/ \E k \in Kinds : Raise(k)
  \/ Crash \/ Stop

Losses == RedisRestart \/ \E t \in Tickers : Expire(t)

Next == Boot \/ Loop \/ CacheCalls \/ TableCalls \/ FeedCalls \/ Failures \/ Losses

Spec == Init /\ [][Next]_vars

-----------------------------------------------------------------------------
(* Fairness *)

\* The loop of run_forever and the start-up never wait for an outside event
\* other than the answers of their calls; Docker restarts the process.
ProcessFairness ==
  /\ WF_vars(Boot)
  /\ WF_vars(Loop)
  /\ WF_vars(\E read \in Reads : Tick(read))

\* httpx answers or times out after 5 s, asyncpg after 30 s.
FeedFairness == \A t \in Tickers : WF_vars(FeedWrite("awaited", t))
TableFairness == WF_vars(TableWrite("awaited"))

\* The Redis client is built without a socket timeout: that its calls are
\* answered is an assumption about Redis and the network, not about the code.
\* One that answers now and then with an error does not do so for ever.
CacheFairness == \A t \in Tickers : SF_vars(CacheWrite("awaited", t))

\* Nothing is assumed of the answers of Redis and Postgres.
FeedFairSpec == Spec /\ ProcessFairness /\ FeedFairness

\* What has to be assumed besides for the loop to go on.
StoresAnswer == TableFairness /\ CacheFairness

-----------------------------------------------------------------------------
(* Properties *)

\* Every variable has its type.  Covers the rows a write is given: no row is
\* ever built for a ticker that has no price.
TypeOK ==
  /\ clock \in 0..MaxStamp
  /\ phase \in Phases
  /\ source \in Sources
  /\ last \in [Tickers -> Prices \cup {None}]
  /\ eff \in [Tickers -> 0..MaxStamp]
  /\ upstream \in [Tickers -> Prices \cup {None}]
  /\ calls \in [Owners -> [Kinds -> [Tickers -> MaybeQuotes]]]
  /\ failed \subseteq Kinds
  /\ table \in [Tickers -> MaybeQuotes]
  /\ cache \in [Tickers -> MaybeQuotes]
  /\ feed \in [Tickers -> MaybeQuotes]

\* Everywhere a quote of ticker t can be seen, or is about to be.
Places(t) == {table[t], cache[t], feed[t]}
               \cup {calls[o][k][t] : o \in Owners, k \in Kinds}

\* effective_at means "when this price was first seen at this value, and both
\* stores agree on it": two quotes of a ticker with one stamp have one price,
\* wherever they are, across ticks, failures and restarts.
StampIdentifiesPrice ==
  \A t \in Tickers : \A p, q \in Places(t) : p.at = q.at => p.price = q.price

\* The cache never serves an older price than the table it caches, once a tick
\* has written it: "if only Postgres were guarded the cache could hold an older
\* price than the table".  Holds with crashes, with lost keys, and with the writes
\* of an abandoned tick landing late - but not with the last two together: where
\* a key was lost the guard has nothing to compare a late write with.
CacheNotBehind ==
  \A t \in Tickers :
    (/\ phase = "idle" /\ "cache" \notin failed
     /\ upstream[t] # None /\ cache[t] # NoQuote
     /\ calls["detached"]["cache"] = Nothing)
      => cache[t].at >= table[t].at

\* "The cache is a picture of what is current": between ticks a cached price is
\* the price the last tick read, unless its cache write failed.
CachePicture ==
  \A t \in Tickers :
    (phase = "idle" /\ "cache" \notin failed /\ upstream[t] # None /\ cache[t] # NoQuote)
      => cache[t].price = upstream[t]

\* Between ticks the last publication of every priced ticker carries the price
\* the last tick read, unless that tick's own publish failed: publishing changes
\* only loses nothing.  Holds as long as no publish fails: one that did is not
\* superseded by the next tick, only by the next change of the price.
FeedCurrent ==
  \A t \in Tickers :
    (phase = "idle" /\ "feed" \notin failed /\ upstream[t] # None)
      => feed[t].price = upstream[t]

\* Between ticks the table holds, for every ticker the process knows a price of,
\* that price with the stamp the process has for it, unless the last upsert
\* failed: writing changes only keeps the record complete.
TableCurrent ==
  \A t \in Tickers :
    (phase = "idle" /\ "table" \notin failed /\ last[t] # None)
      => table[t].price = last[t] /\ table[t].at = eff[t]

\* latest_prices is the record of price changes: a row is replaced only by a row
\* with another price, also after a restart.
RowsRecordChanges ==
  [][\A t \in Tickers :
       (table[t] # NoQuote /\ table'[t].at > table[t].at)
         => table'[t].price # table[t].price]_vars

\* Once a process runs its loop, no stored row carries another source's label,
\* whatever failed before and however often the source was switched.
TableProvenance ==
  phase \in {"idle", "write"} => \A t \in Tickers : table[t].source \in {source, "none"}

\* ... and no cached price either: a cached simulated price would win the guard
\* against the real one.
CacheProvenance ==
  phase \in {"idle", "write"} => \A t \in Tickers : cache[t].source \in {source, "none"}

\* The service keeps the promise of the guarded stores: no call of it, late,
\* detached or repeated, ever replaces a quote by an older one.
Stores == INSTANCE GuardedStores WITH table <- table, cache <- cache
StoresPromise == Stores!Spec

\* "A Postgres stall must not delay the publish", nor does a Redis one: no publish
\* of a tick stays to be made for ever, although the other two calls of the tick
\* are never answered.
PublishDespiteStall ==
  \A t \in Tickers :
    (calls["awaited"]["feed"][t] # NoQuote) ~> (calls["awaited"]["feed"][t] = NoQuote)

\* If the stores answer, succeed or fail, every tick comes to its end and the
\* next one can supersede it.
TickEnds == StoresAnswer => ((phase = "write") ~> (phase # "write"))

\* If the stores answer, the cache refills after a Redis restart, and a quiet
\* ticker outlives its TTL, without waiting for a price to move.
CacheRefills ==
  StoresAnswer =>
    \A t \in Tickers : (<>[](upstream[t] # None)) => ([]<>(cache[t] # NoQuote))
=============================================================================
