------------------------------ MODULE Lifecycle ------------------------------
(***************************************************************************)
(* What PriceService leaves out: time, the catalog and the boot order.     *)
(* The stack is brought up before the schema exists; the service waits for *)
(* it, reads from the catalog what it will price, and then asks its source *)
(* at one cadence and writes at another.  Time is counted in units of the  *)
(* clock; nothing that is due waits while it passes.  An await may take    *)
(* longer than an interval, and the process may die in any of them.        *)
(***************************************************************************)
EXTENDS Integers

CONSTANTS
  Listed, Seed, Synthetic,  \* tickers: the vendor's, the seed file's, padding
  Interval, Upstream,       \* publish_ and upstream_poll_interval_seconds
  PollEvery, Deadline,      \* of _wait_for_schema
  Limit,                    \* age at which the healthcheck refuses the heartbeat
  \* bounds of the model on what the code awaits, by timeouts or not at all bounded
  QueryMax, SyncMax,        \* connecting or looking for the schema; catalog, warm-up
  FetchMax, WriteMax,       \* a fetch; the three writes
  Jitter, RestartMax,       \* how late a sleep ends; how late Docker restarts
  MaxMissed                 \* bound of the model: failed fetches in a row counted

ASSUME CadenceAssumption ==
  /\ {Interval, Upstream, PollEvery, Limit, MaxMissed} \subseteq Nat \ {0}
  /\ {Deadline, QueryMax, SyncMax, FetchMax, WriteMax, Jitter, RestartMax} \subseteq Nat

VARIABLES
  stage,     \* of `make bootstrap`: "up" (--wait), "migrate", "done"
  schema,    \* whether the migrations have been applied
  rows,      \* the tickers of securities
  seed,      \* the content of seed/securities.csv, or {} without the file
  answers,   \* whether the vendor answers at all
  quoted,    \* the tickers the source has a price for
  phase,     \* where the process is
  source,    \* its price source
  asked,     \* _ticker_to_id: what the source is asked for
  upstream,  \* _upstream_prices: the tickers of the last read
  beat,      \* age of the heartbeat file, at most Limit
  since,     \* time since _last_upstream_fetch, at most Upstream + 1
  spent,     \* time since the tick, or the wait for the schema, began
  wake,      \* time until the await under way ends
  busy,      \* history: time awaited since the last sleep began, at most Limit
  age,       \* history: age of the read that is served
  missed     \* history: failed fetches since it was made

stack == <<stage, schema, rows, seed>>
vendor == <<answers, quoted>>
memory == <<source, asked, upstream>>
heart == <<beat, busy>>
timers == <<since, spent, age, missed>>
vars == <<stack, vendor, phase, memory, heart, wake, timers>>

Least(i, j) == IF i < j THEN i ELSE j
Most(i, j) == IF i < j THEN j ELSE i

\* The phases, each with the longest its await may take.
Longest == [down  |-> RestartMax, connect |-> QueryMax, look |-> QueryMax,
            wait  |-> PollEvery + Jitter, sync |-> SyncMax, warm |-> SyncMax,
            fetch |-> FetchMax, write |-> WriteMax, idle |-> Interval + Jitter]
Phases == DOMAIN Longest
Sleeps == {"wait", "idle"}

\* From the start of a tick to that of the next: at most that for one that serves the
\* previous read, and for one that fetches.
Short == Most(Interval, WriteMax) + Jitter
Long == Most(Interval, FetchMax + WriteMax) + Jitter

\* A read is replaced by a tick that starts before it is that old.
Slip == Most(Upstream + Short, Long + 1)

\* Where the counters stop.
Never == Upstream + 1
Spent == Most(Deadline + 1, FetchMax + WriteMax)
Oldest == Slip + MaxMissed * Long + FetchMax

Init ==
  /\ stage = "up" /\ schema \in BOOLEAN /\ rows = {} /\ seed \in {Seed, {}}
  /\ answers \in BOOLEAN /\ quoted \in SUBSET Listed
  /\ phase = "down" /\ source = "api" /\ asked = {} /\ upstream = {}
  /\ beat = Limit /\ since = Never /\ spent = 0 /\ wake = 0
  /\ busy = 0 /\ age = 0 /\ missed = 0

Await(p) == phase' = p /\ wake' \in 0..Longest[p]

-----------------------------------------------------------------------------
(* Start-up *)

\* Seeded bug: the heartbeat is touched by ticks only.
NoTouch == UNCHANGED beat

\* HEARTBEAT.touch() during the start.
Touch == beat' = 0

\* Alive from the first moment; then the pool and the cache are connected.
Boot ==
  /\ phase = "down" /\ wake = 0 /\ Await("connect")
  /\ source' \in {"api", "simulated"}
  /\ quoted' \in IF source' = "api" THEN SUBSET Listed ELSE {{}}
  /\ Touch /\ busy' = 0
  /\ UNCHANGED <<stack, answers, asked, upstream, timers>>

\* What dies with the process.  Docker restarts it in the same container, where
\* the heartbeat file stays.
Die ==
  /\ Await("down") /\ asked' = {} /\ upstream' = {}
  /\ since' = Never /\ spent' = 0 /\ busy' = 0 /\ age' = 0 /\ missed' = 0
  /\ UNCHANGED <<stack, vendor, source, beat>>

\* The deadline of _wait_for_schema counts from its first query.
Connected ==
  /\ phase = "connect" /\ wake = 0 /\ Await("look")
  /\ UNCHANGED <<stack, vendor, memory, heart, timers>>

SchemaFound ==
  /\ phase = "look" /\ wake = 0 /\ schema /\ Await("sync")
  /\ spent' = 0
  /\ UNCHANGED <<stack, vendor, memory, heart, since, age, missed>>

\* Still missing: sleep, and look again.
Wait ==
  /\ phase = "look" /\ wake = 0 /\ ~ schema /\ spent <= Deadline
  /\ Touch /\ busy' = 0
  /\ phase' = "wait" /\ wake' \in PollEvery..(PollEvery + Jitter)
  /\ UNCHANGED <<stack, vendor, memory, timers>>

LookAgain ==
  /\ phase = "wait" /\ wake = 0 /\ Await("look")
  /\ UNCHANGED <<stack, vendor, memory, heart, timers>>

GiveUp == phase = "look" /\ wake = 0 /\ ~ schema /\ spent > Deadline /\ Die

\* The vendor's catalog; the seed file when the vendor is not to be asked, does
\* not answer or lists nothing.
Catalog == IF source = "api" /\ answers /\ Listed # {} THEN Listed ELSE seed

\* Seeded bugs: what the seed file lists is priced whether or not it has a row; the
\* padding is not held back from the vendor.
PricingSeed(known) == IF source = "api" THEN (known \ Synthetic) \cup Seed ELSE known
AllRows(known) == known

\* all_tickers: the api source is not shown the padding.
Pricing(known) == IF source = "api" THEN known \ Synthetic ELSE known

\* Reconciliation and catalog are over: what it lists is upserted; rows it no longer
\* lists stay, and are priced.  No touch before the first tick has ended.
SyncCatalog ==
  LET known == rows \cup Catalog IN
  /\ phase = "sync" /\ wake = 0 /\ Pricing(known) # {} /\ Await("warm")
  /\ rows' = known /\ asked' = Pricing(known)
  /\ UNCHANGED <<stage, schema, seed, vendor, source, upstream, heart, timers>>

\* "no securities in the catalog; cannot price anything".
NothingToPrice == phase = "sync" /\ wake = 0 /\ Pricing(rows \cup Catalog) = {} /\ Die

\* The source is built and the cache warm.  The simulator walks from the prices it
\* finds, which may be of some of the tickers only.
Warmed ==
  /\ phase = "warm" /\ wake = 0 /\ phase' = "idle"
  /\ quoted' \in IF source = "api" THEN {quoted} ELSE SUBSET asked
  /\ UNCHANGED <<stack, answers, memory, heart, wake, timers>>

-----------------------------------------------------------------------------
(* The loop *)

\* Seeded bug: a read exactly one interval old is not due.
DueLate == since > Upstream \/ upstream = {}

\* The source's own interval has elapsed, or there is nothing to serve.
Due == since >= Upstream \/ upstream = {}

TickCached ==
  /\ phase = "idle" /\ wake = 0 /\ ~ Due /\ Await("write")
  /\ UNCHANGED <<stack, vendor, memory, heart, timers>>

TickFetching ==
  /\ phase = "idle" /\ wake = 0 /\ Due /\ Await("fetch")
  /\ UNCHANGED <<stack, vendor, memory, heart, timers>>

\* The vendor answers if it is up and knows every ticker of the batch; the
\* simulator always does.
Answered == source = "simulated" \/ (answers /\ asked \subseteq Listed)

\* The three writes of what was read; without any price the tick is over.
Writes == Await("write") /\ (upstream' = {} => wake' = 0)

\* Seeded bug: the interval is counted from the answer.
FetchedNow ==
  /\ phase = "fetch" /\ wake = 0 /\ Answered
  /\ upstream' = asked \cap quoted /\ since' = 0
  /\ age' = spent /\ missed' = 0
  /\ Writes
  /\ UNCHANGED <<stack, vendor, source, asked, heart, spent>>

\* A ticker without a price is left out.  `now` was read before the fetch: the
\* interval counts from there.
Fetched ==
  /\ phase = "fetch" /\ wake = 0 /\ Answered
  /\ upstream' = asked \cap quoted /\ since' = Least(spent, Never)
  /\ age' = spent /\ missed' = 0
  /\ Writes
  /\ UNCHANGED <<stack, vendor, source, asked, heart, spent>>

\* Seeded bug: a failed fetch is recorded like one that succeeded.
FetchFailedRecorded ==
  /\ phase = "fetch" /\ wake = 0 /\ ~ Answered
  /\ since' = Least(spent, Never) /\ missed' = Least(missed + 1, MaxMissed)
  /\ UNCHANGED <<stack, vendor, memory, heart, spent, age>> /\ Writes

\* The previous read is served, and the next tick tries again.
FetchFailed ==
  /\ phase = "fetch" /\ wake = 0 /\ ~ Answered
  /\ missed' = Least(missed + 1, MaxMissed)
  /\ UNCHANGED <<stack, vendor, memory, heart, since, spent, age>> /\ Writes

\* Seeded bug: without its except clause the loop ends with the first tick that
\* could not read.
TickEndIfRead ==
  LET rest == Interval - Least(spent, Interval) IN
  /\ phase = "write" /\ wake = 0 /\ missed = 0
  /\ beat' = 0 /\ busy' = 0 /\ spent' = 0
  /\ phase' = "idle" /\ wake' \in rest..(rest + Jitter)
  /\ UNCHANGED <<stack, vendor, memory, since, age, missed>>

\* Whether or not the tick failed: the heartbeat, and the rest of the interval, none
\* when the tick was longer.
TickEnd ==
  LET rest == Interval - Least(spent, Interval) IN
  /\ phase = "write" /\ wake = 0
  /\ beat' = 0 /\ busy' = 0 /\ spent' = 0
  /\ phase' = "idle" /\ wake' \in rest..(rest + Jitter)
  /\ UNCHANGED <<stack, vendor, memory, since, age, missed>>

Process ==
  \/ Boot \/ Connected \/ SchemaFound \/ Wait \/ LookAgain \/ GiveUp
  \/ SyncCatalog \/ NothingToPrice \/ Warmed
  \/ TickCached \/ TickFetching \/ Fetched \/ FetchFailed \/ TickEnd

\* One unit of time passes in an await.
Elapse ==
  /\ wake > 0 /\ wake' = wake - 1
  /\ beat' = Least(beat + 1, Limit)
  /\ busy' = IF phase \in Sleeps \cup {"down"} THEN busy ELSE Least(busy + 1, Limit)
  /\ since' = Least(since + 1, Never)
  /\ spent' = IF phase \in {"look", "wait", "fetch", "write"} THEN Least(spent + 1, Spent)
                                                             ELSE spent
  /\ age' = IF upstream = {} THEN age ELSE Least(age + 1, Oldest)
  /\ UNCHANGED <<stack, vendor, phase, memory, missed>>

-----------------------------------------------------------------------------
(* Around it *)

\* Seeded bug: the health of the API asks for the schema.
ApiNeedsSchema == schema

\* GET /health reports the schema and what fails, and is answered 200 all the same.
ApiHealthy == TRUE

\* `up --wait` has seen both healthy: the API, and the service, whose container runs,
\* by its heartbeat.
Probe ==
  /\ stage = "up" /\ ApiHealthy /\ phase # "down" /\ beat < Limit
  /\ stage' = "migrate"
  /\ UNCHANGED <<schema, rows, seed, vendor, phase, memory, heart, wake, timers>>

\* `make migrate`, in one transaction per file; idempotent.
Migrate ==
  /\ stage = "migrate" /\ stage' = "done" /\ schema' = TRUE
  /\ UNCHANGED <<rows, seed, vendor, phase, memory, heart, wake, timers>>

\* pad_catalog, at any time.
Pad ==
  /\ schema /\ rows' = rows \cup Synthetic /\ rows' # rows
  /\ UNCHANGED <<stage, schema, seed, vendor, phase, memory, heart, wake, timers>>

\* The vendor goes away and comes back, and prices other tickers than before: it
\* answers null for those it lists and cannot price.
Vendor ==
  /\ answers' \in BOOLEAN
  /\ quoted' \in IF source = "api" THEN SUBSET Listed ELSE {quoted}
  /\ UNCHANGED <<stack, phase, memory, heart, wake, timers>>

\* In the middle of any await.
Crash == phase # "down" /\ Die

Next == Process \/ Elapse \/ Probe \/ Migrate \/ Pad \/ Vendor \/ Crash

Spec == Init /\ [][Next]_vars

\* The process and the clock go on, and the operator migrates once the stack is up.
\* Compose probes several times while a heartbeat is fresh, and does not miss every
\* process that is healthy for a while.
FairSpec ==
  Spec /\ WF_vars(Process) /\ WF_vars(Elapse) /\ SF_vars(Probe) /\ WF_vars(Migrate)

-----------------------------------------------------------------------------
(* Properties *)

\* Every variable has its type, and every timer its bound.
TypeOK ==
  /\ stage \in {"up", "migrate", "done"} /\ schema \in BOOLEAN /\ answers \in BOOLEAN
  /\ rows \subseteq Listed \cup Seed \cup Synthetic /\ seed \in {Seed, {}}
  /\ quoted \subseteq Listed \cup Seed \cup Synthetic
  /\ phase \in Phases /\ source \in {"api", "simulated"}
  /\ asked \subseteq rows /\ upstream \subseteq asked
  /\ {beat, busy} \subseteq 0..Limit /\ since \in 0..Never /\ spent \in 0..Spent
  /\ wake \in 0..Longest[phase] /\ age \in 0..Oldest /\ missed \in 0..MaxMissed

\* "The vendor rejects the whole price request if one unknown ticker is in it, so
\* the api source must never see them": no padding reaches the vendor, whenever it
\* was added and under whatever source the service ran before.
PaddingNotAsked ==
  (phase = "fetch" /\ source = "api") => asked \cap Synthetic = {}

\* The longest sleep between two touches.
Pause == Most(PollEvery, Interval) + Jitter

\* The healthcheck tells a stuck process from one that works: no process is taken for
\* dead while it waits for `make migrate` or for its turn, or for a fetch that failed,
\* unless what it awaited since, in its start or in a tick, fills the limit but for one
\* sleep; and none passes that has been stuck in it for as long as the limit.
StallsAreSeen ==
  phase # "down" => /\ beat >= Limit => busy + Pause >= Limit
                    /\ busy >= Limit => beat >= Limit

\* The two cadences: what is served was asked for less than the source's interval
\* and one tick of the loop ago, a fetch under way apart, however late the loop
\* wakes and however long a tick takes; a fetch that fails, if only by its timeout,
\* costs that tick, and not one interval of the source.
ReadInTime ==
  (upstream # {} /\ missed < MaxMissed) => age < Slip + missed * Long + FetchMax

\* "Requiring ticks before health deadlocked `make bootstrap` on a fresh volume":
\* the stack comes up, and is provisioned, if its processes die now and then or not.
Bootstrapped == <>(stage = "done")

\* Once the source answers for good, with a price for t among others or alone, t is
\* priced and stays so, whatever happened before: a start without the schema, the
\* vendor or a seed file, a crash anywhere, reads without a single price.
PricesComeBack ==
  \A t \in Listed \cup Seed \cup Synthetic :
    (<>[](/\ phase # "down" /\ Answered /\ t \in quoted
          /\ asked # {} => t \in asked))
      => <>[](t \in upstream /\ missed = 0)
=============================================================================
