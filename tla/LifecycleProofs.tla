--------------------------- MODULE LifecycleProofs ---------------------------
(***************************************************************************)
(* Types, health, padding and the age of what is served, for every set of  *)
(* tickers and every cadence: nothing is assumed of the durations but that *)
(* they are numbers, and the intervals not 0.                              *)
(***************************************************************************)
EXTENDS Lifecycle, TLAPS

-----------------------------------------------------------------------------
(* The inductive invariant *)

Holding == phase \in {"warm", "idle", "fetch", "write"}

\* What a process holds: nothing before it has read the catalog, then never the
\* padding when the vendor is its source, and no price before its first tick.
Memory ==
  /\ ~ Holding => asked = {}
  /\ ~ Holding \/ phase = "warm" => upstream = {}
  /\ Holding /\ source = "api" => asked \cap Synthetic = {}

\* How long a tick has taken, and will have when the await is over.
Budget ==
  /\ phase \in {"sync", "warm", "idle"} => spent = 0
  /\ phase = "fetch" => spent + wake <= FetchMax
  /\ phase = "write" => spent + wake <= FetchMax + WriteMax

\* The heartbeat is as old as what was awaited since, and the sleep before that.
Beats ==
  /\ busy <= beat
  /\ phase \in Sleeps => beat + wake <= busy + Pause
  /\ phase # "down" => beat <= busy + Pause

\* The age of what is served, counted by its fetch: the clock of Due.
Ages == upstream # {} => since = age \/ (since = Never /\ age >= Never)

\* When the fetch after those that failed begins, the read is no older.
Late == Slip + missed * Long

\* ... and how old it may be once the await is over: the m-th fetch in a row that
\* fails began less than m of the longest ticks after the read was due.  Prices are
\* written in a tick that serves a read not yet due, or has made it, or could not.
Served ==
  (upstream # {} /\ missed < MaxMissed) =>
    /\ phase = "idle" => age + wake < Late
    /\ phase = "fetch" => age - spent < Late
    /\ phase = "write" => \/ age - spent < Upstream /\ spent + wake <= WriteMax
                          \/ age <= spent
                          \/ missed > 0 /\ age - spent + Long < Late

LifeInv == TypeOK /\ Memory /\ Budget /\ Beats /\ Ages /\ Served

-----------------------------------------------------------------------------
(* The constants *)

\* What the durations are.
LEMMA Cadence ==
  /\ Interval \in Nat \ {0} /\ Upstream \in Nat \ {0} /\ PollEvery \in Nat \ {0}
  /\ Limit \in Nat \ {0} /\ MaxMissed \in Nat \ {0} /\ Deadline \in Nat
  /\ QueryMax \in Nat /\ SyncMax \in Nat /\ FetchMax \in Nat /\ WriteMax \in Nat
  /\ Jitter \in Nat /\ RestartMax \in Nat
  BY CadenceAssumption

\* A cached tick and any tick last so long at most, and a read is due before the
\* tick that replaces it.
LEMMA Ticks ==
  /\ Short \in Nat /\ Short >= Interval + Jitter /\ Short >= WriteMax + Jitter
  /\ Long \in Nat /\ Long >= Interval + Jitter /\ Long >= FetchMax + WriteMax + Jitter
  /\ Slip \in Nat /\ Slip >= Upstream + Short /\ Slip > Long
  BY Cadence DEF Short, Long, Slip, Most

\* One fetch more that fails costs one tick more.
LEMMA OneMissMore ==
  ASSUME NEW m \in Nat
  PROVE  /\ m * Long \in Nat
         /\ (m + 1) * Long = m * Long + Long
  BY Ticks

\* What is late is a number, past when a read is due.
LEMMA Lateness == missed \in Nat => Late \in Nat /\ Late >= Slip
  BY Ticks, OneMissMore DEF Late

\* The counters stop past what is compared with them.
LEMMA Caps ==
  /\ Never \in Nat /\ Never = Upstream + 1
  /\ Spent \in Nat /\ Spent >= FetchMax + WriteMax
  /\ Oldest \in Nat /\ Oldest >= Never /\ Oldest >= FetchMax
<1>1. MaxMissed * Long \in Nat /\ Slip >= Upstream + Interval
  BY Cadence, Ticks, OneMissMore
<1> QED BY <1>1, Cadence, Ticks DEF Never, Spent, Oldest, Most

\* The longest of each await is a number.
LEMMA Awaits ==
  /\ Phases = {"down", "connect", "look", "wait", "sync", "warm", "fetch", "write", "idle"}
  /\ Longest["fetch"] = FetchMax /\ Longest["write"] = WriteMax
  /\ Longest["idle"] = Interval + Jitter /\ Longest["wait"] = PollEvery + Jitter
  /\ \A p \in Phases : Longest[p] \in Nat
  BY Cadence DEF Phases, Longest

\* The sleeps are no longer than the longest of them.
LEMMA Pauses == Pause \in Nat /\ PollEvery + Jitter <= Pause /\ Interval + Jitter <= Pause
  BY Cadence DEF Pause, Most

-----------------------------------------------------------------------------
(* The steps *)

\* The start satisfies the invariant.
LEMMA InitLife == Init => LifeInv
<1> SUFFICES ASSUME Init PROVE LifeInv
  OBVIOUS
<1>1. wake \in 0..Longest[phase] /\ phase \in Phases
  BY Awaits DEF Init
<1>2. /\ beat \in 0..Limit /\ busy \in 0..Limit /\ since \in 0..Never /\ spent \in 0..Spent
      /\ age \in 0..Oldest /\ missed \in 0..MaxMissed
  BY Cadence, Caps DEF Init
<1>3. TypeOK
  BY <1>1, <1>2 DEF Init, TypeOK
<1> QED BY <1>2, <1>3
        DEF Init, LifeInv, Memory, Holding, Budget, Beats, Sleeps, Ages, Served

\* A process that dies leaves the heartbeat and the stored rows, and holds nothing.
LEMMA DieLife == ASSUME LifeInv, Die PROVE LifeInv'
<1>1. phase' = "down" /\ wake' \in 0..Longest[phase'] /\ phase' \in Phases
  BY Awaits DEF Die, Await
<1>2. TypeOK'
  BY <1>1, Cadence, Caps DEF Die, LifeInv, TypeOK, stack, vendor
<1>3. beat \in Nat
  BY Cadence DEF LifeInv, TypeOK
<1> QED BY <1>1, <1>2, <1>3
        DEF Die, LifeInv, Memory, Holding, Budget, Beats, Sleeps, Ages, Served

\* The steps before the loop: each touch starts the heartbeat and the count of what
\* is awaited together, and what is read from the catalog is free of padding.
LEMMA StartLife ==
  ASSUME LifeInv,
         Boot \/ Connected \/ SchemaFound \/ Wait \/ LookAgain \/ SyncCatalog \/ Warmed
  PROVE  LifeInv'
<1> USE DEF LifeInv, stack, vendor, memory, heart, timers
<1>1. /\ beat \in Nat /\ busy \in Nat /\ spent \in Nat /\ since \in 0..Never
      /\ 0 \in 0..Limit /\ 0 \in 0..Spent /\ Pause \in Nat
  BY Cadence, Caps, Pauses DEF TypeOK
<1>2. CASE Boot
  <2>1. phase' = "connect" /\ wake' \in 0..Longest[phase'] /\ phase' \in Phases
    BY <1>2, Awaits DEF Boot, Await
  <2>2. TypeOK'
    BY <1>1, <1>2, <2>1 DEF Boot, Touch, TypeOK
  <2>3. Memory' /\ Budget' /\ Ages' /\ Served'
    BY <1>2, <2>1 DEF Boot, Memory, Holding, Budget, Ages, Served
  <2>4. Beats'
    BY <1>1, <1>2, <2>1 DEF Boot, Touch, Beats, Sleeps
  <2> QED BY <2>2, <2>3, <2>4
<1>3. CASE Connected \/ SchemaFound \/ LookAgain
  <2>1. /\ phase \in {"connect", "look", "wait"} /\ phase' \in {"look", "sync"} /\ wake = 0
        /\ wake' \in 0..Longest[phase'] /\ phase' \in Phases
        /\ UNCHANGED <<stack, vendor, memory, heart, since, age, missed>>
        /\ spent' = spent \/ spent' = 0
        /\ phase' = "sync" => spent' = 0
    BY <1>3, Awaits DEF Connected, SchemaFound, LookAgain, Await
  <2>2. TypeOK'
    BY <1>1, <2>1 DEF TypeOK
  <2>3. Memory' /\ Budget' /\ Ages' /\ Served'
    BY <2>1 DEF Memory, Holding, Budget, Ages, Served
  <2>4. Beats'
    BY <1>1, <2>1 DEF Beats, Sleeps
  <2> QED BY <2>2, <2>3, <2>4
<1>4. CASE Wait
  <2>1. /\ phase = "look" /\ phase' = "wait" /\ phase' \in Phases
        /\ wake' \in PollEvery..(PollEvery + Jitter)
        /\ beat' = 0 /\ busy' = 0 /\ UNCHANGED <<stack, vendor, memory, timers>>
    BY <1>4, Awaits DEF Wait, Touch
  <2>2. wake' \in 0..Longest[phase'] /\ wake' \in Nat /\ wake' <= Pause
    BY <2>1, Awaits, Cadence, Pauses
  <2>3. TypeOK'
    BY <1>1, <2>1, <2>2 DEF TypeOK
  <2>4. Memory' /\ Budget' /\ Ages' /\ Served'
    BY <2>1 DEF Memory, Holding, Budget, Ages, Served
  <2>5. Beats'
    <3>1. PICK w \in Nat : wake' = w /\ w <= Pause
      BY <2>2
    <3> QED BY <1>1, <2>1, <3>1 DEF Beats
  <2> QED BY <2>3, <2>4, <2>5
<1>5. CASE SyncCatalog
  <2>1. /\ phase = "sync" /\ phase' = "warm" /\ wake' \in 0..Longest[phase']
        /\ phase' \in Phases
        /\ UNCHANGED <<stage, schema, seed, vendor, source, upstream, heart, timers>>
    BY <1>5, Awaits DEF SyncCatalog, Await
  <2>2. rows' \subseteq Listed \cup Seed \cup Synthetic
    BY <1>5 DEF SyncCatalog, Catalog, TypeOK
  <2>3. /\ asked' \subseteq rows' /\ upstream = {} /\ upstream' = {}
        /\ source' = "api" => asked' \cap Synthetic = {}
    BY <1>5 DEF SyncCatalog, Pricing, Memory, Holding
  <2>4. TypeOK'
    BY <2>1, <2>2, <2>3 DEF TypeOK
  <2>5. Memory' /\ Budget' /\ Ages' /\ Served'
    BY <2>1, <2>3 DEF Memory, Holding, Budget, Ages, Served
  <2>6. Beats'
    BY <1>1, <2>1 DEF Beats, Sleeps
  <2> QED BY <2>4, <2>5, <2>6
<1>6. CASE Warmed
  <2>1. /\ phase = "warm" /\ phase' = "idle" /\ wake = 0 /\ wake' = 0
        /\ UNCHANGED <<stack, answers, memory, heart, timers>>
    BY <1>6 DEF Warmed
  <2>2. wake' \in 0..Longest[phase'] /\ phase' \in Phases
    BY <2>1, Awaits
  <2>3. quoted' \subseteq Listed \cup Seed \cup Synthetic
    BY <1>6 DEF Warmed, TypeOK
  <2>4. TypeOK'
    BY <2>1, <2>2, <2>3 DEF TypeOK
  <2>5. Memory' /\ Budget' /\ Ages' /\ Served'
    BY <2>1 DEF Memory, Holding, Budget, Ages, Served
  <2>6. Beats'
    BY <1>1, <2>1 DEF Beats, Sleeps
  <2> QED BY <2>4, <2>5, <2>6
<1> QED BY <1>2, <1>3, <1>4, <1>5, <1>6

\* A tick begins when its await is over: a read that is not due is served again, and
\* one that is due is less than a tick late.
LEMMA TickLife ==
  ASSUME LifeInv, TickCached \/ TickFetching
  PROVE  LifeInv'
<1> USE DEF LifeInv, stack, vendor, memory, heart, timers
<1>1. /\ phase = "idle" /\ wake = 0 /\ phase' \in {"write", "fetch"}
      /\ wake' \in 0..Longest[phase'] /\ phase' \in Phases
      /\ UNCHANGED <<stack, vendor, memory, heart, timers>>
  BY Awaits DEF TickCached, TickFetching, Await
<1>2. /\ beat \in Nat /\ busy \in Nat /\ spent = 0 /\ since \in 0..Never /\ age \in 0..Oldest
      /\ missed \in 0..MaxMissed /\ Pause \in Nat /\ wake' \in Nat
      /\ phase' = "fetch" => wake' <= FetchMax
      /\ phase' = "write" => wake' <= WriteMax
  BY <1>1, Cadence, Caps, Pauses, Awaits DEF TypeOK, Budget
<1>3. TypeOK' /\ Memory' /\ Ages'
  BY <1>1 DEF TypeOK, Memory, Holding, Ages
<1>4. Budget'
  <2>1. spent' = 0 /\ FetchMax \in Nat /\ WriteMax \in Nat
    BY <1>1, <1>2, Cadence
  <2>2. PICK w \in Nat : /\ wake' = w
                         /\ phase' = "fetch" => w <= FetchMax
                         /\ phase' = "write" => w <= WriteMax
    BY <1>2
  <2>3. /\ phase' = "fetch" => spent' + wake' <= FetchMax
        /\ phase' = "write" => spent' + wake' <= FetchMax + WriteMax
    BY <2>1, <2>2
  <2> QED BY <1>1, <2>3 DEF Budget
<1>5. Beats'
  BY <1>1, <1>2 DEF Beats, Sleeps
<1>6. Served'
  <2> SUFFICES ASSUME upstream # {}, missed < MaxMissed PROVE Served'
    BY <1>1 DEF Served
  <2>1. age < Late /\ Late \in Nat /\ Late' = Late /\ age \in Nat
    <3>1. age \in Nat /\ missed \in Nat
      BY <1>2, Caps, Cadence
    <3>2. age + wake < Late /\ wake = 0 /\ Late \in Nat
      BY <1>1, <3>1, Lateness DEF Served
    <3> QED BY <1>1, <3>1, <3>2 DEF Late
  <2>2. CASE TickCached
    <3>1. since < Upstream /\ phase' = "write"
      BY <2>2, <1>2, Caps, Cadence DEF TickCached, Due, Await
    <3>2. age < Upstream
      BY <3>1, Caps, Cadence DEF Ages
    <3>3. age' = age /\ spent' = 0 /\ WriteMax \in Nat /\ Upstream \in Nat
      BY <1>1, <1>2, Cadence
    <3>4. PICK w \in Nat : wake' = w /\ w <= WriteMax
      BY <1>2, <3>1
    <3>5. age' - spent' < Upstream /\ spent' + wake' <= WriteMax
      BY <2>1, <3>2, <3>3, <3>4
    <3> QED BY <3>1, <3>5 DEF Served
  <2>3. CASE TickFetching
    <3>1. phase' = "fetch"
      BY <2>3 DEF TickFetching, Await
    <3>2. age' - spent' < Late'
      BY <1>1, <1>2, <2>1
    <3> QED BY <3>1, <3>2 DEF Served
  <2> QED BY <2>2, <2>3
<1> QED BY <1>3, <1>4, <1>5, <1>6

\* A fetch is over: the read is new, or older than before by a tick that failed.
LEMMA AnswerLife ==
  ASSUME LifeInv, Fetched \/ FetchFailed
  PROVE  LifeInv'
<1> USE DEF LifeInv, stack, vendor, memory, heart
<1>1. /\ phase = "fetch" /\ wake = 0 /\ phase' = "write"
      /\ wake' \in 0..Longest[phase'] /\ phase' \in Phases
      /\ UNCHANGED <<stack, vendor, source, asked, heart, spent>>
  BY Awaits DEF Fetched, FetchFailed, Writes, Await
<1>2. /\ beat \in Nat /\ busy \in Nat /\ spent \in 0..Spent /\ spent <= FetchMax
      /\ since \in 0..Never /\ age \in 0..Oldest /\ missed \in 0..MaxMissed /\ MaxMissed \in Nat
      /\ Pause \in Nat /\ wake' \in 0..WriteMax
  BY <1>1, Cadence, Pauses, Awaits DEF TypeOK, Budget
<1>3. Budget'
  <2>1. spent' + wake' <= FetchMax + WriteMax
    <3>1. /\ spent \in Nat /\ spent' = spent /\ spent <= FetchMax
          /\ FetchMax \in Nat /\ WriteMax \in Nat
      BY <1>1, <1>2, Cadence, Caps
    <3>2. PICK w \in Nat : wake' = w /\ w <= WriteMax
      BY <1>2, Cadence
    <3> QED BY <3>1, <3>2
  <2> QED BY <1>1, <2>1 DEF Budget
<1>4. Beats'
  BY <1>1, <1>2 DEF Beats, Sleeps
<1>5. CASE Fetched
  <2>1. /\ upstream' \subseteq asked /\ since' = Least(spent, Never) /\ age' = spent
        /\ missed' = 0
    BY <1>5 DEF Fetched
  <2>2. since' \in 0..Never /\ age' \in 0..Oldest /\ missed' \in 0..MaxMissed
    BY <1>2, <2>1, Caps, Cadence DEF Least
  <2>3. TypeOK'
    BY <1>1, <2>1, <2>2 DEF TypeOK
  <2>4. Memory'
    BY <1>1 DEF Memory, Holding
  <2>5. Ages'
    BY <1>2, <2>1, Caps DEF Ages, Least
  <2>6. Served'
    BY <1>1, <1>2, <2>1, Caps DEF Served
  <2> QED BY <1>3, <1>4, <2>3, <2>4, <2>5, <2>6
<1>6. CASE FetchFailed
  <2>1. UNCHANGED <<upstream, since, age>> /\ missed' = Least(missed + 1, MaxMissed)
    BY <1>6 DEF FetchFailed
  <2>2. missed' \in 0..MaxMissed
    BY <1>2, <2>1 DEF Least
  <2>3. TypeOK'
    BY <1>1, <2>1, <2>2 DEF TypeOK
  <2>4. Memory' /\ Ages'
    BY <1>1, <2>1 DEF Memory, Holding, Ages
  <2>5. Served'
    <3> SUFFICES ASSUME upstream # {}, missed' < MaxMissed PROVE Served'
      BY <2>1 DEF Served
    <3>1. missed' = missed + 1 /\ missed < MaxMissed /\ missed \in Nat
      BY <1>2, <2>1 DEF Least
    <3>2. missed' \in Nat /\ Late' = Late + Long /\ Late \in Nat /\ Long \in Nat
      <4>1. /\ Slip' = Slip /\ Long' = Long /\ Slip \in Nat /\ Long \in Nat
            /\ missed * Long \in Nat /\ (missed + 1) * Long = missed * Long + Long
        BY <3>1, OneMissMore, Ticks DEF Slip, Long, Short, Most
      <4>2. Late' = Slip + (missed + 1) * Long
        BY <3>1, <4>1 DEF Late
      <4> QED BY <3>1, <4>1, <4>2, Lateness DEF Late
    <3>3. age \in Nat /\ spent \in Nat /\ age - spent < Late
      BY <1>1, <1>2, <2>1, <3>1, Caps DEF Served
    <3>4. missed' > 0 /\ age - spent + Long < Late'
      BY <3>1, <3>2, <3>3
    <3> QED BY <1>1, <2>1, <3>4 DEF Served
  <2> QED BY <1>3, <1>4, <2>3, <2>4, <2>5
<1> QED BY <1>5, <1>6

\* The end of a tick: the heartbeat is touched, and the next one begins after the rest
\* of the interval, or at once.
LEMMA EndLife == ASSUME LifeInv, TickEnd PROVE LifeInv'
<1> USE DEF LifeInv, stack, vendor, memory
<1> DEFINE rest == Interval - Least(spent, Interval)
<1>1. /\ phase = "write" /\ wake = 0 /\ phase' = "idle" /\ phase' \in Phases
      /\ beat' = 0 /\ busy' = 0 /\ spent' = 0 /\ wake' \in rest..(rest + Jitter)
      /\ UNCHANGED <<stack, vendor, memory, since, age, missed>>
  BY Awaits DEF TickEnd
<1>2. /\ spent \in Nat /\ spent <= FetchMax + WriteMax /\ age \in 0..Oldest
      /\ missed \in 0..MaxMissed
  BY <1>1, Caps DEF TypeOK, Budget
<1>3. /\ rest \in Nat /\ rest <= Interval /\ spent + rest = Most(spent, Interval)
      /\ wake' \in Nat /\ wake' <= rest + Jitter
  BY <1>1, <1>2, Cadence DEF Least, Most
<1>4. wake' \in 0..Longest[phase'] /\ wake' <= Pause
  BY <1>1, <1>3, Awaits, Cadence, Pauses
<1>5. TypeOK'
  BY <1>1, <1>4, Cadence, Caps DEF TypeOK
<1>6. Memory' /\ Ages'
  BY <1>1 DEF Memory, Holding, Ages
<1>7. Budget'
  BY <1>1 DEF Budget
<1>8. Beats'
  <2>1. PICK w \in Nat : wake' = w /\ w <= Pause
    BY <1>3, <1>4
  <2> QED BY <1>1, <2>1, Pauses DEF Beats
<1>9. Served'
  <2> SUFFICES ASSUME upstream # {}, missed < MaxMissed,
                      NEW w \in Nat, wake' = w, w <= rest + Jitter
               PROVE  age + w < Late
    <3>1. Late' = Late
      BY <1>1 DEF Late
    <3> QED BY <1>1, <1>3, <3>1 DEF Served
  <2>1. /\ missed \in Nat /\ Late \in Nat /\ Late >= Slip /\ age \in Nat
        /\ spent \in Nat /\ spent <= FetchMax + WriteMax
    BY <1>2, Lateness, Caps, Cadence
  <2>2. /\ spent <= Interval => spent + w <= Interval + Jitter
        /\ spent > Interval => w <= Jitter
    BY <2>1, Cadence DEF Least
  <2>3. /\ Interval \in Nat /\ Jitter \in Nat /\ WriteMax \in Nat /\ FetchMax \in Nat
        /\ Upstream \in Nat
    BY Cadence
  <2>4. spent + w <= Long
    BY <2>1, <2>2, <2>3, Ticks
  <2>5. CASE age - spent < Upstream /\ spent <= WriteMax
    <3>1. spent + w <= Short
      BY <2>1, <2>2, <2>3, <2>5, Ticks
    <3> QED BY <2>1, <2>3, <2>5, <3>1, Ticks
  <2>6. CASE age <= spent \/ age - spent + Long < Late
    BY <2>1, <2>3, <2>4, <2>6, Ticks
  <2>7. \/ age - spent < Upstream /\ spent + wake <= WriteMax
        \/ age <= spent
        \/ age - spent + Long < Late
    BY <1>1 DEF Served
  <2>8. spent <= WriteMax \/ ~ (spent + wake <= WriteMax)
    BY <1>1, <2>1, <2>3
  <2> QED BY <2>5, <2>6, <2>7, <2>8
<1> QED BY <1>5, <1>6, <1>7, <1>8, <1>9

\* Time passes: every age grows by what the await loses, and no counter saturates
\* while something depends on it.
LEMMA ElapseLife == ASSUME LifeInv, Elapse PROVE LifeInv'
<1> USE DEF LifeInv, stack, vendor, memory
<1>1. /\ wake > 0 /\ wake' = wake - 1 /\ phase' = phase /\ phase \in Phases
      /\ UNCHANGED <<stack, vendor, memory, missed>>
  BY DEF Elapse, TypeOK
<1>2. /\ wake \in Nat /\ wake' \in 0..Longest[phase'] /\ wake' \in Nat
  BY <1>1, Awaits DEF TypeOK
<1>3. /\ beat \in 0..Limit /\ busy \in 0..Limit /\ beat' \in 0..Limit /\ busy' \in 0..Limit
      /\ beat' = Least(beat + 1, Limit)
      /\ busy' = IF phase \in Sleeps \cup {"down"} THEN busy ELSE Least(busy + 1, Limit)
  BY Cadence DEF Elapse, TypeOK, Least
<1>4. /\ since \in 0..Never /\ since' = Least(since + 1, Never) /\ since' \in 0..Never
  BY Caps DEF Elapse, TypeOK, Least
<1>5. /\ spent \in 0..Spent /\ spent' \in 0..Spent
      /\ phase \in {"sync", "warm", "idle"} => spent' = spent
      /\ phase \in {"fetch", "write"} => spent' = Least(spent + 1, Spent)
  BY Caps DEF Elapse, TypeOK, Least
<1>6. /\ age \in 0..Oldest /\ age' \in 0..Oldest
      /\ upstream # {} => age' = Least(age + 1, Oldest)
  BY Caps DEF Elapse, TypeOK, Least
<1>7. TypeOK'
  BY <1>1, <1>2, <1>3, <1>4, <1>5, <1>6 DEF TypeOK
<1>8. Memory'
  BY <1>1 DEF Memory, Holding
<1>9. phase \in {"fetch", "write"} => spent' = spent + 1
  BY <1>1, <1>2, <1>5, Caps, Cadence DEF Budget, Least
<1>10. Budget'
  <2>1. CASE phase \in {"fetch", "write"}
    <3>1. /\ wake' = wake - 1 /\ spent' = spent + 1 /\ wake \in Nat /\ wake' \in Nat
          /\ spent \in Nat
      BY <1>1, <1>2, <1>5, <1>9, <2>1, Caps
    <3>2. spent' + wake' = spent + wake
      BY <3>1
    <3> QED BY <1>1, <2>1, <3>2 DEF Budget
  <2>2. CASE phase \notin {"fetch", "write"}
    BY <1>1, <1>5, <2>2 DEF Budget
  <2> QED BY <2>1, <2>2
<1>11. Beats'
  <2>1. CASE phase \in Sleeps \cup {"down"}
    BY <1>1, <1>2, <1>3, <2>1, Cadence, Pauses DEF Beats, Sleeps, Least
  <2>2. CASE phase \notin Sleeps \cup {"down"}
    BY <1>1, <1>3, <2>2, Cadence, Pauses DEF Beats, Least
  <2> QED BY <2>1, <2>2
<1>12. Ages'
  BY <1>1, <1>4, <1>6, Caps DEF Ages, Least
<1>13. Served'
  <2> SUFFICES ASSUME upstream # {}, missed < MaxMissed PROVE Served'
    BY <1>1 DEF Served
  <2>1. /\ age' <= age + 1 /\ age' \in Nat /\ age \in Nat /\ wake \in Nat /\ wake' \in Nat
        /\ wake' = wake - 1 /\ Late \in Nat /\ Late' = Late
    <3>1. age \in Nat /\ age' \in Nat /\ age' <= age + 1
      BY <1>6, Caps DEF Least
    <3>2. missed \in Nat /\ Late' = Late
      BY <1>1, Cadence DEF TypeOK, Late
    <3> QED BY <1>1, <1>2, <3>1, <3>2, Lateness
  <2>2. PICK a \in Nat : age' = a /\ a <= age + 1
    BY <2>1
  <2>3. CASE phase = "idle"
    <3>1. age + wake < Late
      BY <2>3 DEF Served
    <3>2. age' + wake' < Late'
      BY <2>1, <2>2, <3>1
    <3> QED BY <1>1, <2>3, <3>2 DEF Served
  <2>4. CASE phase \in {"fetch", "write"}
    <3>1. spent' = spent + 1 /\ spent \in Nat
      BY <1>5, <1>9, <2>4, Caps
    <3>2. /\ age' - spent' <= age - spent /\ spent' + wake' = spent + wake
          /\ age <= spent => age' <= spent'
      BY <2>1, <2>2, <3>1
    <3>3. CASE phase = "fetch"
      <4>1. age - spent < Late
        BY <3>3 DEF Served
      <4>2. age' - spent' < Late'
        BY <2>1, <2>2, <3>1, <4>1
      <4> QED BY <1>1, <3>3, <4>2 DEF Served
    <3>4. CASE phase = "write"
      <4>1. \/ age - spent < Upstream /\ spent + wake <= WriteMax
            \/ age <= spent
            \/ missed > 0 /\ age - spent + Long < Late
        BY <3>4 DEF Served
      <4>2. Upstream \in Nat /\ WriteMax \in Nat /\ Long \in Nat
        BY Cadence, Ticks
      <4>3. \/ age' - spent' < Upstream /\ spent' + wake' <= WriteMax
            \/ age' <= spent'
            \/ missed > 0 /\ age' - spent' + Long < Late'
        BY <2>1, <2>2, <3>1, <4>1, <4>2
      <4> QED BY <1>1, <3>4, <4>3 DEF Served
    <3> QED BY <2>4, <3>3, <3>4
  <2> QED BY <1>1, <2>3, <2>4 DEF Served
<1> QED BY <1>7, <1>8, <1>10, <1>11, <1>12, <1>13

\* The stack, the operator and the vendor touch nothing a process holds.
LEMMA AroundLife ==
  ASSUME LifeInv, Probe \/ Migrate \/ Pad \/ Vendor \/ UNCHANGED vars
  PROVE  LifeInv'
<1> USE DEF LifeInv, TypeOK, Memory, Holding, Budget, Beats, Ages, Served, Late, stack,
            vendor, memory, heart, timers
<1>1. CASE Probe
  BY <1>1 DEF Probe
<1>2. CASE Migrate
  BY <1>2 DEF Migrate
<1>3. CASE Pad
  BY <1>3 DEF Pad
<1>4. CASE Vendor
  BY <1>4 DEF Vendor
<1>5. CASE UNCHANGED vars
  BY <1>5 DEF vars
<1> QED BY <1>1, <1>2, <1>3, <1>4, <1>5

\* Every step keeps the invariant.
LEMMA StepLife == LifeInv /\ [Next]_vars => LifeInv'
  BY StartLife, TickLife, AnswerLife, EndLife, ElapseLife, AroundLife, DieLife
     DEF Next, Process, GiveUp, NothingToPrice, Crash

\* So it holds in every state.
LEMMA LifeHolds == Spec => []LifeInv
  BY InitLife, StepLife, PTL DEF Spec

-----------------------------------------------------------------------------
(* The theorems *)

\* Every timer keeps its bound, whatever the durations.
THEOREM LifecycleTypes == Spec => []TypeOK
<1>1. LifeInv => TypeOK
  BY DEF LifeInv
<1> QED BY <1>1, LifeHolds, PTL

\* all_tickers: no padding reaches the vendor, whenever it was added.
THEOREM PaddingIsHeldBack == Spec => []PaddingNotAsked
<1>1. LifeInv => PaddingNotAsked
  BY DEF LifeInv, Memory, Holding, PaddingNotAsked
<1> QED BY <1>1, LifeHolds, PTL

\* The heartbeat of start, _wait_for_schema and run_forever: the healthcheck fails when
\* a process has been stuck for the limit, and passes until it has been for the limit
\* less one sleep, however long its awaits are.
THEOREM HealthTellsStalls == Spec => []StallsAreSeen
<1>1. LifeInv => StallsAreSeen
  <2> SUFFICES ASSUME LifeInv, phase # "down"
               PROVE  (beat >= Limit => busy + Pause >= Limit) /\ (busy >= Limit => beat >= Limit)
    BY DEF StallsAreSeen
  <2>1. beat \in Nat /\ busy \in Nat /\ Limit \in Nat /\ Pause \in Nat
    BY Cadence, Pauses DEF LifeInv, TypeOK
  <2>2. busy <= beat /\ beat <= busy + Pause
    BY DEF LifeInv, Beats
  <2> QED BY <2>1, <2>2
<1> QED BY <1>1, LifeHolds, PTL

\* _current_prices: what is served was asked for less than the interval of the source
\* and one tick ago, a fetch apart, and one tick more for each fetch that failed.
THEOREM ServedInTime == Spec => []ReadInTime
<1>1. ASSUME LifeInv PROVE ReadInTime
  <2>1. SUFFICES ASSUME upstream # {}, missed < MaxMissed PROVE age < Late + FetchMax
    BY DEF ReadInTime, Late
  <2>2. /\ missed \in Nat /\ age \in Nat /\ spent \in Nat /\ wake \in Nat
        /\ FetchMax \in Nat /\ WriteMax \in Nat /\ Upstream \in Nat
        /\ Interval \in Nat /\ Jitter \in Nat
    BY <1>1, Awaits, Caps, Cadence DEF LifeInv, TypeOK
  <2>3. Late \in Nat /\ Late >= Slip
    BY <2>2, Lateness
  <2>4. phase \in {"idle", "fetch", "write"}
    BY <1>1, <2>1 DEF LifeInv, Memory, Holding
  <2>5. CASE phase = "idle"
    <3>1. age + wake < Late
      BY <1>1, <2>1, <2>5 DEF LifeInv, Served
    <3> QED BY <2>2, <2>3, <3>1
  <2>6. CASE phase = "fetch"
    <3>1. age - spent < Late /\ spent + wake <= FetchMax
      BY <1>1, <2>1, <2>6 DEF LifeInv, Served, Budget
    <3> QED BY <2>2, <2>3, <3>1
  <2>7. CASE phase = "write"
    <3>1. spent + wake <= FetchMax + WriteMax
      BY <1>1, <2>7 DEF LifeInv, Budget
    <3>2. \/ age - spent < Upstream /\ spent + wake <= WriteMax
          \/ age <= spent
          \/ age - spent + Long < Late
      BY <1>1, <2>1, <2>7 DEF LifeInv, Served
    <3> QED BY <2>2, <2>3, <3>1, <3>2, Ticks
  <2> QED BY <2>4, <2>5, <2>6, <2>7
<1> QED BY <1>1, LifeHolds, PTL
=============================================================================
