------------------------- MODULE PriceServiceProofs -------------------------
(***************************************************************************)
(* What PriceService keeps under every fault of the model, for every value *)
(* of its constants: its types, the promise of the guarded stores, and one *)
(* source of the stored rows.                                              *)
(***************************************************************************)
EXTENDS PriceService, TimestampsProofs

-----------------------------------------------------------------------------
(* Types *)

\* A missing quote is not a quote: its stamp is 0 and its source is no source.
LEMMA NoQuoteIsNoQuote == NoQuote \notin Quotes /\ NoQuote \in MaybeQuotes
  BY DEF NoQuote, Quotes, MaybeQuotes

\* The start states have their types.
LEMMA InitType == Init => TypeOK
  BY MaxStampAssumption, SourcesAssumption
     DEF Init, TypeOK, Phases, NoCalls, Nothing, MaybeQuotes, Kinds, Owners

\* The rows a tick builds are quotes: every ticker in the scope of a write has a
\* price, and a stamp that is either the one of this tick or an older one.
LEMMA RowsType ==
  ASSUME TypeOK, NEW read \in Reads, Stamped(read) # {} => clock < MaxStamp,
         NEW k \in Kinds
  PROVE  Rows(read, Scope(read, k)) \in [Tickers -> MaybeQuotes]
<1>1. Scope(read, k) \subseteq Priced(read)
  BY DEF Scope, Changed, Priced
<1>2. ASSUME NEW t \in Priced(read)
      PROVE  [price |-> read[t], at |-> Stamps(read)[t], source |-> source] \in Quotes
  <2>1. t \in Tickers /\ read[t] \in Prices
    BY DEF Priced, Reads
  <2>2. Stamps(read)[t] \in 1..MaxStamp
    <3>1. CASE t \in Stamped(read)
      BY <2>1, <3>1, MaxStampAssumption DEF Stamps, TypeOK
    <3>2. CASE t \notin Stamped(read)
      <4>1. eff[t] # 0
        BY <3>2, <2>1 DEF Stamped, Priced
      <4> QED BY <2>1, <3>2, <4>1, MaxStampAssumption DEF Stamps, TypeOK
    <3> QED BY <3>1, <3>2
  <2>3. source \in SourceNames
    BY SourcesAssumption DEF TypeOK
  <2> QED BY <2>1, <2>2, <2>3 DEF Quotes
<1> QED BY <1>1, <1>2 DEF Rows, MaybeQuotes

\* A tick keeps the types.
LEMMA TickType ==
  ASSUME TypeOK, NEW read \in Reads, Tick(read)
  PROVE  TypeOK'
<1>1. clock' \in 0..MaxStamp
  BY MaxStampAssumption DEF Tick, TypeOK
<1>2. eff' \in [Tickers -> 0..MaxStamp]
  BY MaxStampAssumption DEF Tick, TypeOK, Stamps
<1>3. calls' \in [Owners -> [Kinds -> [Tickers -> MaybeQuotes]]]
  <2>1. [k \in Kinds |-> Rows(read, Scope(read, k))] \in [Kinds -> [Tickers -> MaybeQuotes]]
    BY RowsType DEF Tick
  <2> QED BY <2>1 DEF Tick, TypeOK
<1> QED BY <1>1, <1>2, <1>3 DEF Tick, TypeOK, Reads, Phases, stores

\* The steps of the start-up keep the types.
LEMMA BootType == ASSUME TypeOK, Boot PROVE TypeOK'
<1> USE DEF TypeOK, Phases, process, stores
<1>1. ASSUME NEW s \in Sources, Start(s) PROVE TypeOK'
  BY <1>1 DEF Start
<1>2. CASE ReconcileClean
  BY <1>2 DEF ReconcileClean
<1>3. CASE Wipe
  BY <1>3, NoQuoteIsNoQuote DEF Wipe
<1>4. CASE Adopt
  <2>1. ASSUME NEW t \in Tickers, table[t].source = "api"
        PROVE  [table[t] EXCEPT !.source = "simulated"] \in MaybeQuotes
    BY <2>1 DEF MaybeQuotes, Quotes, NoQuote, SourceNames
  <2> QED BY <1>4, <2>1 DEF Adopt
<1>5. ASSUME NEW t \in Tickers, FlushKey(t) PROVE TypeOK'
  BY <1>5, NoQuoteIsNoQuote DEF FlushKey
<1>6. CASE FlushDone
  BY <1>6 DEF FlushDone
<1>7. CASE ReadRows
  <2>1. \A t \in Tickers : table[t].price \in Prices \cup {None} /\ table[t].at \in 0..MaxStamp
    BY MaxStampAssumption DEF MaybeQuotes, Quotes, NoQuote
  <2>2. calls' \in [Owners -> [Kinds -> [Tickers -> MaybeQuotes]]]
    BY <1>7 DEF ReadRows, Owners, Kinds
  <2> QED BY <1>7, <2>1, <2>2 DEF ReadRows
<1>8. CASE Warmed
  BY <1>8 DEF Warmed
<1> QED BY <1>1, <1>2, <1>3, <1>4, <1>5, <1>6, <1>7, <1>8 DEF Boot

\* So do the answers of Redis, Postgres and Centrifugo, ...
LEMMA CallsType == ASSUME TypeOK, CacheCalls \/ TableCalls \/ FeedCalls PROVE TypeOK'
<1> USE NoQuoteIsNoQuote DEF TypeOK, Phases, process
<1>1. ASSUME NEW o \in Owners, NEW t \in Tickers, CacheWrite(o, t) PROVE TypeOK'
  BY <1>1 DEF CacheWrite, Kinds
<1>2. ASSUME NEW o \in Owners, TableWrite(o) PROVE TypeOK'
  BY <1>2 DEF TableWrite, Kinds, Nothing
<1>3. ASSUME NEW o \in Owners, NEW t \in Tickers, FeedWrite(o, t) PROVE TypeOK'
  BY <1>3 DEF FeedWrite, Kinds
<1> QED BY <1>1, <1>2, <1>3 DEF CacheCalls, TableCalls, FeedCalls

\* ... and every failure and loss.
LEMMA FailuresType == ASSUME TypeOK, Failures \/ Losses PROVE TypeOK'
<1> USE NoQuoteIsNoQuote DEF TypeOK, Phases, process, stores
<1>1. ASSUME NEW o \in Owners, NEW t \in Tickers, FeedRejects(o, t) PROVE TypeOK'
  BY <1>1 DEF FeedRejects, Kinds
<1>2. ASSUME NEW o \in Owners, NEW k \in Kinds, CallFails(o, k) PROVE TypeOK'
  BY <1>2 DEF CallFails, Nothing
<1>3. ASSUME NEW k \in Kinds, Raise(k) PROVE TypeOK'
  BY <1>3 DEF Raise, NoCalls, Nothing, Owners
<1>4. ASSUME Die PROVE TypeOK'
  BY <1>4, MaxStampAssumption DEF Die, NoCalls, Nothing
<1>5. CASE RedisRestart
  BY <1>5 DEF RedisRestart, Nothing
<1>6. ASSUME NEW t \in Tickers, Expire(t) PROVE TypeOK'
  BY <1>6 DEF Expire
<1> QED BY <1>1, <1>2, <1>3, <1>4, <1>5, <1>6 DEF Failures, Losses, Crash, Stop

\* Every step keeps the types.
LEMMA StepType == TypeOK /\ [Next]_vars => TypeOK'
<1> SUFFICES ASSUME TypeOK, [Next]_vars PROVE TypeOK'
  OBVIOUS
<1>1. CASE Boot
  BY <1>1, BootType
<1>2. CASE Loop
  <2>1. CASE TickWithoutPrices
    BY <2>1 DEF TickWithoutPrices, TypeOK, stores
  <2>2. ASSUME NEW read \in Reads, Tick(read) PROVE TypeOK'
    BY <2>2, TickType
  <2>3. CASE EndTick
    BY <2>3 DEF EndTick, TypeOK, stores, Phases
  <2> QED BY <1>2, <2>1, <2>2, <2>3 DEF Loop
<1>3. CASE CacheCalls \/ TableCalls \/ FeedCalls
  BY <1>3, CallsType
<1>4. CASE Failures \/ Losses
  BY <1>4, FailuresType
<1>5. CASE UNCHANGED vars
  BY <1>5 DEF vars, TypeOK
<1> QED BY <1>1, <1>2, <1>3, <1>4, <1>5 DEF Next

\* Type correctness: in particular no write is ever given a row for a ticker
\* without a price or without a stamp, whatever the source leaves out.
THEOREM TypeCorrect == Spec => []TypeOK
  BY InitType, StepType, PTL DEF Spec

-----------------------------------------------------------------------------
(* The promise of the guarded stores *)

\* Equal operators of the two modules.
LEMMA SameQuotes ==
  Stores!NoQuote = NoQuote /\ Stores!Nothing = Nothing /\ Stores!Quotes = Quotes
  BY DEF Stores!NoQuote, NoQuote, Stores!Nothing, Nothing, Stores!Quotes, Quotes,
         Stores!SourceNames, SourceNames

\* A step that touches neither store is a stutter of the promise.
LEMMA StoresStutter == ASSUME UNCHANGED <<table, cache>> PROVE [Stores!Next]_(Stores!vars)
  BY DEF Stores!vars

\* The upsert of a call replaces rows by newer ones.
LEMMA TableWriteMoves ==
  ASSUME TypeOK, NEW o \in Owners, TableWrite(o)
  PROVE  Stores!TableMoves
<1>1. calls[o]["table"] \in [Tickers -> MaybeQuotes]
  BY DEF TypeOK, Kinds
<1>2. ASSUME NEW t \in Tickers, table'[t] # table[t]
      PROVE  table'[t] \in Quotes /\ table'[t].at > table[t].at
  <2>1. table'[t] = calls[o]["table"][t] /\ calls[o]["table"][t] # NoQuote
        /\ TableAccepts(table[t], calls[o]["table"][t])
    BY <1>2 DEF TableWrite, TypeOK
  <2> QED BY <1>1, <2>1 DEF TableAccepts, MaybeQuotes
<1> QED BY <1>2, SameQuotes DEF TableWrite, Stores!TableMoves

\* The compare-and-set of one key replaces it by a quote that is not older.
LEMMA CacheWriteMoves ==
  ASSUME TypeOK, NEW o \in Owners, NEW t \in Tickers, CacheWrite(o, t)
  PROVE  [Stores!Next]_(Stores!vars)
<1>1. CASE cache' = cache
  BY <1>1, StoresStutter DEF CacheWrite
<1>2. CASE cache' # cache
  <2> DEFINE quote == calls[o]["cache"][t]
  <2>1. quote \in Quotes
    BY DEF CacheWrite, TypeOK, Kinds, MaybeQuotes
  <2>2. CacheAccepts(cache[t], quote) /\ cache' = [cache EXCEPT ![t] = quote] /\ table' = table
    BY <1>2 DEF CacheWrite
  <2>3. quote.at \in Nat /\ cache[t].at \in Nat
    <3>1. \A q \in MaybeQuotes : q.at \in Nat
      BY MaxStampAssumption DEF MaybeQuotes, Quotes, NoQuote
    <3> QED BY <2>1, <3>1 DEF TypeOK, MaybeQuotes
  <2>4. quote.at >= cache[t].at
    <3>1. CASE cache[t] = NoQuote
      BY <2>3, <3>1 DEF NoQuote
    <3>2. CASE cache[t] # NoQuote
      <4>1. ~ After(ToIso(cache[t].at), ToIso(quote.at))
        BY <2>2, <3>2 DEF CacheAccepts
      <4> QED BY <2>3, <4>1, TextOrderIsTimeOrder
    <3> QED BY <3>1, <3>2
  <2>5. cache'[t] = quote
    BY <2>2 DEF TypeOK
  <2> HIDE DEF quote
  <2>6. /\ cache'[t] \in Stores!Quotes /\ cache'[t].at >= cache[t].at
        /\ cache' = [cache EXCEPT ![t] = cache'[t]]
    <3>1. cache'[t] \in Stores!Quotes
      BY <2>1, <2>5, SameQuotes
    <3>2. cache'[t].at >= cache[t].at
      BY <2>4, <2>5
    <3>3. cache' = [cache EXCEPT ![t] = cache'[t]]
      BY <2>2, <2>5
    <3> QED BY <3>1, <3>2, <3>3
  <2>7. Stores!CacheMoves
    BY <2>2, <2>6 DEF Stores!CacheMoves
  <2> QED BY <2>7 DEF Stores!Next
<1> QED BY <1>1, <1>2

\* Every step of the service is a step of the promise, or none.
LEMMA StepKeepsPromise == ASSUME TypeOK, [Next]_vars PROVE [Stores!Next]_(Stores!vars)
<1> USE DEF stores
<1>1. CASE Boot
  <2>1. CASE Wipe
    <3>1. Stores!RowsWiped
      BY <2>1, SameQuotes DEF Wipe, Stores!RowsWiped
    <3> QED BY <3>1 DEF Stores!Next
  <2>2. CASE Adopt
    <3>1. Stores!RowsAdopted
      BY <2>2 DEF Adopt, Stores!RowsAdopted
    <3> QED BY <3>1 DEF Stores!Next
  <2>3. ASSUME NEW t \in Tickers, FlushKey(t) PROVE Stores!Next
    <3>1. Stores!CacheForgets
      BY <2>3, SameQuotes DEF FlushKey, Stores!CacheForgets, TypeOK
    <3> QED BY <3>1 DEF Stores!Next
  <2>4. CASE (\E s \in Sources : Start(s)) \/ ReconcileClean \/ FlushDone \/ ReadRows \/ Warmed
    BY <2>4, StoresStutter DEF Start, ReconcileClean, FlushDone, ReadRows, Warmed
  <2> QED BY <1>1, <2>1, <2>2, <2>3, <2>4 DEF Boot
<1>2. CASE Loop
  BY <1>2, StoresStutter DEF Loop, TickWithoutPrices, Tick, EndTick
<1>3. CASE CacheCalls
  BY <1>3, CacheWriteMoves DEF CacheCalls
<1>4. CASE TableCalls
  BY <1>4, TableWriteMoves DEF TableCalls, Stores!Next
<1>5. CASE FeedCalls
  BY <1>5, StoresStutter DEF FeedCalls, FeedWrite
<1>6. CASE Failures
  BY <1>6, StoresStutter DEF Failures, FeedRejects, CallFails, Raise, Crash, Stop, Die
<1>7. CASE Losses
  <2>1. ASSUME NEW t \in Tickers, Expire(t) PROVE Stores!CacheForgets
    BY <2>1, SameQuotes DEF Expire, Stores!CacheForgets, TypeOK
  <2>2. ASSUME RedisRestart PROVE Stores!CacheForgets
    BY <2>2, SameQuotes DEF RedisRestart, Nothing, Stores!CacheForgets
  <2> QED BY <1>7, <2>1, <2>2 DEF Losses, Stores!Next
<1>8. CASE UNCHANGED vars
  BY <1>8, StoresStutter DEF vars
<1> QED BY <1>1, <1>2, <1>3, <1>4, <1>5, <1>6, <1>7, <1>8 DEF Next

\* Whatever fails, whenever the process dies and however late its abandoned writes
\* arrive, the table only moves to a newer quote and the cache to one not older.
THEOREM ServiceKeepsPromise == Spec => StoresPromise
<1>1. Init => Stores!Init
  BY SameQuotes DEF Init, Stores!Init
<1>2. TypeOK /\ [Next]_vars => [Stores!Next]_(Stores!vars)
  BY StepKeepsPromise
<1> QED BY <1>1, <1>2, TypeCorrect, PTL DEF Spec, StoresPromise, Stores!Spec

-----------------------------------------------------------------------------
(* One source of the stored rows *)

Ours(quote) == quote.source \in {source, "none"}

\* From the reconciliation on the rows stored, and the rows on their way to the
\* table, awaited or detached, have the label of the process.  Before it there is
\* no call under way: calls die with the process that made them.
RowsOurs ==
  /\ phase \in {"flush", "read", "warm", "idle", "write"} => \A t \in Tickers : Ours(table[t])
  /\ phase \in {"down", "boot"} => calls = NoCalls
  /\ \A o \in Owners, t \in Tickers : Ours(calls[o]["table"][t])

ProvenanceInv == TypeOK /\ RowsOurs

\* What a step does to the rows under way, short of a tick: it drops some, or passes
\* them from the gather to nobody.
LEMMA RowsStayOurs ==
  ASSUME ProvenanceInv, source' = source,
         \A o \in Owners : \A t \in Tickers : \E n \in Owners :
           calls'[o]["table"][t] \in {calls[n]["table"][t], NoQuote}
  PROVE  \A o \in Owners, t \in Tickers : Ours(calls[o]["table"][t])'
  BY DEF ProvenanceInv, RowsOurs, Ours, NoQuote

\* The reconciliation leaves no row of the other source.
LEMMA BootOurs == ASSUME ProvenanceInv, TypeOK', Boot PROVE RowsOurs'
<1> USE DEF process, stores
<1>0. source \in SourceNames /\ (\A t \in Tickers : table[t] \in MaybeQuotes)
  BY SourcesAssumption DEF ProvenanceInv, TypeOK
<1>1. ASSUME NEW s \in Sources, Start(s) PROVE RowsOurs'
  <2>1. \A o \in Owners, t \in Tickers : calls'[o]["table"][t] = NoQuote
    BY <1>1 DEF Start, ProvenanceInv, RowsOurs, NoCalls, Nothing, Kinds
  <2> QED BY <1>1, <2>1 DEF Start, ProvenanceInv, RowsOurs, Ours, NoQuote
<1>2. CASE ReconcileClean
  <2>1. \A t \in Tickers : Ours(table[t])
    BY <1>2 DEF ReconcileClean, Foreign, Ours, NoQuote
  <2> QED BY <1>2, <2>1 DEF ReconcileClean, ProvenanceInv, RowsOurs, Ours
<1>3. CASE Wipe
  <2>1. \A t \in Tickers : Ours(table[t])'
    BY <1>0, <1>3 DEF Wipe, Ours, MaybeQuotes, Quotes, NoQuote, SourceNames
  <2> QED BY <1>3, <2>1 DEF Wipe, ProvenanceInv, RowsOurs, Ours
<1>4. CASE Adopt
  <2>1. \A t \in Tickers : Ours(table[t])'
    BY <1>0, <1>4 DEF Adopt, Ours, MaybeQuotes, Quotes, NoQuote, SourceNames
  <2> QED BY <1>4, <2>1 DEF Adopt, ProvenanceInv, RowsOurs, Ours
<1>5. CASE (\E t \in Tickers : FlushKey(t)) \/ FlushDone \/ Warmed
  BY <1>5 DEF FlushKey, FlushDone, Warmed, ProvenanceInv, RowsOurs, Ours
<1>6. CASE ReadRows
  <2>1. \A o \in Owners : calls'[o]["table"] = calls[o]["table"]
    BY <1>6 DEF ReadRows, Kinds, ProvenanceInv, TypeOK
  <2> QED BY <1>6, <2>1 DEF ReadRows, ProvenanceInv, RowsOurs, Ours
<1> QED BY <1>1, <1>2, <1>3, <1>4, <1>5, <1>6 DEF Boot

\* A tick labels its rows with its own source.
LEMMA LoopOurs == ASSUME ProvenanceInv, TypeOK', Loop PROVE RowsOurs'
<1> USE DEF stores
<1>1. ASSUME NEW read \in Reads, Tick(read) PROVE RowsOurs'
  <2>1. calls'["awaited"]["table"] = Rows(read, Scope(read, "table"))
        /\ calls'["detached"] = calls["detached"]
    BY <1>1 DEF Tick, Kinds, Owners, ProvenanceInv, TypeOK
  <2>2. \A t \in Tickers : Ours(Rows(read, Scope(read, "table"))[t])
    BY DEF Rows, Ours, NoQuote
  <2> QED BY <1>1, <2>1, <2>2 DEF Tick, ProvenanceInv, RowsOurs, Ours, Owners
<1>2. CASE TickWithoutPrices \/ EndTick
  BY <1>2 DEF TickWithoutPrices, EndTick, ProvenanceInv, RowsOurs, Ours
<1> QED BY <1>1, <1>2 DEF Loop

\* The calls deliver rows of their own source only.
LEMMA CallsOurs ==
  ASSUME ProvenanceInv, TypeOK', CacheCalls \/ TableCalls \/ FeedCalls
  PROVE  RowsOurs'
<1> USE DEF process
<1>1. ASSUME NEW o \in Owners, NEW t \in Tickers, CacheWrite(o, t) \/ FeedWrite(o, t)
      PROVE  RowsOurs'
  <2>1. \A n \in Owners : calls'[n]["table"] = calls[n]["table"]
    <3>1. CASE CacheWrite(o, t)
      BY <3>1 DEF CacheWrite, Kinds, ProvenanceInv, TypeOK
    <3>2. CASE FeedWrite(o, t)
      BY <3>2 DEF FeedWrite, Kinds, ProvenanceInv, TypeOK
    <3> QED BY <1>1, <3>1, <3>2
  <2>2. calls # NoCalls
    BY <1>1 DEF CacheWrite, FeedWrite, NoCalls, Nothing, Kinds
  <2> QED BY <1>1, <2>1, <2>2 DEF CacheWrite, FeedWrite, ProvenanceInv, RowsOurs, Ours
<1>2. ASSUME NEW o \in Owners, TableWrite(o) PROVE RowsOurs'
  <2>1. calls # NoCalls
    BY <1>2 DEF TableWrite, NoCalls, Kinds
  <2>2. phase \in {"flush", "read", "warm", "idle", "write"}
    BY <2>1 DEF ProvenanceInv, RowsOurs, TypeOK, Phases
  <2>3. \A t \in Tickers : Ours(table[t])'
    BY <1>2, <2>2 DEF TableWrite, ProvenanceInv, RowsOurs, Ours
  <2>4. \A n \in Owners : \A t \in Tickers : calls'[n]["table"][t] \in {calls[n]["table"][t], NoQuote}
    BY <1>2 DEF TableWrite, Kinds, Nothing, ProvenanceInv, TypeOK
  <2>5. \A n \in Owners, t \in Tickers : Ours(calls[n]["table"][t])'
    BY <1>2, <2>4, RowsStayOurs DEF TableWrite
  <2> QED BY <1>2, <2>2, <2>3, <2>5 DEF TableWrite, RowsOurs
<1> QED BY <1>1, <1>2 DEF CacheCalls, TableCalls, FeedCalls

\* A failure drops rows, or leaves them to a detached call of the same process.
LEMMA FailuresOurs == ASSUME ProvenanceInv, TypeOK', Failures \/ Losses PROVE RowsOurs'
<1> USE DEF process, stores
<1>1. ASSUME NEW o \in Owners, NEW t \in Tickers, FeedRejects(o, t) PROVE RowsOurs'
  <2>1. \A n \in Owners : calls'[n]["table"] = calls[n]["table"]
    BY <1>1 DEF FeedRejects, Kinds, ProvenanceInv, TypeOK
  <2>2. calls # NoCalls
    BY <1>1 DEF FeedRejects, NoCalls, Nothing, Kinds
  <2> QED BY <1>1, <2>1, <2>2 DEF FeedRejects, ProvenanceInv, RowsOurs, Ours
<1>2. ASSUME NEW o \in Owners, NEW k \in Kinds, CallFails(o, k) PROVE RowsOurs'
  <2>1. \A n \in Owners : \A t \in Tickers : calls'[n]["table"][t] \in {calls[n]["table"][t], NoQuote}
    BY <1>2 DEF CallFails, Kinds, Nothing, ProvenanceInv, TypeOK
  <2>2. calls # NoCalls
    BY <1>2 DEF CallFails, NoCalls
  <2>3. \A n \in Owners, t \in Tickers : Ours(calls[n]["table"][t])'
    BY <1>2, <2>1, RowsStayOurs DEF CallFails
  <2> QED BY <1>2, <2>2, <2>3 DEF CallFails, ProvenanceInv, RowsOurs, Ours
<1>3. ASSUME NEW k \in Kinds, Raise(k) PROVE RowsOurs'
  <2>1. \A n \in Owners : \A t \in Tickers :
          calls'[n]["table"][t] \in {calls["awaited"]["table"][t], NoQuote}
    BY <1>3 DEF Raise, Kinds, Owners, NoCalls, Nothing, ProvenanceInv, TypeOK
  <2>2. \A n \in Owners, t \in Tickers : Ours(calls[n]["table"][t])'
    BY <1>3, <2>1, RowsStayOurs DEF Raise, Owners
  <2> QED BY <1>3, <2>2 DEF Raise, ProvenanceInv, RowsOurs, Ours
<1>4. ASSUME Die PROVE RowsOurs'
  <2>1. \A n \in Owners, t \in Tickers : calls'[n]["table"][t] = NoQuote
    BY <1>4 DEF Die, NoCalls, Nothing, Kinds
  <2> QED BY <1>4, <2>1 DEF Die, RowsOurs, Ours, NoQuote
<1>5. CASE Losses
  BY <1>5 DEF Losses, RedisRestart, Expire, ProvenanceInv, RowsOurs, Ours
<1> QED BY <1>1, <1>2, <1>3, <1>4, <1>5 DEF Failures, Crash, Stop

\* So the rows stored and the rows on their way are the process's own in every state.
LEMMA ProvenanceHolds == Spec => []ProvenanceInv
<1>1. Init => ProvenanceInv
  <2> SUFFICES ASSUME Init PROVE ProvenanceInv
    OBVIOUS
  <2>1. \A o \in Owners, t \in Tickers : calls[o]["table"][t] = NoQuote
    BY DEF Init, NoCalls, Nothing, Kinds
  <2> QED BY <2>1, InitType DEF Init, ProvenanceInv, RowsOurs, Ours, NoQuote
<1>2. ProvenanceInv /\ [Next]_vars => ProvenanceInv'
  <2> SUFFICES ASSUME ProvenanceInv, [Next]_vars PROVE ProvenanceInv'
    OBVIOUS
  <2>1. TypeOK'
    BY StepType DEF ProvenanceInv
  <2>2. CASE UNCHANGED vars
    BY <2>2, <2>1 DEF vars, ProvenanceInv, RowsOurs, Ours
  <2> QED BY <2>1, <2>2, BootOurs, LoopOurs, CallsOurs, FailuresOurs DEF Next, ProvenanceInv
<1> QED BY <1>1, <1>2, PTL DEF Spec

\* A process that runs its loop never stores, and never has stored, a row under the
\* other source's label, whatever failed before and whatever lands late.
THEOREM RowsOfOneSource == Spec => []TableProvenance
<1>1. ProvenanceInv => TableProvenance
  BY DEF ProvenanceInv, RowsOurs, Ours, TableProvenance
<1> QED BY <1>1, ProvenanceHolds, PTL
=============================================================================
