------------------------- MODULE PriceServiceStamps -------------------------
(* A stamp identifies a price in PriceService, for every value of its constants. *)
EXTENDS PriceServiceProofs

\* The phases in which the process relies on its two maps.
Loaded == {"warm", "idle", "write"}

\* The price the process takes its stamp of t to be of: within a tick, the one
\* the tick has read.
Known(t) == IF phase = "write" /\ upstream[t] # None THEN upstream[t] ELSE last[t]

\* No call is ever detached, because no error is uncaught, ...
NoneDetached == calls["detached"] = NoCalls["detached"]

\* ... no stamp is ahead of the clock, so the stamp of a tick is a new one, ...
ClockAhead == \A t \in Tickers : eff[t] <= clock /\ \A q \in Places(t) : q.at <= clock

\* ... and every quote with the stamp the process has for a ticker has the price
\* the process takes that stamp to be of.
MemoryAgrees ==
  phase \in Loaded => \A t \in Tickers : \A q \in Places(t) : q.at = eff[t] => q.price = Known(t)

\* The inductive invariant: StampIdentifiesPrice alone is not one, since a tick
\* writes rows with old stamps from the maps of the process.
StampInv == TypeOK /\ NoneDetached /\ ClockAhead /\ MemoryAgrees /\ StampIdentifiesPrice

\* Every quote to be seen has the stamp and the price of one seen before.
NothingNew ==
  \A t \in Tickers : \A q \in Places(t)' : \E p \in Places(t) : p.at = q.at /\ p.price = q.price

\* A step that only moves quotes about, or forgets some, keeps the invariant.
LEMMA MovedQuotes ==
  ASSUME StampInv, TypeOK', UNCHANGED <<clock, last, eff>>, NoneDetached', NothingNew,
         phase' \in Loaded => phase \in Loaded /\ \A t \in Tickers : Known(t)' = Known(t)
  PROVE  StampInv'
<1>1. ClockAhead'
  BY DEF StampInv, ClockAhead, NothingNew
<1>2. MemoryAgrees'
  BY DEF StampInv, MemoryAgrees, NothingNew
<1>3. StampIdentifiesPrice'
  BY DEF StampInv, StampIdentifiesPrice, NothingNew
<1> QED BY <1>1, <1>2, <1>3 DEF StampInv

\* A missing quote is always among those seen.
LEMMA NoQuoteSeen == ASSUME NoneDetached, NEW t \in Tickers PROVE NoQuote \in Places(t)
  BY DEF NoneDetached, NoCalls, Nothing, Places, Owners, Kinds

\* What to show of a step that leaves the calls as they are.
LEMMA StoresMoved ==
  ASSUME calls' = calls,
         \A t \in Tickers : \A q \in {table'[t], cache'[t], feed'[t]} :
           \E p \in Places(t) : p.at = q.at /\ p.price = q.price
  PROVE  NothingNew
  BY DEF NothingNew, Places

\* The stores are among the places.
LEMMA StoresSeen ==
  ASSUME NEW t \in Tickers
  PROVE  table[t] \in Places(t) /\ cache[t] \in Places(t) /\ feed[t] \in Places(t)
  BY DEF Places

\* The start-up moves quotes from the table to the cache, and loads the maps.
LEMMA BootStamps == ASSUME StampInv, TypeOK', Boot PROVE StampInv'
<1> USE DEF Boot, process, stores
<1>0. NoneDetached
  BY DEF StampInv
<1>1. ASSUME NEW s \in Sources, Start(s) PROVE StampInv'
  <2>1. NothingNew
    BY <1>1 DEF Start, NothingNew, Places
  <2> QED BY <1>0, <1>1, <2>1, MovedQuotes DEF Start, Loaded, NoneDetached
<1>2. CASE ReconcileClean \/ FlushDone \/ Warmed
  <2>1. NothingNew
    BY <1>2 DEF ReconcileClean, FlushDone, Warmed, NothingNew, Places
  <2> QED BY <1>0, <1>2, <2>1, MovedQuotes
          DEF ReconcileClean, FlushDone, Warmed, Loaded, NoneDetached, Known
<1>3. CASE Wipe
  <2>1. NothingNew
    BY <1>0, <1>3, NoQuoteSeen DEF Wipe, NothingNew, Places
  <2> QED BY <1>0, <1>3, <2>1, MovedQuotes DEF Wipe, Loaded, NoneDetached
<1>4. CASE Adopt
  <2>1. \A t \in Tickers : table'[t].at = table[t].at /\ table'[t].price = table[t].price
    BY <1>4 DEF Adopt, StampInv, TypeOK, MaybeQuotes, Quotes, NoQuote
  <2>2. NothingNew
    BY <1>4, <2>1, StoresMoved, StoresSeen DEF Adopt
  <2> QED BY <1>0, <1>4, <2>2, MovedQuotes DEF Adopt, Loaded, NoneDetached
<1>5. ASSUME NEW t \in Tickers, FlushKey(t) PROVE StampInv'
  <2>1. NothingNew
    <3>1. \A u \in Tickers : cache'[u] = cache[u] \/ cache'[u] = NoQuote
      BY <1>5 DEF FlushKey, StampInv, TypeOK
    <3> QED BY <1>0, <1>5, <3>1, NoQuoteSeen, StoresMoved, StoresSeen DEF FlushKey
  <2> QED BY <1>0, <1>5, <2>1, MovedQuotes DEF FlushKey, Loaded, NoneDetached
<1>6. CASE ReadRows
  <2>1. NoneDetached'
    BY <1>0, <1>6 DEF ReadRows, NoneDetached, StampInv, TypeOK, Owners
  <2>2. \A t \in Tickers : Places(t)' \subseteq Places(t)
    BY <1>6 DEF ReadRows, Places, StampInv, TypeOK, Owners, Kinds
  <2>3. StampIdentifiesPrice'
    BY <2>2 DEF StampInv, StampIdentifiesPrice
  <2>4. \A t \in Tickers : eff'[t] = table[t].at /\ last'[t] = table[t].price /\ table[t] \in Places(t)
    BY <1>6 DEF ReadRows, Places
  <2>5. ClockAhead'
    BY <1>6, <2>2, <2>4 DEF ReadRows, StampInv, ClockAhead
  <2>6. MemoryAgrees'
    BY <1>6, <2>2, <2>4 DEF ReadRows, StampInv, StampIdentifiesPrice, MemoryAgrees, Known
  <2> QED BY <2>1, <2>3, <2>5, <2>6 DEF StampInv
<1> QED BY <1>1, <1>2, <1>3, <1>4, <1>5, <1>6
\* A tick builds rows with the stamp of this tick, which nothing has yet, or with
\* the stamp and the price of its maps, which agree with everything there is.
LEMMA TickStamps == ASSUME StampInv, TypeOK', NEW read \in Reads, Tick(read) PROVE StampInv'
<1> DEFINE known(t) == IF read[t] # None THEN read[t] ELSE last[t]
<1>1. NoneDetached'
  BY DEF Tick, NoneDetached, StampInv, TypeOK, Owners
<1>2. clock \in Nat /\ clock' \in Nat /\ clock <= clock' /\ eff \in [Tickers -> Nat]
  BY MaxStampAssumption DEF Tick, StampInv, TypeOK
<1>3. \A t \in Tickers : Known(t)' = known(t) /\ Known(t) = last[t]
  BY DEF Tick, Known
<1>4. ASSUME NEW t \in Tickers, t \in Stamped(read)
      PROVE  eff'[t] = clock' /\ clock' = clock + 1
  BY <1>4 DEF Tick, Stamps
<1>5. ASSUME NEW t \in Tickers, t \notin Stamped(read)
      PROVE  eff'[t] = eff[t] /\ known(t) = last[t]
  BY <1>5 DEF Tick, Stamps, Stamped, Changed, Priced
<1>6. \A t \in Tickers : \A q \in Places(t)' :
        q \in Places(t) \/ (q.at = eff'[t] /\ q.price = known(t))
  <2> SUFFICES ASSUME NEW t \in Tickers, NEW o \in Owners, NEW k \in Kinds
               PROVE  LET q == calls'[o][k][t] IN
                        q \in Places(t) \/ (q.at = eff'[t] /\ q.price = known(t))
    BY DEF Tick, Places, stores
  <2>1. CASE o = "detached"
    BY <2>1 DEF Tick, Places, StampInv, TypeOK, Owners
  <2>2. CASE o = "awaited"
    <3>1. calls'[o][k] = Rows(read, Scope(read, k))
      BY <2>2 DEF Tick, StampInv, TypeOK, Owners
    <3>2. CASE t \in Scope(read, k)
      <4>1. read[t] # None
        BY <3>2 DEF Scope, Changed, Priced
      <4> QED BY <3>1, <3>2, <4>1 DEF Rows, Tick
    <3>3. CASE t \notin Scope(read, k)
      BY <3>1, <3>3, NoQuoteSeen DEF Rows, StampInv
    <3> QED BY <3>2, <3>3
  <2> QED BY <2>1, <2>2 DEF Owners
<1>7. \A t \in Tickers : eff[t] <= clock /\ \A q \in Places(t) : q.at <= clock
  BY DEF StampInv, ClockAhead
<1>8. \A t \in Tickers : \A q \in Places(t) : q.at \in Nat
  <2>1. \A t \in Tickers : Places(t) \subseteq MaybeQuotes
    BY DEF Places, StampInv, TypeOK
  <2>2. \A q \in MaybeQuotes : q.at \in Nat
    BY MaxStampAssumption DEF MaybeQuotes, Quotes, NoQuote
  <2> QED BY <2>1, <2>2
<1>9. \A t \in Tickers : eff'[t] <= clock'
  BY <1>2, <1>4, <1>5, <1>7
<1>10. ClockAhead'
  BY <1>2, <1>6, <1>7, <1>8, <1>9 DEF ClockAhead
<1>11. \A t \in Tickers : \A q \in Places(t) : q.at = eff'[t] => q.price = known(t)
  <2> SUFFICES ASSUME NEW t \in Tickers, NEW q \in Places(t), q.at = eff'[t]
               PROVE  q.price = known(t)
    OBVIOUS
  <2>1. t \notin Stamped(read)
    BY <1>2, <1>4, <1>7, <1>8
  <2> QED BY <1>3, <1>5, <2>1 DEF Tick, StampInv, MemoryAgrees, Loaded
<1>12. \A t \in Tickers : \A q \in Places(t)' : q.at = eff'[t] => q.price = known(t)
  BY <1>6, <1>11
<1>13. MemoryAgrees'
  BY <1>3, <1>12 DEF MemoryAgrees
<1>14. StampIdentifiesPrice'
  BY <1>6, <1>11 DEF StampInv, StampIdentifiesPrice
<1> QED BY <1>1, <1>10, <1>13, <1>14 DEF StampInv

\* The end of a tick makes what it read what was published.
LEMMA LoopStamps == ASSUME StampInv, TypeOK', Loop PROVE StampInv'
<1>0. NoneDetached
  BY DEF StampInv
<1>1. ASSUME NEW read \in Reads, Tick(read) PROVE StampInv'
  BY <1>1, TickStamps
<1>2. CASE TickWithoutPrices
  <2>1. NothingNew
    BY <1>2, StoresMoved, StoresSeen DEF TickWithoutPrices, stores
  <2> QED BY <1>0, <1>2, <2>1, MovedQuotes DEF TickWithoutPrices, Loaded, NoneDetached, Known
<1>3. CASE EndTick
  <2>1. NothingNew
    BY <1>3, StoresMoved, StoresSeen DEF EndTick, stores
  <2>2. \A t \in Tickers : eff' = eff /\ clock' = clock /\ Known(t)' = Known(t)
    BY <1>3 DEF EndTick, Known
  <2>3. NoneDetached'
    BY <1>0, <1>3 DEF EndTick, NoneDetached
  <2>4. ClockAhead' /\ StampIdentifiesPrice'
    BY <1>3, <2>1, <2>2 DEF EndTick, StampInv, ClockAhead, NothingNew, StampIdentifiesPrice
  <2>5. MemoryAgrees'
    BY <1>3, <2>1, <2>2 DEF EndTick, StampInv, MemoryAgrees, NothingNew, Loaded
  <2> QED BY <2>3, <2>4, <2>5 DEF StampInv
<1> QED BY <1>1, <1>2, <1>3 DEF Loop

\* What to show of a step that only delivers or drops rows of calls, and moves
\* quotes it delivers to the stores.
LEMMA RowsDelivered ==
  ASSUME NoneDetached,
         \A t \in Tickers : \A o \in Owners : \A k \in Kinds :
           calls'[o][k][t] \in {calls[o][k][t], NoQuote},
         \A t \in Tickers : {table'[t], cache'[t], feed'[t]} \subseteq Places(t)
  PROVE  NothingNew
<1>1. ASSUME NEW t \in Tickers PROVE Places(t)' \subseteq Places(t)
  BY <1>1, NoQuoteSeen DEF Places
<1> QED BY <1>1 DEF NothingNew

\* The row a call has still to deliver is among the places.
LEMMA RowSeen ==
  ASSUME NEW o \in Owners, NEW k \in Kinds, NEW t \in Tickers
  PROVE  calls[o][k][t] \in Places(t)
  BY DEF Places

\* No answer of a store makes a stamp ambiguous ...
LEMMA CallsStamps ==
  ASSUME StampInv, TypeOK', CacheCalls \/ TableCalls \/ FeedCalls
  PROVE  StampInv'
<1>0. NoneDetached
  BY DEF StampInv
<1> USE DEF process
<1>1. ASSUME NEW o \in Owners, NEW t \in Tickers, CacheWrite(o, t) PROVE StampInv'
  <2>1. NothingNew
    BY <1>0, <1>1, RowsDelivered, RowSeen, StoresSeen DEF CacheWrite, Kinds, StampInv, TypeOK
  <2>2. NoneDetached'
    BY <1>0, <1>1 DEF CacheWrite, NoneDetached, NoCalls, Nothing, Owners, Kinds, StampInv, TypeOK
  <2> QED BY <1>1, <2>1, <2>2, MovedQuotes DEF CacheWrite, Known
<1>2. ASSUME NEW o \in Owners, TableWrite(o) PROVE StampInv'
  <2>1. NothingNew
    BY <1>0, <1>2, RowsDelivered, RowSeen, StoresSeen
       DEF TableWrite, Kinds, Nothing, StampInv, TypeOK
  <2>2. NoneDetached'
    BY <1>0, <1>2 DEF TableWrite, NoneDetached, NoCalls, Nothing, Owners, Kinds, StampInv, TypeOK
  <2> QED BY <1>2, <2>1, <2>2, MovedQuotes DEF TableWrite, Known
<1>3. ASSUME NEW o \in Owners, NEW t \in Tickers, FeedWrite(o, t) PROVE StampInv'
  <2>1. NothingNew
    BY <1>0, <1>3, RowsDelivered, RowSeen, StoresSeen DEF FeedWrite, Kinds, StampInv, TypeOK
  <2>2. NoneDetached'
    BY <1>0, <1>3 DEF FeedWrite, NoneDetached, NoCalls, Nothing, Owners, Kinds, StampInv, TypeOK
  <2> QED BY <1>3, <2>1, <2>2, MovedQuotes DEF FeedWrite, Known
<1> QED BY <1>1, <1>2, <1>3 DEF CacheCalls, TableCalls, FeedCalls

\* ... nor does a failure, if every error is caught, nor a loss.
LEMMA FailuresStamps ==
  ASSUME "raise" \notin Faults, StampInv, TypeOK', Failures \/ Losses
  PROVE  StampInv'
<1>0. NoneDetached
  BY DEF StampInv
<1> USE DEF process, stores
<1>1. ASSUME NEW o \in Owners, NEW t \in Tickers, FeedRejects(o, t) PROVE StampInv'
  <2>1. NothingNew
    BY <1>0, <1>1, RowsDelivered, StoresSeen DEF FeedRejects, Kinds, StampInv, TypeOK
  <2>2. NoneDetached'
    BY <1>0, <1>1 DEF FeedRejects, NoneDetached, NoCalls, Nothing, Owners, Kinds, StampInv, TypeOK
  <2> QED BY <1>1, <2>1, <2>2, MovedQuotes DEF FeedRejects, Known
<1>2. ASSUME NEW o \in Owners, NEW k \in Kinds, CallFails(o, k) PROVE StampInv'
  <2>1. NothingNew
    BY <1>0, <1>2, RowsDelivered, StoresSeen DEF CallFails, Nothing, StampInv, TypeOK
  <2>2. NoneDetached'
    BY <1>0, <1>2 DEF CallFails, NoneDetached, NoCalls, Nothing, Owners, StampInv, TypeOK
  <2> QED BY <1>2, <2>1, <2>2, MovedQuotes DEF CallFails, Known
<1>3. ASSUME Die PROVE StampInv'
  <2>1. NoneDetached'
    BY <1>3 DEF Die, NoneDetached
  <2>2. NothingNew
    BY <1>0, <1>3, RowsDelivered, StoresSeen DEF Die, NoCalls, Nothing
  <2>3. ClockAhead' /\ StampIdentifiesPrice'
    BY <1>3, <2>2, MaxStampAssumption
       DEF Die, NothingNew, StampInv, ClockAhead, StampIdentifiesPrice, TypeOK
  <2> QED BY <1>3, <2>1, <2>3 DEF Die, StampInv, MemoryAgrees, Loaded
<1>4. CASE RedisRestart
  <2>1. NothingNew
    BY <1>0, <1>4, NoQuoteSeen, StoresMoved, StoresSeen DEF RedisRestart, Nothing
  <2> QED BY <1>0, <1>4, <2>1, MovedQuotes DEF RedisRestart, Known, NoneDetached
<1>5. ASSUME NEW t \in Tickers, Expire(t) PROVE StampInv'
  <2>1. \A u \in Tickers : cache'[u] = cache[u] \/ cache'[u] = NoQuote
    BY <1>5 DEF Expire, StampInv, TypeOK
  <2>2. NothingNew
    BY <1>0, <1>5, <2>1, NoQuoteSeen, StoresMoved, StoresSeen DEF Expire
  <2> QED BY <1>0, <1>5, <2>2, MovedQuotes DEF Expire, Known, NoneDetached
<1> QED BY <1>1, <1>2, <1>3, <1>4, <1>5 DEF Failures, Losses, Crash, Stop, Raise

\* So the invariant holds in every state, if every error is caught.
LEMMA StampsHold ==
  ASSUME "raise" \notin Faults
  PROVE  Spec => []StampInv
<1>1. Init => StampInv
  <2> SUFFICES ASSUME Init PROVE StampInv
    OBVIOUS
  <2>1. ASSUME NEW t \in Tickers PROVE Places(t) \subseteq {NoQuote}
    <3>1. \A o \in Owners : \A k \in Kinds : calls[o][k][t] = NoQuote
      BY DEF Init, NoCalls, Nothing
    <3>2. table[t] = NoQuote /\ cache[t] = NoQuote /\ feed[t] = NoQuote
      BY DEF Init, Nothing
    <3> QED BY <3>1, <3>2 DEF Places
  <2>2. NoQuote.at = 0
    BY DEF NoQuote
  <2>3. ClockAhead
    <3> SUFFICES ASSUME NEW t \in Tickers
                 PROVE  eff[t] <= clock /\ \A q \in Places(t) : q.at <= clock
      BY DEF ClockAhead
    <3>1. eff[t] = 0 /\ clock = 0
      BY DEF Init
    <3>2. \A q \in Places(t) : q.at = 0
      BY <2>1, <2>2
    <3> QED BY <3>1, <3>2
  <2>4. StampIdentifiesPrice
    BY <2>1 DEF StampIdentifiesPrice
  <2> QED BY <2>3, <2>4, InitType DEF Init, StampInv, NoneDetached, MemoryAgrees, Loaded
<1>2. StampInv /\ [Next]_vars => StampInv'
  <2> SUFFICES ASSUME StampInv, [Next]_vars PROVE StampInv'
    OBVIOUS
  <2>1. TypeOK'
    BY StepType DEF StampInv
  <2>2. CASE UNCHANGED vars
    BY <2>2, <2>1 DEF vars, StampInv, NoneDetached, ClockAhead, MemoryAgrees, Known, Places,
                      StampIdentifiesPrice
  <2> QED BY <2>1, <2>2, BootStamps, LoopStamps, CallsStamps, FailuresStamps DEF Next
<1> QED BY <1>1, <1>2, PTL DEF Spec

\* effective_at identifies the price, in the stores, on the channels and in every
\* write under way, across ticks, caught failures, crashes, restarts and switches
\* of the source, if no write fails with an error its except clause does not name.
THEOREM StampsIdentifyPrices ==
  ASSUME "raise" \notin Faults
  PROVE  Spec => []StampIdentifiesPrice
<1>1. StampInv => StampIdentifiesPrice
  BY DEF StampInv
<1> QED BY <1>1, StampsHold, PTL
=============================================================================
