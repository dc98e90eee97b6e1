------------------------ MODULE PriceServiceCurrent ------------------------
(***************************************************************************)
(* What PriceService leaves in the table, the cache and the channels, for  *)
(* every value of its constants, and the faults each claim stands.         *)
(***************************************************************************)
EXTENDS PriceServiceStamps

Starting == phase \in {"down", "boot", "flush", "read"}

-----------------------------------------------------------------------------
(* What the calls are, phase by phase *)

\* Nothing is under way before the warm-up, only cache writes within it, and between
\* two ticks only what has nobody waiting for it.  What the source answered is kept
\* from one tick to the next, and not from one process to the next.
CallsInPhase ==
  /\ Starting => calls = NoCalls
  /\ phase = "warm" => calls["awaited"]["table"] = Nothing /\ calls["awaited"]["feed"] = Nothing
  /\ phase = "idle" => calls["awaited"] = NoCalls["awaited"]
  /\ phase \notin {"idle", "write"} => \A t \in Tickers : upstream[t] = None
  /\ "raise" \notin Faults => NoneDetached

\* The stamps of the process are those of the table, or newer: no row is stored, or
\* on its way to the table, with a stamp the process does not have.
StampsAhead ==
  /\ \A t \in Tickers : eff[t] <= clock /\ table[t].at <= clock
  /\ phase \in Loaded => \A t \in Tickers :
       table[t].at <= eff[t] /\ \A o \in Owners : calls[o]["table"][t].at <= eff[t]

\* Where a priced ticker is in the cache: a row of this tick is on its way, or the
\* key has its stamp or a newer one, or has been lost.
Covered(t) ==
  \/ \E o \in Owners : calls[o]["cache"][t].at = eff[t]
  \/ cache[t].at >= eff[t]
  \/ cache[t] = NoQuote /\ "loss" \in Faults

CacheFollows ==
  /\ phase = "write" => \A t \in Tickers :
       calls["awaited"]["cache"][t] # NoQuote => calls["awaited"]["cache"][t].at = eff[t]
  /\ (phase \in {"idle", "write"} /\ "cache" \notin failed)
       => \A t \in Tickers : upstream[t] # None => Covered(t)

OrderInv == TypeOK /\ CallsInPhase /\ StampsAhead /\ CacheFollows

-----------------------------------------------------------------------------
(* Quotes and calls *)

\* Only a missing quote has no stamp, and only it has no price.
LEMMA QuoteParts ==
  ASSUME NEW q \in MaybeQuotes
  PROVE  /\ q.at \in Nat /\ (q.at = 0 <=> q = NoQuote)
         /\ q.price = None <=> q = NoQuote
  BY MaxStampAssumption, NoneAssumption DEF MaybeQuotes, Quotes, NoQuote

\* Every place holds a quote or none.
LEMMA PlaceTypes ==
  ASSUME TypeOK, NEW t \in Tickers
  PROVE  /\ table[t] \in MaybeQuotes /\ cache[t] \in MaybeQuotes /\ feed[t] \in MaybeQuotes
         /\ \A o \in Owners, k \in Kinds : calls[o][k][t] \in MaybeQuotes
         /\ eff[t] \in Nat /\ clock \in Nat
  BY MaxStampAssumption DEF TypeOK

\* The rows under way without one of them, and without all of a call.
Without(o, k, t) == [calls EXCEPT ![o][k][t] = NoQuote]
WithoutAll(o, k) == [calls EXCEPT ![o][k] = Nothing]

\* What a call that delivers one row leaves, ...
LEMMA RowTaken ==
  ASSUME TypeOK, NEW o \in Owners, NEW k \in Kinds, NEW t \in Tickers,
         calls' = Without(o, k, t)
  PROVE  \A n \in Owners, j \in Kinds, u \in Tickers :
           calls'[n][j][u] = IF n = o /\ j = k /\ u = t THEN NoQuote ELSE calls[n][j][u]
  BY DEF TypeOK, Without

\* ... and one that delivers, or drops, all of them.
LEMMA RowsTaken ==
  ASSUME TypeOK, NEW o \in Owners, NEW k \in Kinds,
         calls' = WithoutAll(o, k)
  PROVE  \A n \in Owners, j \in Kinds, u \in Tickers :
           calls'[n][j][u] = IF n = o /\ j = k THEN NoQuote ELSE calls[n][j][u]
  BY DEF TypeOK, Nothing, WithoutAll

\* Of a set of calls that has nothing to deliver every row is missing.
LEMMA NoRows ==
  /\ \A o \in Owners : \A k \in Kinds : \A t \in Tickers : NoCalls[o][k][t] = NoQuote
  /\ NoQuote.at = 0 /\ NoQuote.price = None /\ NoQuote.source = "none"
  BY DEF NoCalls, Nothing, NoQuote

-----------------------------------------------------------------------------
(* The order of the writes, step by step *)

\* Nothing of a process is under way, in the memory or in the calls, before it reads.
LEMMA NothingStarted ==
  ASSUME CallsInPhase, Starting, NEW o \in Owners, NEW k \in Kinds, NEW t \in Tickers
  PROVE  calls[o][k][t] = NoQuote
  BY NoRows DEF CallsInPhase

\* The start-up: memory is loaded from the table, with its stamps.
LEMMA BootOrder == ASSUME OrderInv, TypeOK', Boot PROVE OrderInv'
<1> USE DEF OrderInv, process, stores
<1>0. CallsInPhase /\ StampsAhead /\ CacheFollows /\ TypeOK
  OBVIOUS
<1>1. ASSUME NEW s \in Sources, Start(s) PROVE OrderInv'
  <2>1. CallsInPhase'
    BY <1>1 DEF Start, CallsInPhase, Starting, NoneDetached
  <2>2. StampsAhead' /\ CacheFollows'
    BY <1>1 DEF Start, StampsAhead, Loaded, CacheFollows
  <2> QED BY <2>1, <2>2
<1>2. CASE ReconcileClean \/ FlushDone
  <2>1. CallsInPhase'
    BY <1>2 DEF ReconcileClean, FlushDone, CallsInPhase, Starting, NoneDetached
  <2>2. StampsAhead' /\ CacheFollows'
    BY <1>2 DEF ReconcileClean, FlushDone, StampsAhead, Loaded, CacheFollows
  <2> QED BY <2>1, <2>2
<1>3. CASE Wipe \/ Adopt
  <2>1. \A t \in Tickers : table'[t].at \in {table[t].at, 0}
    BY <1>3, PlaceTypes, NoRows DEF Wipe, Adopt, MaybeQuotes, Quotes, NoQuote
  <2>2. \A t \in Tickers : table'[t].at <= clock'
    BY <1>3, <2>1, PlaceTypes, QuoteParts DEF StampsAhead, Wipe, Adopt
  <2> QED BY <1>3, <2>2
          DEF Wipe, Adopt, CallsInPhase, Starting, StampsAhead, Loaded, CacheFollows, NoneDetached
<1>4. ASSUME NEW t \in Tickers, FlushKey(t) PROVE OrderInv'
  BY <1>4 DEF FlushKey, CallsInPhase, Starting, StampsAhead, Loaded, CacheFollows, NoneDetached
<1>5. CASE ReadRows
  <2>1. \A o \in Owners, k \in Kinds, t \in Tickers :
          calls'[o][k][t] = IF o = "awaited" /\ k = "cache" THEN table[t] ELSE NoQuote
    BY <1>5, NothingStarted DEF ReadRows, Starting, TypeOK, Owners, Kinds
  <2>2. CallsInPhase'
    <3>1. calls'["awaited"]["table"] = Nothing /\ calls'["awaited"]["feed"] = Nothing
      BY <1>5 DEF ReadRows, CallsInPhase, Starting, NoCalls, Owners, Kinds, TypeOK
    <3>2. calls'["detached"] = calls["detached"]
      BY <1>5 DEF ReadRows, Owners, TypeOK
    <3> QED BY <1>5, <3>1, <3>2 DEF ReadRows, CallsInPhase, Starting, NoneDetached
  <2>3. StampsAhead'
    <3>1. \A t \in Tickers : eff'[t] = table[t].at /\ table'[t] = table[t]
      BY <1>5 DEF ReadRows
    <3>2. \A o \in Owners, t \in Tickers : calls'[o]["table"][t].at = 0
      BY <2>1, NoRows DEF Kinds
    <3> QED BY <1>5, <3>1, <3>2, PlaceTypes, QuoteParts DEF ReadRows, StampsAhead
  <2> QED BY <1>5, <2>2, <2>3 DEF ReadRows, CacheFollows
<1>6. CASE Warmed
  <2>1. calls["awaited"] = NoCalls["awaited"]
    BY <1>6 DEF Warmed, CallsInPhase, NoCalls, Owners, Kinds, TypeOK
  <2> QED BY <1>6, <2>1
          DEF Warmed, CallsInPhase, Starting, StampsAhead, Loaded, CacheFollows, NoneDetached
<1> QED BY <1>1, <1>2, <1>3, <1>4, <1>5, <1>6 DEF Boot

\* A tick gives every ticker it has a price of a row for the cache with its stamp.
LEMMA TickOrder == ASSUME OrderInv, TypeOK', NEW read \in Reads, Tick(read) PROVE OrderInv'
<1> USE DEF OrderInv
<1>1. \A t \in Tickers : eff[t] <= eff'[t] /\ eff'[t] <= clock' /\ clock <= clock'
  BY PlaceTypes DEF Tick, Stamps, StampsAhead
<1>2. \A k \in Kinds, t \in Tickers :
        /\ calls'["awaited"][k][t] = Rows(read, Scope(read, k))[t]
        /\ calls'["detached"][k][t] = calls["detached"][k][t]
  BY DEF Tick, TypeOK, Owners
<1>3. CallsInPhase'
  BY DEF Tick, CallsInPhase, Starting, NoneDetached, TypeOK, Owners
<1>4. \A k \in Kinds, t \in Tickers :
        calls'["awaited"][k][t] # NoQuote => calls'["awaited"][k][t].at = eff'[t]
  <2> SUFFICES ASSUME NEW k \in Kinds, NEW t \in Tickers, Rows(read, Scope(read, k))[t] # NoQuote
               PROVE  Rows(read, Scope(read, k))[t].at = eff'[t]
    BY <1>2
  <2> QED BY DEF Rows, Tick
<1>5. StampsAhead'
  <2>1. ASSUME NEW t \in Tickers PROVE table'[t].at <= clock' /\ table'[t].at <= eff'[t]
    <3>1. table'[t] = table[t] /\ table[t].at \in Nat
      BY PlaceTypes, QuoteParts DEF Tick, stores
    <3>2. table[t].at <= clock /\ table[t].at <= eff[t]
      BY DEF Tick, StampsAhead, Loaded
    <3>3. eff'[t] \in Nat /\ clock' \in Nat /\ eff[t] \in Nat /\ clock \in Nat
      BY MaxStampAssumption DEF TypeOK
    <3> QED BY <1>1, <3>1, <3>2, <3>3
  <2>2. ASSUME NEW o \in Owners, NEW t \in Tickers PROVE calls'[o]["table"][t].at <= eff'[t]
    <3>1. CASE o = "awaited"
      <4>1. eff'[t] \in Nat
        BY MaxStampAssumption DEF TypeOK
      <4> QED BY <1>4, <3>1, <4>1, NoRows DEF Kinds, TypeOK
    <3>2. CASE o = "detached"
      <4>1. eff'[t] \in Nat /\ calls[o]["table"][t] \in MaybeQuotes
        BY MaxStampAssumption, PlaceTypes DEF TypeOK, Kinds
      <4>2. calls[o]["table"][t].at <= eff[t]
        BY DEF Tick, StampsAhead, Loaded
      <4> QED BY <1>1, <1>2, <3>2, <4>1, <4>2, PlaceTypes, QuoteParts DEF Kinds
    <3> QED BY <3>1, <3>2 DEF Owners
  <2> QED BY <1>1, <2>1, <2>2 DEF StampsAhead
<1>6. CacheFollows'
  <2>1. ASSUME NEW t \in Tickers, upstream'[t] # None
        PROVE  calls'["awaited"]["cache"][t].at = eff'[t]
    <3>1. t \in Scope(read, "cache")
      BY <2>1 DEF Tick, Scope, Priced
    <3>2. calls'["awaited"]["cache"][t] = Rows(read, Scope(read, "cache"))[t]
      BY <1>2 DEF Kinds
    <3> QED BY <3>1, <3>2 DEF Rows, Tick
  <2> QED BY <1>4, <2>1 DEF CacheFollows, Covered, Owners, Kinds, Tick
<1> QED BY <1>3, <1>5, <1>6

\* The rest of the loop.
LEMMA LoopOrder == ASSUME OrderInv, TypeOK', Loop PROVE OrderInv'
<1> USE DEF OrderInv, stores
<1>1. ASSUME NEW read \in Reads, Tick(read) PROVE OrderInv'
  BY <1>1, TickOrder
<1>2. CASE TickWithoutPrices
  <2>1. CallsInPhase'
    BY <1>2 DEF TickWithoutPrices, CallsInPhase, Starting, NoneDetached
  <2>2. StampsAhead' /\ CacheFollows'
    BY <1>2 DEF TickWithoutPrices, StampsAhead, Loaded, CacheFollows
  <2> QED BY <2>1, <2>2
<1>3. CASE EndTick
  <2>1. calls["awaited"] = NoCalls["awaited"]
    BY <1>3 DEF EndTick, NoCalls, Owners, TypeOK
  <2>2. CallsInPhase'
    BY <1>3, <2>1 DEF EndTick, CallsInPhase, Starting, NoneDetached
  <2>3. StampsAhead' /\ CacheFollows'
    BY <1>3 DEF EndTick, StampsAhead, Loaded, CacheFollows, Covered
  <2> QED BY <2>2, <2>3
<1> QED BY <1>1, <1>2, <1>3 DEF Loop

\* A call has rows only in the phases that allow it one.
LEMMA RowInPhase ==
  ASSUME CallsInPhase, TypeOK, NEW o \in Owners, NEW k \in Kinds, NEW t \in Tickers,
         calls[o][k][t] # NoQuote
  PROVE  /\ phase \in Loaded
         /\ o = "awaited" => phase = "write" \/ (phase = "warm" /\ k = "cache")
         /\ o = "detached" => "raise" \in Faults
<1>1. ~ Starting
  BY NothingStarted
<1>2. phase \in Loaded
  BY <1>1 DEF Starting, Loaded, TypeOK, Phases
<1>3. o = "awaited" /\ phase = "warm" => k = "cache"
  BY DEF CallsInPhase, Kinds, Nothing
<1>4. phase = "idle" => o = "detached"
  BY NoRows DEF CallsInPhase, Owners
<1>5. o = "detached" => "raise" \in Faults
  BY NoRows DEF CallsInPhase, NoneDetached
<1> QED BY <1>2, <1>3, <1>4, <1>5 DEF Loaded

\* Delivering or dropping rows keeps what the phases allow.
LEMMA CallsShrink ==
  ASSUME TypeOK, TypeOK', CallsInPhase, phase' = phase, upstream' = upstream,
         \A o \in Owners, k \in Kinds, t \in Tickers :
           calls'[o][k][t] \in {calls[o][k][t], NoQuote}
  PROVE  CallsInPhase'
<1>1. ASSUME NEW o \in Owners, NEW k \in Kinds, calls[o][k] = Nothing PROVE calls'[o][k] = Nothing
  <2>1. \A t \in Tickers : calls'[o][k][t] = NoQuote
    BY <1>1 DEF Nothing
  <2>2. calls'[o][k] \in [Tickers -> MaybeQuotes]
    BY DEF TypeOK
  <2> QED BY <2>1, <2>2 DEF Nothing
<1>2. ASSUME NEW o \in Owners, calls[o] = NoCalls[o] PROVE calls'[o] = NoCalls[o]
  <2>1. \A k \in Kinds : calls'[o][k] = Nothing
    BY <1>1, <1>2 DEF NoCalls
  <2>2. calls'[o] \in [Kinds -> [Tickers -> MaybeQuotes]]
    BY DEF TypeOK
  <2> QED BY <2>1, <2>2 DEF NoCalls
<1>3. ASSUME calls = NoCalls PROVE calls' = NoCalls
  <2>1. \A o \in Owners : calls'[o] = NoCalls[o]
    BY <1>2, <1>3
  <2> QED BY <2>1 DEF NoCalls, TypeOK
<1> QED BY <1>1, <1>2, <1>3 DEF CallsInPhase, Starting, NoneDetached, Owners, Kinds

\* ... and the stamps of what is on its way to the table.
LEMMA StampsShrink ==
  ASSUME TypeOK, StampsAhead, UNCHANGED <<phase, clock, eff, table>>,
         \A o \in Owners, k \in Kinds, t \in Tickers :
           calls'[o][k][t] \in {calls[o][k][t], NoQuote}
  PROVE  StampsAhead'
<1> SUFFICES ASSUME phase \in Loaded, NEW t \in Tickers, NEW o \in Owners
             PROVE  calls'[o]["table"][t].at <= eff[t]
  BY DEF StampsAhead
<1>1. calls[o]["table"][t].at <= eff[t] /\ NoQuote.at <= eff[t]
  BY PlaceTypes, NoRows DEF StampsAhead
<1>2. calls'[o]["table"][t] \in {calls[o]["table"][t], NoQuote}
  BY DEF Kinds
<1> QED BY <1>1, <1>2

\* The compare-and-set keeps a ticker covered: the row of this tick is accepted or
\* finds a newer key, and no older row replaces the key.
LEMMA CacheWriteOrder ==
  ASSUME "raise" \notin Faults \/ "loss" \notin Faults,
         OrderInv, TypeOK', NEW o \in Owners, NEW t \in Tickers, CacheWrite(o, t)
  PROVE  OrderInv'
<1> DEFINE quote == calls[o]["cache"][t]
<1> USE DEF OrderInv
<1>1. \A n \in Owners, k \in Kinds, u \in Tickers :
        calls'[n][k][u] = IF n = o /\ k = "cache" /\ u = t THEN NoQuote ELSE calls[n][k][u]
  <2>1. calls' = Without(o, "cache", t) /\ "cache" \in Kinds /\ TypeOK
    BY DEF CacheWrite, Kinds, Without
  <2> QED BY <2>1, RowTaken
<1>2. CallsInPhase' /\ StampsAhead'
  BY <1>1, CallsShrink, StampsShrink DEF CacheWrite, process
<1>3. /\ quote \in MaybeQuotes /\ quote # NoQuote /\ quote.at \in Nat /\ quote.at # 0
      /\ cache[t] \in MaybeQuotes /\ cache[t].at \in Nat /\ eff[t] \in Nat
  BY PlaceTypes, QuoteParts DEF CacheWrite, Kinds
<1>4. \/ cache' = [cache EXCEPT ![t] = quote] /\ (cache[t] = NoQuote \/ quote.at >= cache[t].at)
      \/ cache' = cache /\ cache[t].at > quote.at
  <2>1. After(ToIso(cache[t].at), ToIso(quote.at)) <=> cache[t].at > quote.at
    BY <1>3, TextOrderIsTimeOrder
  <2> QED BY <1>3, <2>1 DEF CacheWrite, CacheAccepts
<1>5. ASSUME phase = "write", NEW u \in Tickers, calls'["awaited"]["cache"][u] # NoQuote
      PROVE  calls'["awaited"]["cache"][u].at = eff'[u]
  BY <1>1, <1>5 DEF CacheWrite, process, CacheFollows, Owners, Kinds
<1>6. ASSUME phase \in {"idle", "write"}, "cache" \notin failed, upstream[t] # None
      PROVE  Covered(t)'
  <2>1. Covered(t) /\ eff' = eff
    BY <1>6 DEF CacheWrite, process, CacheFollows
  <2>2. cache'[t].at >= quote.at
    BY <1>3, <1>4 DEF TypeOK
  <2>3. CASE quote.at = eff[t]
    BY <2>1, <2>2, <2>3 DEF Covered
  <2>4. CASE quote.at # eff[t] /\ \E n \in Owners : calls[n]["cache"][t].at = eff[t]
    BY <1>1, <2>1, <2>4 DEF Covered, Kinds
  <2>5. CASE quote.at # eff[t] /\ cache[t].at >= eff[t]
    <3>1. cache'[t].at >= cache[t].at
      BY <1>3, <1>4, NoRows DEF TypeOK
    <3>2. cache'[t] = cache[t] \/ cache'[t] = quote
      BY <1>4 DEF TypeOK
    <3> QED BY <1>3, <2>1, <2>5, <3>1, <3>2 DEF Covered
  <2>6. CASE quote.at # eff[t] /\ cache[t] = NoQuote /\ "loss" \in Faults
    <3>1. o = "awaited" /\ phase = "write"
      BY <1>3, <1>6, <2>6, RowInPhase DEF Owners, Kinds
    <3>2. quote.at = eff[t]
      BY <1>3, <3>1 DEF CacheFollows
    <3> QED BY <2>6, <3>2
  <2> QED BY <2>1, <2>3, <2>4, <2>5, <2>6 DEF Covered
<1>7. ASSUME NEW u \in Tickers, u # t, Covered(u) PROVE Covered(u)'
  <2>1. cache'[u] = cache[u] /\ eff' = eff
    BY <1>4, <1>7 DEF CacheWrite, process, TypeOK
  <2>2. \A n \in Owners : calls'[n]["cache"][u] = calls[n]["cache"][u]
    BY <1>1, <1>7 DEF Kinds
  <2> QED BY <1>7, <2>1, <2>2 DEF Covered
<1>8. CacheFollows'
  BY <1>5, <1>6, <1>7 DEF CacheWrite, process, CacheFollows
<1> QED BY <1>2, <1>8

\* A step that delivers or drops rows for the table and the channels only.
LEMMA OtherCallsOrder ==
  ASSUME OrderInv, TypeOK', UNCHANGED <<process, phase, cache>>,
         failed \subseteq failed',
         \A o \in Owners, k \in Kinds, t \in Tickers :
           calls'[o][k][t] \in {calls[o][k][t], NoQuote},
         \A o \in Owners, t \in Tickers :
           "cache" \notin failed' => calls'[o]["cache"][t] = calls[o]["cache"][t],
         StampsAhead'
  PROVE  OrderInv'
<1> USE DEF OrderInv, process
<1>1. CallsInPhase'
  BY CallsShrink
<1>2. ASSUME phase = "write", NEW t \in Tickers, calls'["awaited"]["cache"][t] # NoQuote
      PROVE  calls'["awaited"]["cache"][t].at = eff'[t]
  BY <1>2 DEF CacheFollows, Owners, Kinds
<1>3. ASSUME "cache" \notin failed', NEW t \in Tickers, Covered(t) PROVE Covered(t)'
  BY <1>3 DEF Covered
<1>4. CacheFollows'
  BY <1>2, <1>3 DEF CacheFollows
<1> QED BY <1>1, <1>4

\* The upsert stores stamps the process has; the publishes store none.
LEMMA CallsOrder ==
  ASSUME "raise" \notin Faults \/ "loss" \notin Faults,
         OrderInv, TypeOK', CacheCalls \/ TableCalls \/ FeedCalls
  PROVE  OrderInv'
<1>0. TypeOK
  BY DEF OrderInv
<1>1. ASSUME NEW o \in Owners, TableWrite(o) PROVE OrderInv'
  <2>1. \A n \in Owners, k \in Kinds, u \in Tickers :
          calls'[n][k][u] = IF n = o /\ k = "table" THEN NoQuote ELSE calls[n][k][u]
    <3>1. calls' = WithoutAll(o, "table") /\ "table" \in Kinds
      BY <1>1 DEF TableWrite, Kinds, WithoutAll
    <3> QED BY <1>0, <3>1, RowsTaken
  <2>2. StampsAhead'
    <3>1. ASSUME NEW t \in Tickers PROVE table'[t].at <= clock /\ (phase \in Loaded => table'[t].at <= eff[t])
      <4>1. CASE table'[t] = table[t]
        BY <4>1 DEF OrderInv, StampsAhead
      <4>2. CASE table'[t] # table[t]
        <5>1. table'[t] = calls[o]["table"][t] /\ calls[o]["table"][t] # NoQuote
          BY <1>1, <4>2 DEF TableWrite
        <5>2. phase \in Loaded
          BY <1>0, <5>1, RowInPhase DEF OrderInv, Kinds
        <5>3. calls[o]["table"][t].at <= eff[t] /\ eff[t] <= clock
          BY <5>2 DEF OrderInv, StampsAhead
        <5>4. calls[o]["table"][t].at \in Nat /\ eff[t] \in Nat /\ clock \in Nat
          BY <1>0, PlaceTypes, QuoteParts DEF Kinds
        <5> QED BY <5>1, <5>3, <5>4
      <4> QED BY <4>1, <4>2
    <3>2. ASSUME phase \in Loaded, NEW n \in Owners, NEW t \in Tickers
          PROVE  calls'[n]["table"][t].at <= eff[t]
      <4>1. calls[n]["table"][t].at <= eff[t] /\ NoQuote.at <= eff[t]
        BY <1>0, <3>2, PlaceTypes, NoRows DEF OrderInv, StampsAhead
      <4>2. calls'[n]["table"][t] \in {calls[n]["table"][t], NoQuote}
        BY <2>1 DEF Kinds
      <4> QED BY <4>1, <4>2
    <3>3. \A t \in Tickers : eff[t] <= clock
      BY DEF OrderInv, StampsAhead
    <3> QED BY <1>1, <3>1, <3>2, <3>3 DEF TableWrite, process, StampsAhead
  <2> QED BY <1>1, <2>1, <2>2, OtherCallsOrder DEF TableWrite, Kinds
<1>2. ASSUME NEW o \in Owners, NEW t \in Tickers, FeedWrite(o, t) PROVE OrderInv'
  <2>1. \A n \in Owners, k \in Kinds, u \in Tickers :
          calls'[n][k][u] = IF n = o /\ k = "feed" /\ u = t THEN NoQuote ELSE calls[n][k][u]
    <3>1. calls' = Without(o, "feed", t) /\ "feed" \in Kinds
      BY <1>2 DEF FeedWrite, Kinds, Without
    <3> QED BY <1>0, <3>1, RowTaken
  <2>2. StampsAhead'
    BY <1>2, <2>1, StampsShrink DEF FeedWrite, process, OrderInv
  <2> QED BY <1>2, <2>1, <2>2, OtherCallsOrder DEF FeedWrite, Kinds
<1> QED BY <1>1, <1>2, CacheWriteOrder DEF CacheCalls, TableCalls, FeedCalls

\* A failure is counted, and so excuses its ticker; a loss is excused by itself.
LEMMA FailuresOrder ==
  ASSUME OrderInv, TypeOK', Failures \/ Losses
  PROVE  OrderInv'
<1>0. TypeOK
  BY DEF OrderInv
<1>1. ASSUME NEW o \in Owners, NEW t \in Tickers, FeedRejects(o, t) PROVE OrderInv'
  <2>1. \A n \in Owners, k \in Kinds, u \in Tickers :
          calls'[n][k][u] = IF n = o /\ k = "feed" /\ u = t THEN NoQuote ELSE calls[n][k][u]
    <3>1. calls' = Without(o, "feed", t) /\ "feed" \in Kinds
      BY <1>1 DEF FeedRejects, Kinds, Without
    <3> QED BY <1>0, <3>1, RowTaken
  <2>2. StampsAhead'
    BY <1>1, <2>1, StampsShrink DEF FeedRejects, process, stores, OrderInv
  <2> QED BY <1>1, <2>1, <2>2, OtherCallsOrder DEF FeedRejects, stores, Kinds
<1>2. ASSUME NEW o \in Owners, NEW j \in Kinds, CallFails(o, j) PROVE OrderInv'
  <2>1. \A n \in Owners, k \in Kinds, u \in Tickers :
          calls'[n][k][u] = IF n = o /\ k = j THEN NoQuote ELSE calls[n][k][u]
    <3>1. calls' = WithoutAll(o, j)
      BY <1>2 DEF CallFails, WithoutAll
    <3> QED BY <1>0, <3>1, RowsTaken
  <2>2. StampsAhead'
    BY <1>2, <2>1, StampsShrink DEF CallFails, process, stores, OrderInv
  <2>3. failed' = failed \cup {j}
    BY <1>2 DEF CallFails
  <2> QED BY <1>2, <2>1, <2>2, <2>3, OtherCallsOrder DEF CallFails, stores, Kinds
<1>3. ASSUME NEW j \in Kinds, Raise(j) PROVE OrderInv'
  <2>1. \A k \in Kinds, u \in Tickers :
          /\ calls'["awaited"][k][u] = NoQuote
          /\ calls'["detached"][k][u] = IF k = j THEN NoQuote ELSE calls["awaited"][k][u]
          /\ calls["detached"][k][u] = NoQuote
    BY <1>0, <1>3, NoRows DEF Raise, TypeOK, Owners, Nothing
  <2>2. CallsInPhase'
    BY <1>0, <1>3 DEF Raise, OrderInv, CallsInPhase, Starting, process, TypeOK, Owners
  <2>3. StampsAhead'
    <3>1. ASSUME NEW o \in Owners, NEW t \in Tickers PROVE calls'[o]["table"][t].at <= eff[t]
      <4>1. calls["awaited"]["table"][t].at <= eff[t] /\ NoQuote.at <= eff[t]
        BY <1>0, <1>3, PlaceTypes, NoRows DEF Raise, OrderInv, StampsAhead, Loaded, Owners
      <4>2. calls'[o]["table"][t] \in {calls["awaited"]["table"][t], NoQuote}
        BY <2>1 DEF Owners, Kinds
      <4> QED BY <4>1, <4>2
    <3> QED BY <1>3, <3>1 DEF Raise, OrderInv, StampsAhead, Loaded, process, stores
  <2>4. CacheFollows'
    <3>1. ASSUME NEW t \in Tickers, "cache" \notin failed', upstream[t] # None PROVE Covered(t)'
      <4>1. Covered(t)
        BY <1>3, <3>1 DEF Raise, OrderInv, CacheFollows, process
      <4>2. j # "cache"
        BY <1>3, <3>1 DEF Raise
      <4>3. calls'["detached"]["cache"][t] = calls["awaited"]["cache"][t]
            /\ calls'["awaited"]["cache"][t] = calls["detached"]["cache"][t]
        BY <2>1, <4>2 DEF Kinds
      <4> QED BY <1>3, <4>1, <4>3 DEF Raise, Covered, Owners, process, stores
    <3> QED BY <1>3, <3>1 DEF Raise, CacheFollows, process
  <2> QED BY <2>2, <2>3, <2>4 DEF OrderInv
<1>4. ASSUME Die PROVE OrderInv'
  <2>1. CallsInPhase'
    BY <1>4 DEF Die, CallsInPhase, Starting, NoneDetached
  <2>2. StampsAhead'
    BY <1>0, <1>4, PlaceTypes DEF Die, OrderInv, StampsAhead, Loaded, stores
  <2> QED BY <1>4, <2>1, <2>2 DEF Die, OrderInv, CacheFollows
<1>5. CASE Losses
  <2>1. "loss" \in Faults /\ \A t \in Tickers : cache'[t] \in {cache[t], NoQuote}
    BY <1>0, <1>5 DEF Losses, RedisRestart, Expire, Nothing, TypeOK
  <2>2. UNCHANGED <<process, phase, calls, failed, table>>
    BY <1>5 DEF Losses, RedisRestart, Expire
  <2>3. \A t \in Tickers : Covered(t) => Covered(t)'
    BY <2>1, <2>2 DEF Covered, process
  <2>4. CallsInPhase'
    BY <2>2 DEF OrderInv, CallsInPhase, Starting, NoneDetached, process
  <2>5. StampsAhead' /\ CacheFollows'
    BY <2>2, <2>3 DEF OrderInv, StampsAhead, Loaded, CacheFollows, process
  <2> QED BY <2>4, <2>5 DEF OrderInv
<1> QED BY <1>1, <1>2, <1>3, <1>4, <1>5 DEF Failures, Crash, Stop

\* The start satisfies the invariant.
LEMMA InitOrder == Init => OrderInv
<1> SUFFICES ASSUME Init PROVE OrderInv
  OBVIOUS
<1>1. CallsInPhase
  BY DEF Init, CallsInPhase, Starting, NoneDetached
<1>2. StampsAhead
  BY NoRows DEF Init, StampsAhead, Loaded, Nothing
<1> QED BY <1>1, <1>2, InitType DEF Init, OrderInv, CacheFollows

\* Every step keeps the invariant.
LEMMA StepOrder ==
  ASSUME "raise" \notin Faults \/ "loss" \notin Faults
  PROVE  OrderInv /\ [Next]_vars => OrderInv'
<1> SUFFICES ASSUME OrderInv, [Next]_vars PROVE OrderInv'
  OBVIOUS
<1>1. TypeOK'
  BY StepType DEF OrderInv
<1>2. CASE UNCHANGED vars
  <2>1. CallsInPhase'
    BY <1>2 DEF vars, OrderInv, CallsInPhase, Starting, NoneDetached
  <2>2. StampsAhead' /\ CacheFollows'
    BY <1>2 DEF vars, OrderInv, StampsAhead, Loaded, CacheFollows, Covered
  <2> QED BY <1>1, <2>1, <2>2 DEF OrderInv
<1> QED BY <1>1, <1>2, BootOrder, LoopOrder, CallsOrder, FailuresOrder DEF Next

\* OrderInv is inductive.
LEMMA OrderHolds ==
  ASSUME "raise" \notin Faults \/ "loss" \notin Faults
  PROVE  Spec => []OrderInv
  BY InitOrder, StepOrder, PTL DEF Spec

\* _write_cache: once every cache write of the ticks so far has been answered, and
\* none of the last failed, no reader of the cache is shown an older price than the
\* table holds - with crashes and lost keys, or with crashes and abandoned ticks.
THEOREM CacheIsNotBehind ==
  ASSUME "raise" \notin Faults \/ "loss" \notin Faults
  PROVE  Spec => []CacheNotBehind
<1>1. ASSUME OrderInv PROVE CacheNotBehind
  <2> SUFFICES ASSUME NEW t \in Tickers, phase = "idle", "cache" \notin failed,
                      upstream[t] # None, cache[t] # NoQuote,
                      calls["detached"]["cache"] = Nothing
               PROVE  cache[t].at >= table[t].at
    BY DEF CacheNotBehind
  <2>1. \A o \in Owners : calls[o]["cache"][t].at = 0
    BY <1>1, NoRows DEF OrderInv, CallsInPhase, Owners, Kinds, Nothing
  <2>2. Covered(t) /\ table[t].at <= eff[t]
    BY <1>1 DEF OrderInv, CacheFollows, StampsAhead, Loaded
  <2>3. cache[t].at >= eff[t]
    BY <1>1, <2>1, <2>2, PlaceTypes, QuoteParts DEF Covered, OrderInv
  <2> QED BY <1>1, <2>2, <2>3, PlaceTypes, QuoteParts DEF OrderInv
<1> QED BY <1>1, OrderHolds, PTL

-----------------------------------------------------------------------------
(* The table *)

\* Memory and table agree between ticks; within one, where no row is on its way the
\* table has what was read, and a row on its way carries another, newer price.
TableAgrees ==
  /\ phase \in {"warm", "idle"} =>
       \A t \in Tickers : table[t].price = last[t] /\ table[t].at = eff[t]
  /\ phase = "write" =>
       \A t \in Tickers :
         LET row == calls["awaited"]["table"][t] IN
         IF row = NoQuote
         THEN table[t].price = Known(t) /\ table[t].at = eff[t]
         ELSE /\ row.price = Known(t) /\ row.at = eff[t]
              /\ table[t].price = last[t] /\ last[t] # row.price /\ table[t].at < row.at

\* What the last tick read is what the process believes it published.
ReadIsPublished ==
  phase = "idle" => \A t \in Tickers : upstream[t] # None => last[t] = upstream[t]

TableInv == TableAgrees /\ ReadIsPublished

\* A step that changes neither the memory nor the table, nor a row on its way to it.
LEMMA SameTable ==
  ASSUME TableInv, UNCHANGED <<phase, table, last, eff, upstream>>,
         \A t \in Tickers : calls'["awaited"]["table"][t] = calls["awaited"]["table"][t]
  PROVE  TableInv'
<1>1. \A t \in Tickers : Known(t)' = Known(t)
  BY DEF Known
<1>2. TableAgrees'
  BY <1>1 DEF TableInv, TableAgrees
<1>3. ReadIsPublished'
  BY DEF TableInv, ReadIsPublished
<1> QED BY <1>2, <1>3 DEF TableInv

\* A tick sends a row to the table exactly where the price read is not the one there.
LEMMA TickTable ==
  ASSUME OrderInv, OrderInv', TableInv, NEW read \in Reads, Tick(read)
  PROVE  TableInv'
<1> SUFFICES ASSUME NEW t \in Tickers
             PROVE  LET row == calls'["awaited"]["table"][t] IN
                    IF row = NoQuote
                    THEN table[t].price = Known(t)' /\ table[t].at = eff'[t]
                    ELSE /\ row.price = Known(t)' /\ row.at = eff'[t]
                         /\ table[t].price = last[t] /\ last[t] # row.price
                         /\ table[t].at < row.at
  BY DEF Tick, TableInv, TableAgrees, ReadIsPublished, stores
<1> DEFINE row == calls'["awaited"]["table"][t]
<1>1. row = Rows(read, Changed(read))[t]
  BY DEF Tick, Scope, OrderInv, TypeOK, Owners, Kinds
<1>2. Known(t)' = IF read[t] # None THEN read[t] ELSE last[t]
  BY DEF Tick, Known
<1>3. table[t].price = last[t] /\ table[t].at = eff[t]
  BY DEF Tick, TableInv, TableAgrees
<1>4. /\ table[t] \in MaybeQuotes /\ table[t].at \in Nat /\ clock \in Nat
      /\ table[t].at <= clock
  BY PlaceTypes, QuoteParts DEF OrderInv, StampsAhead
<1> HIDE DEF row
<1>5. CASE t \in Changed(read)
  <2>1. row = [price |-> read[t], at |-> Stamps(read)[t], source |-> source]
    BY <1>1, <1>5 DEF Rows
  <2>2. Stamps(read)[t] = clock + 1 /\ eff'[t] = clock + 1
    BY <1>5 DEF Tick, Stamps, Stamped, Changed, Priced
  <2>3. read[t] # None /\ last[t] # read[t]
    BY <1>5 DEF Changed, Priced
  <2>4. row # NoQuote
    BY <2>1, <2>3 DEF NoQuote
  <2> QED BY <1>2, <1>3, <1>4, <2>1, <2>2, <2>3, <2>4 DEF row
<1>6. CASE t \notin Changed(read)
  <2>1. row = NoQuote
    BY <1>1, <1>6 DEF Rows
  <2>2. read[t] # None => read[t] = last[t]
    BY <1>6 DEF Changed, Priced
  <2>3. t \notin Stamped(read)
    <3>1. read[t] # None => eff[t] # 0
      BY <1>3, <1>4, <2>2, QuoteParts
    <3> QED BY <1>6, <3>1 DEF Stamped, Priced
  <2>4. eff'[t] = eff[t]
    BY <2>3 DEF Tick, Stamps
  <2> QED BY <1>2, <1>3, <2>1, <2>2, <2>4 DEF row
<1> QED BY <1>5, <1>6

\* The upsert stores every row it is given: none is older than the one it replaces.
LEMMA TableWriteTable ==
  ASSUME "raise" \notin Faults, OrderInv, OrderInv', TableInv, NEW o \in Owners, TableWrite(o)
  PROVE  /\ TableInv' /\ phase = "write"
         /\ \A t \in Tickers :
              LET row == calls["awaited"]["table"][t] IN
              table'[t] = IF row = NoQuote THEN table[t] ELSE row
<1>1. o = "awaited" /\ phase = "write"
  <2>1. PICK t \in Tickers : calls[o]["table"][t] # NoQuote
    BY DEF TableWrite, Nothing, OrderInv, TypeOK, Kinds
  <2> QED BY <2>1, RowInPhase DEF OrderInv, Owners, Kinds
<1>2. ASSUME NEW t \in Tickers
      PROVE  LET row == calls["awaited"]["table"][t] IN
             table'[t] = IF row = NoQuote THEN table[t] ELSE row
  <2>1. calls["awaited"]["table"][t] # NoQuote =>
          TableAccepts(table[t], calls["awaited"]["table"][t])
    BY <1>1, PlaceTypes, QuoteParts DEF TableInv, TableAgrees, TableAccepts, OrderInv, Owners,
        Kinds
  <2> QED BY <1>1, <2>1 DEF TableWrite
<1>3. \A t \in Tickers : calls'["awaited"]["table"][t] = NoQuote
  <2>1. calls' = WithoutAll(o, "table") /\ TypeOK
    BY DEF TableWrite, OrderInv, WithoutAll
  <2> QED BY <1>1, <2>1, RowsTaken DEF Owners, Kinds
<1>4. TableInv'
  <2>1. \A t \in Tickers : Known(t)' = Known(t)
    BY DEF TableWrite, process, Known
  <2>2. TableAgrees'
    BY <1>1, <1>2, <1>3, <2>1 DEF TableWrite, process, TableInv, TableAgrees
  <2>3. ReadIsPublished'
    BY <1>1 DEF TableWrite, ReadIsPublished
  <2> QED BY <2>2, <2>3 DEF TableInv
<1> QED BY <1>1, <1>2, <1>4

\* Every step keeps memory and table together, if no upsert fails and no tick is
\* abandoned: ...
LEMMA StepTable ==
  ASSUME {"raise", "table"} \cap Faults = {}
  PROVE  OrderInv /\ OrderInv' /\ TableInv /\ [Next]_vars => TableInv'
<1> SUFFICES ASSUME OrderInv, OrderInv', TableInv, [Next]_vars PROVE TableInv'
  OBVIOUS
<1> USE DEF process, stores
<1>0. TypeOK /\ CallsInPhase
  BY DEF OrderInv
<1>1. CASE (\E s \in Sources : Start(s)) \/ ReconcileClean \/ Wipe \/ Adopt
           \/ (\E t \in Tickers : FlushKey(t)) \/ FlushDone \/ Crash \/ Stop
  BY <1>1 DEF Start, ReconcileClean, Wipe, Adopt, FlushKey, FlushDone, Crash, Stop, Die,
              TableInv, TableAgrees, ReadIsPublished
<1>2. CASE ReadRows
  BY <1>2 DEF ReadRows, TableInv, TableAgrees, ReadIsPublished
<1>3. CASE Warmed
  BY <1>0, <1>3 DEF Warmed, CallsInPhase, TableInv, TableAgrees, ReadIsPublished
<1>4. ASSUME NEW read \in Reads, Tick(read) PROVE TableInv'
  BY <1>4, TickTable
<1>5. CASE TickWithoutPrices
  BY <1>5 DEF TickWithoutPrices, TableInv, TableAgrees, ReadIsPublished
<1>6. CASE EndTick
  <2>1. \A t \in Tickers : calls["awaited"]["table"][t] = NoQuote
    BY <1>6 DEF EndTick, Nothing, Kinds
  <2>2. \A t \in Tickers : last'[t] = Known(t)
    BY <1>6 DEF EndTick, Known
  <2> QED BY <1>6, <2>1, <2>2 DEF EndTick, Known, TableInv, TableAgrees, ReadIsPublished
<1>7. ASSUME NEW o \in Owners, NEW t \in Tickers,
             CacheWrite(o, t) \/ FeedWrite(o, t) \/ FeedRejects(o, t)
      PROVE  TableInv'
  <2>1. PICK k \in Kinds \ {"table"} : calls' = Without(o, k, t)
    BY <1>7 DEF CacheWrite, FeedWrite, FeedRejects, Kinds, Without
  <2>2. \A u \in Tickers : calls'["awaited"]["table"][u] = calls["awaited"]["table"][u]
    BY <1>0, <2>1, RowTaken DEF Owners, Kinds
  <2> QED BY <1>7, <2>2, SameTable DEF CacheWrite, FeedWrite, FeedRejects
<1>8. ASSUME NEW o \in Owners, NEW k \in Kinds, CallFails(o, k) PROVE TableInv'
  <2>1. k # "table" /\ calls' = WithoutAll(o, k)
    BY <1>8 DEF CallFails, WithoutAll
  <2>2. \A u \in Tickers : calls'["awaited"]["table"][u] = calls["awaited"]["table"][u]
    BY <1>0, <2>1, RowsTaken DEF Owners, Kinds
  <2> QED BY <1>8, <2>2, SameTable DEF CallFails
<1>9. CASE Losses \/ UNCHANGED vars
  BY <1>9, SameTable DEF Losses, RedisRestart, Expire, vars
<1> QED BY <1>1, <1>2, <1>3, <1>4, <1>5, <1>6, <1>7, <1>8, <1>9, TableWriteTable
        DEF Next, Boot, Loop, CacheCalls, TableCalls, FeedCalls, Failures, Raise

\* TableInv is inductive.
LEMMA TableHolds ==
  ASSUME {"raise", "table"} \cap Faults = {}
  PROVE  Spec => []TableInv
<1>1. Init => TableInv
  BY DEF Init, TableInv, TableAgrees, ReadIsPublished
<1>2. Spec => []OrderInv
  BY OrderHolds
<1>3. OrderInv /\ OrderInv' /\ TableInv /\ [Next]_vars => TableInv'
  BY StepTable
<1> QED BY <1>1, <1>2, <1>3, PTL DEF Spec

\* _write_postgres: writing changes only keeps the table complete. ...
THEOREM TableIsCurrent ==
  ASSUME {"raise", "table"} \cap Faults = {}
  PROVE  Spec => []TableCurrent
<1>1. TableInv => TableCurrent
  BY DEF TableInv, TableAgrees, TableCurrent
<1> QED BY <1>1, TableHolds, PTL

\* ... and keeps it a record of changes: no row is replaced by one with its price,
\* also by the first tick after a crash, whose memory is the table.
THEOREM TableRecordsChanges ==
  ASSUME {"raise", "table"} \cap Faults = {}
  PROVE  Spec => RowsRecordChanges
<1>1. ASSUME OrderInv, OrderInv', TableInv, [Next]_vars,
             NEW t \in Tickers, table[t] # NoQuote, table'[t].at > table[t].at
      PROVE  table'[t].price # table[t].price
  <2> USE DEF process, stores
  <2>0. table[t].at \in Nat /\ NoQuote.at = 0
    BY <1>1, PlaceTypes, QuoteParts, NoRows DEF OrderInv
  <2>1. table'[t] # table[t] /\ table'[t] # NoQuote
    BY <1>1, <2>0
  <2>2. CASE \E o \in Owners : TableWrite(o)
    <3>1. PICK o \in Owners : TableWrite(o)
      BY <2>2
    <3>2. /\ phase = "write" /\ calls["awaited"]["table"][t] # NoQuote
          /\ table'[t] = calls["awaited"]["table"][t]
      BY <1>1, <2>1, <3>1, TableWriteTable
    <3> QED BY <1>1, <3>2 DEF TableInv, TableAgrees
  <2>3. CASE Wipe
    BY <1>1, <2>1, <2>3 DEF Wipe
  <2>4. CASE Adopt
    <3>1. table'[t].at = table[t].at
      BY <1>1, <2>4, PlaceTypes DEF Adopt, OrderInv, MaybeQuotes, Quotes, NoQuote
    <3> QED BY <1>1, <2>0, <3>1
  <2> QED BY <1>1, <2>1, <2>2, <2>3, <2>4
          DEF Next, Boot, Start, ReconcileClean, FlushKey, FlushDone, ReadRows, Warmed,
              Loop, TickWithoutPrices, Tick, EndTick, CacheCalls, CacheWrite, TableCalls,
              FeedCalls, FeedWrite, Failures, FeedRejects, CallFails, Raise, Crash, Stop, Die,
              Losses, RedisRestart, Expire, vars
<1>2. OrderInv /\ OrderInv' /\ TableInv /\ [Next]_vars =>
        [\A t \in Tickers : (table[t] # NoQuote /\ table'[t].at > table[t].at)
                              => table'[t].price # table[t].price]_vars
  BY <1>1
<1>3. Spec => []OrderInv /\ []TableInv
  BY OrderHolds, TableHolds
<1> QED BY <1>2, <1>3, PTL DEF Spec, RowsRecordChanges

-----------------------------------------------------------------------------
(* The channels *)

\* The last publication of a ticker with a row has the price of the row, also after
\* a restart; within a tick it is on its way, or made.
FeedAgrees ==
  /\ phase # "write" =>
       \A t \in Tickers : table[t] # NoQuote => feed[t].price = table[t].price
  /\ phase = "write" =>
       \A t \in Tickers :
         LET row == calls["awaited"]["feed"][t] IN
         IF row = NoQuote THEN Known(t) # None => feed[t].price = Known(t)
                          ELSE row.price = Known(t)

\* A step that changes neither the table, nor the channels, nor a publish under way.
LEMMA SameFeed ==
  ASSUME FeedAgrees, UNCHANGED <<phase, table, feed, last, upstream>>,
         \A t \in Tickers : calls'["awaited"]["feed"][t] = calls["awaited"]["feed"][t]
  PROVE  FeedAgrees'
<1>1. \A t \in Tickers : Known(t)' = Known(t)
  BY DEF Known
<1> QED BY <1>1 DEF FeedAgrees

\* A tick publishes what it changes; the rest has been published at that price.
LEMMA TickFeed ==
  ASSUME OrderInv, TableInv, FeedAgrees, NEW read \in Reads, Tick(read)
  PROVE  FeedAgrees'
<1> SUFFICES ASSUME NEW t \in Tickers
             PROVE  LET row == calls'["awaited"]["feed"][t] IN
                    IF row = NoQuote THEN Known(t)' # None => feed[t].price = Known(t)'
                                     ELSE row.price = Known(t)'
  BY DEF Tick, FeedAgrees, stores
<1>1. calls'["awaited"]["feed"][t] = Rows(read, Changed(read))[t]
  BY DEF Tick, Scope, OrderInv, TypeOK, Owners, Kinds
<1>2. Known(t)' = IF read[t] # None THEN read[t] ELSE last[t]
  BY DEF Tick, Known
<1>3. CASE t \in Changed(read)
  BY <1>1, <1>2, <1>3 DEF Rows, Changed, Priced, NoQuote
<1>4. CASE t \notin Changed(read)
  <2>1. Known(t)' = last[t]
    BY <1>2, <1>4 DEF Changed, Priced
  <2>2. last[t] # None => feed[t].price = last[t]
    <3>1. table[t].price = last[t]
      BY DEF Tick, TableInv, TableAgrees
    <3>2. table[t].price # None => table[t] # NoQuote
      BY PlaceTypes, QuoteParts DEF OrderInv
    <3> QED BY <3>1, <3>2 DEF Tick, FeedAgrees
  <2>3. calls'["awaited"]["feed"][t] = NoQuote
    BY <1>1, <1>4 DEF Rows
  <2> QED BY <2>1, <2>2, <2>3
<1> QED BY <1>3, <1>4

\* Every step keeps the channels at the prices of the table, if nothing but the cache
\* fails and the process is restarted between ticks only.
LEMMA StepFeed ==
  ASSUME {"raise", "table", "feed", "crash"} \cap Faults = {}
  PROVE  OrderInv /\ OrderInv' /\ TableInv /\ FeedAgrees /\ [Next]_vars => FeedAgrees'
<1> SUFFICES ASSUME OrderInv, OrderInv', TableInv, FeedAgrees, [Next]_vars PROVE FeedAgrees'
  OBVIOUS
<1> USE DEF process, stores
<1>0. TypeOK /\ CallsInPhase
  BY DEF OrderInv
<1>1. CASE (\E s \in Sources : Start(s)) \/ ReconcileClean \/ (\E t \in Tickers : FlushKey(t))
           \/ FlushDone \/ ReadRows \/ Warmed \/ TickWithoutPrices \/ Stop
  BY <1>1 DEF Start, ReconcileClean, FlushKey, FlushDone, ReadRows, Warmed,
              TickWithoutPrices, Stop, Die, FeedAgrees
<1>2. CASE Wipe \/ Adopt
  <2>1. \A t \in Tickers : table'[t] # NoQuote =>
          table[t] # NoQuote /\ table'[t].price = table[t].price
    BY <1>0, <1>2, PlaceTypes DEF Wipe, Adopt, MaybeQuotes, Quotes, NoQuote
  <2> QED BY <1>2, <2>1 DEF Wipe, Adopt, FeedAgrees
<1>3. ASSUME NEW read \in Reads, Tick(read) PROVE FeedAgrees'
  BY <1>3, TickFeed
<1>4. CASE EndTick
  <2>1. \A t \in Tickers : calls["awaited"]["table"][t] = NoQuote
                           /\ calls["awaited"]["feed"][t] = NoQuote
    BY <1>4 DEF EndTick, Nothing, Kinds
  <2>2. ASSUME NEW t \in Tickers, table[t] # NoQuote PROVE feed[t].price = table[t].price
    <3>1. table[t].price = Known(t) /\ table[t].price # None
      BY <1>0, <1>4, <2>1, <2>2, PlaceTypes, QuoteParts DEF EndTick, TableInv, TableAgrees
    <3> QED BY <1>4, <2>1, <3>1 DEF EndTick, FeedAgrees
  <2> QED BY <1>4, <2>2 DEF EndTick, FeedAgrees
<1>5. ASSUME NEW o \in Owners, NEW t \in Tickers, CacheWrite(o, t) PROVE FeedAgrees'
  <2>1. calls' = Without(o, "cache", t)
    BY <1>5 DEF CacheWrite, Without
  <2>2. \A u \in Tickers : calls'["awaited"]["feed"][u] = calls["awaited"]["feed"][u]
    BY <1>0, <2>1, RowTaken DEF Owners, Kinds
  <2> QED BY <1>5, <2>2, SameFeed DEF CacheWrite
<1>6. ASSUME NEW o \in Owners, TableWrite(o) PROVE FeedAgrees'
  <2>1. phase = "write"
    BY <1>6, TableWriteTable
  <2>2. calls' = WithoutAll(o, "table")
    BY <1>6 DEF TableWrite, WithoutAll
  <2>3. \A u \in Tickers : calls'["awaited"]["feed"][u] = calls["awaited"]["feed"][u]
    BY <1>0, <2>2, RowsTaken DEF Owners, Kinds
  <2>4. \A u \in Tickers : Known(u)' = Known(u)
    BY <1>6 DEF TableWrite, Known
  <2> QED BY <1>6, <2>1, <2>3, <2>4 DEF TableWrite, FeedAgrees
<1>7. ASSUME NEW o \in Owners, NEW t \in Tickers, FeedWrite(o, t) PROVE FeedAgrees'
  <2>1. o = "awaited" /\ phase = "write"
    BY <1>0, <1>7, RowInPhase DEF FeedWrite, Owners, Kinds
  <2>2. calls' = Without(o, "feed", t)
    BY <1>7 DEF FeedWrite, Without
  <2>3. \A u \in Tickers : calls'["awaited"]["feed"][u] =
                             IF u = t THEN NoQuote ELSE calls["awaited"]["feed"][u]
    <3>1. \A n \in Owners, j \in Kinds, u \in Tickers :
            calls'[n][j][u] = IF n = o /\ j = "feed" /\ u = t THEN NoQuote ELSE calls[n][j][u]
      <4>1. "feed" \in Kinds
        BY DEF Kinds
      <4> QED BY <1>0, <2>2, <4>1, RowTaken
    <3> QED BY <2>1, <3>1 DEF Kinds
  <2>4. \A u \in Tickers : feed'[u] = IF u = t THEN calls["awaited"]["feed"][t] ELSE feed[u]
    BY <1>0, <1>7, <2>1 DEF FeedWrite, TypeOK
  <2>5. \A u \in Tickers : Known(u)' = Known(u)
    BY <1>7 DEF FeedWrite, Known
  <2>6. calls["awaited"]["feed"][t] # NoQuote
    BY <1>7, <2>1 DEF FeedWrite
  <2> QED BY <1>7, <2>1, <2>3, <2>4, <2>5, <2>6 DEF FeedWrite, FeedAgrees
<1>8. ASSUME NEW o \in Owners, NEW k \in Kinds, CallFails(o, k) PROVE FeedAgrees'
  <2>1. k # "feed" /\ calls' = WithoutAll(o, k)
    BY <1>8 DEF CallFails, WithoutAll
  <2>2. \A u \in Tickers : calls'["awaited"]["feed"][u] = calls["awaited"]["feed"][u]
    BY <1>0, <2>1, RowsTaken DEF Owners, Kinds
  <2> QED BY <1>8, <2>2, SameFeed DEF CallFails
<1>9. CASE Losses \/ UNCHANGED vars
  BY <1>9, SameFeed DEF Losses, RedisRestart, Expire, vars
<1> QED BY <1>1, <1>2, <1>3, <1>4, <1>5, <1>6, <1>7, <1>8, <1>9
        DEF Next, Boot, Loop, CacheCalls, TableCalls, FeedCalls, Failures, FeedRejects, Raise,
            Crash

\* _publish: publishing changes only leaves no channel behind, if no publish fails and
\* none is cut off by a crash or by a failed upsert the restart would resume from.
THEOREM FeedIsCurrent ==
  ASSUME {"raise", "table", "feed", "crash"} \cap Faults = {}
  PROVE  Spec => []FeedCurrent
<1>1. Init => FeedAgrees
  BY DEF Init, FeedAgrees, Nothing
<1>2. OrderInv /\ OrderInv' /\ TableInv /\ FeedAgrees /\ [Next]_vars => FeedAgrees'
  BY StepFeed
<1>3. ASSUME OrderInv, TableInv, FeedAgrees PROVE FeedCurrent
  <2> SUFFICES ASSUME NEW t \in Tickers, phase = "idle", upstream[t] # None
               PROVE  feed[t].price = upstream[t]
    BY DEF FeedCurrent
  <2>1. table[t].price = upstream[t]
    BY <1>3 DEF TableInv, TableAgrees, ReadIsPublished
  <2>2. table[t] # NoQuote
    BY <1>3, <2>1, NoRows
  <2> QED BY <1>3, <2>1, <2>2 DEF FeedAgrees
<1>4. Spec => []OrderInv /\ []TableInv
  BY OrderHolds, TableHolds
<1> QED BY <1>1, <1>2, <1>3, <1>4, PTL DEF Spec

-----------------------------------------------------------------------------
(* The cache *)

\* No key is ahead of the table at a start, nor of the process afterwards: what the
\* warm-up and the ticks write wins the guard.
CacheBehind ==
  /\ phase \in {"down", "boot", "read"} => \A t \in Tickers : cache[t].at <= table[t].at
  /\ phase \in Loaded =>
       \A t \in Tickers : cache[t].at <= eff[t] /\ calls["awaited"]["cache"][t].at <= eff[t]

\* The warm-up replaces every key it does not find to be of its source.
CacheOurs ==
  /\ phase = "warm" =>
       \A t \in Tickers :
         LET row == calls["awaited"]["cache"][t] IN
         IF row = NoQuote THEN Ours(cache[t]) ELSE Ours(row) /\ cache[t].at <= row.at
  /\ phase \in {"idle", "write"} =>
       \A t \in Tickers : Ours(cache[t]) /\ Ours(calls["awaited"]["cache"][t])

\* A step that changes neither a store nor a row on its way to the cache.
LEMMA SameCache ==
  ASSUME UNCHANGED <<phase, source, table, cache, eff>>,
         \A t \in Tickers : calls'["awaited"]["cache"][t] = calls["awaited"]["cache"][t]
  PROVE  (CacheBehind => CacheBehind') /\ (CacheOurs => CacheOurs')
<1>1. CacheBehind => CacheBehind'
  BY DEF CacheBehind, Loaded
<1>2. CacheOurs => CacheOurs'
  BY DEF CacheOurs, Ours
<1> QED BY <1>1, <1>2

\* A compare-and-set of the gather or of the warm-up puts a row in the cache whose
\* stamp the process has: the warm-up, always; a tick, unless the key is newer.
LEMMA CacheWriteCache ==
  ASSUME {"raise", "crash"} \cap Faults = {},
         OrderInv, CacheBehind, CacheOurs, NEW o \in Owners, NEW t \in Tickers, CacheWrite(o, t)
  PROVE  CacheBehind' /\ CacheOurs'
<1> DEFINE quote == calls["awaited"]["cache"][t]
<1>0. TypeOK /\ CallsInPhase
  BY DEF OrderInv
<1>1. o = "awaited" /\ phase \in {"warm", "write"}
  BY <1>0, RowInPhase DEF CacheWrite, Owners, Kinds
<1>2. quote # NoQuote /\ UNCHANGED <<phase, source, table, eff>>
  BY <1>1 DEF CacheWrite, process
<1>3. \A u \in Tickers : calls'["awaited"]["cache"][u] =
                           IF u = t THEN NoQuote ELSE calls["awaited"]["cache"][u]
  <2>1. calls' = Without(o, "cache", t)
    BY DEF CacheWrite, Without
  <2>2. \A n \in Owners, j \in Kinds, u \in Tickers :
          calls'[n][j][u] = IF n = o /\ j = "cache" /\ u = t THEN NoQuote ELSE calls[n][j][u]
    <3>1. "cache" \in Kinds
      BY DEF Kinds
    <3> QED BY <1>0, <2>1, <3>1, RowTaken
  <2> QED BY <1>1, <2>2 DEF Kinds
<1>4. /\ quote.at \in Nat /\ cache[t].at \in Nat /\ eff[t] \in Nat
  BY <1>0, PlaceTypes, QuoteParts DEF Owners, Kinds
<1>5. \/ cache' = [cache EXCEPT ![t] = quote]
      \/ cache' = cache /\ cache[t].at > quote.at
  <2>1. After(ToIso(cache[t].at), ToIso(quote.at)) <=> cache[t].at > quote.at
    BY <1>4, TextOrderIsTimeOrder
  <2> QED BY <1>1, <2>1 DEF CacheWrite, CacheAccepts
<1>6. /\ cache'[t] = quote \/ (cache'[t] = cache[t] /\ cache[t].at > quote.at)
      /\ \A u \in Tickers \ {t} : cache'[u] = cache[u]
  BY <1>0, <1>5 DEF TypeOK
<1> HIDE DEF quote
<1>7. CacheBehind'
  <2>1. quote.at <= eff[t]
    BY <1>1 DEF CacheBehind, Loaded, quote
  <2>2. \A u \in Tickers : NoQuote.at <= eff[u]
    BY <1>0, PlaceTypes, NoRows
  <2> QED BY <1>1, <1>2, <1>3, <1>6, <2>1, <2>2 DEF CacheBehind, Loaded
<1>8. CacheOurs'
  <2>1. CASE phase = "warm"
    <3>1. Ours(quote) /\ cache[t].at <= quote.at
      BY <1>2, <2>1 DEF CacheOurs, quote
    <3>2. cache'[t] = quote
      BY <1>4, <1>6, <3>1
    <3> QED BY <1>2, <1>3, <1>6, <2>1, <3>1, <3>2 DEF CacheOurs, Ours, quote
  <2>2. CASE phase = "write"
    <3>1. Ours(quote) /\ Ours(cache[t]) /\ Ours(NoQuote)
      BY <2>2, NoRows DEF CacheOurs, Ours, quote
    <3> QED BY <1>2, <1>3, <1>6, <2>2, <3>1 DEF CacheOurs, Ours
  <2> QED BY <1>1, <2>1, <2>2
<1> QED BY <1>7, <1>8

\* The start-up: the keys it finds are not ahead of the rows, or are flushed.
LEMMA BootCache ==
  ASSUME OrderInv, OrderInv', ProvenanceInv, CacheBehind, CacheOurs, Boot
  PROVE  CacheBehind' /\ CacheOurs'
<1> USE DEF process, stores
<1>0. TypeOK /\ CallsInPhase
  BY DEF OrderInv
<1>1. CASE (\E s \in Sources : Start(s)) \/ ReconcileClean \/ Wipe
           \/ \E t \in Tickers : FlushKey(t)
  BY <1>1 DEF Start, ReconcileClean, Wipe, FlushKey, CacheBehind, CacheOurs, Loaded
<1>2. CASE Adopt
  <2>1. \A t \in Tickers : table'[t].at = table[t].at
    BY <1>0, <1>2, PlaceTypes DEF Adopt, MaybeQuotes, Quotes, NoQuote
  <2> QED BY <1>2, <2>1 DEF Adopt, CacheBehind, CacheOurs, Loaded
<1>3. CASE FlushDone
  <2>1. \A t \in Tickers : cache[t].at <= table[t].at
    BY <1>0, <1>3, PlaceTypes, QuoteParts, NoRows DEF FlushDone, Nothing
  <2> QED BY <1>3, <2>1 DEF FlushDone, CacheBehind, CacheOurs, Loaded
<1>4. CASE ReadRows
  <2>1. ASSUME NEW t \in Tickers
        PROVE  calls'["awaited"]["cache"][t] = table[t] /\ eff'[t] = table[t].at
    BY <1>0, <1>4 DEF ReadRows, TypeOK, Owners, Kinds
  <2>2. ASSUME NEW t \in Tickers
        PROVE  /\ cache[t].at <= table[t].at /\ table[t].at <= table[t].at
               /\ Ours(table[t]) /\ (table[t] = NoQuote => cache[t] = NoQuote)
    <3>1. cache[t].at <= table[t].at /\ Ours(table[t])
      BY <1>4 DEF ReadRows, CacheBehind, ProvenanceInv, RowsOurs
    <3>2. /\ table[t].at \in Nat /\ cache[t].at \in Nat
          /\ (cache[t].at = 0 <=> cache[t] = NoQuote)
      BY <1>0, PlaceTypes, QuoteParts
    <3> QED BY <3>1, <3>2, NoRows
  <2>3. CacheBehind'
    BY <1>4, <2>1, <2>2 DEF ReadRows, CacheBehind
  <2>4. CacheOurs'
    BY <1>4, <2>1, <2>2 DEF ReadRows, CacheOurs, Ours
  <2> QED BY <2>3, <2>4
<1>5. CASE Warmed
  <2>1. \A t \in Tickers : calls["awaited"]["cache"][t] = NoQuote
    BY <1>5 DEF Warmed, Nothing
  <2> QED BY <1>5, <2>1, NoRows DEF Warmed, CacheBehind, CacheOurs, Loaded, Ours
<1> QED BY <1>1, <1>2, <1>3, <1>4, <1>5 DEF Boot

\* A tick brings newer stamps and its own label.
LEMMA TickCache ==
  ASSUME OrderInv, OrderInv', CacheBehind, CacheOurs, NEW read \in Reads, Tick(read)
  PROVE  CacheBehind' /\ CacheOurs'
<1>0. TypeOK
  BY DEF OrderInv
<1>1. ASSUME NEW t \in Tickers
      PROVE  /\ eff[t] <= eff'[t] /\ eff[t] \in Nat /\ eff'[t] \in Nat
             /\ calls'["awaited"]["cache"][t] = Rows(read, Scope(read, "cache"))[t]
             /\ calls'["awaited"]["cache"][t].at <= eff'[t]
  <2>1. eff[t] <= eff'[t]
    BY <1>0, PlaceTypes DEF Tick, Stamps, OrderInv, StampsAhead
  <2>2. eff[t] \in Nat /\ eff'[t] \in Nat
    BY MaxStampAssumption DEF OrderInv, TypeOK
  <2>3. calls'["awaited"]["cache"][t] = Rows(read, Scope(read, "cache"))[t]
    BY <1>0 DEF Tick, TypeOK, Owners, Kinds
  <2>4. calls'["awaited"]["cache"][t] # NoQuote => calls'["awaited"]["cache"][t].at = eff'[t]
    BY <2>3 DEF Rows, Tick
  <2> QED BY <2>1, <2>2, <2>3, <2>4, NoRows
<1>2. CacheBehind'
  <2>1. ASSUME NEW t \in Tickers PROVE cache'[t].at <= eff'[t]
    <3>1. cache'[t] = cache[t] /\ cache[t].at <= eff[t] /\ cache[t].at \in Nat
      BY <1>0, PlaceTypes, QuoteParts DEF Tick, stores, CacheBehind, Loaded
    <3> QED BY <1>1, <3>1
  <2> QED BY <1>1, <2>1 DEF Tick, CacheBehind
<1>3. CacheOurs'
  <2>1. \A t \in Tickers : Ours(calls'["awaited"]["cache"][t])
    <3> TAKE t \in Tickers
    <3>1. Rows(read, Scope(read, "cache"))[t] =
            IF t \in Scope(read, "cache")
              THEN [price |-> read[t], at |-> Stamps(read)[t], source |-> source]
              ELSE NoQuote
      BY DEF Rows
    <3>2. Rows(read, Scope(read, "cache"))[t].source \in {source, "none"}
      BY <3>1 DEF NoQuote
    <3> QED BY <1>1, <3>2 DEF Ours
  <2> QED BY <2>1 DEF Tick, stores, CacheOurs, Ours
<1> QED BY <1>2, <1>3

\* Every step keeps the cache behind the process and of its source, if no upsert fails
\* and the process is restarted between ticks only.
LEMMA StepCache ==
  ASSUME {"raise", "table", "crash"} \cap Faults = {}
  PROVE  OrderInv /\ OrderInv' /\ TableInv /\ ProvenanceInv /\ CacheBehind /\ CacheOurs
           /\ [Next]_vars => CacheBehind' /\ CacheOurs'
<1> SUFFICES ASSUME OrderInv, OrderInv', TableInv, ProvenanceInv, CacheBehind, CacheOurs,
                    [Next]_vars
             PROVE  CacheBehind' /\ CacheOurs'
  OBVIOUS
<1> USE DEF process, stores
<1>0. TypeOK /\ CallsInPhase
  BY DEF OrderInv
<1>1. CASE Boot
  BY <1>1, BootCache
<1>2. CASE TickWithoutPrices
  BY <1>2 DEF TickWithoutPrices, CacheBehind, CacheOurs, Loaded, Ours
<1>3. ASSUME NEW read \in Reads, Tick(read) PROVE CacheBehind' /\ CacheOurs'
  BY <1>3, TickCache
<1>4. CASE EndTick
  BY <1>4 DEF EndTick, CacheBehind, CacheOurs, Loaded, Ours
<1>5. CASE CacheCalls
  BY <1>5, CacheWriteCache DEF CacheCalls
<1>6. ASSUME NEW o \in Owners, TableWrite(o) PROVE CacheBehind' /\ CacheOurs'
  <2>1. phase = "write"
    BY <1>6, TableWriteTable
  <2>2. calls' = WithoutAll(o, "table")
    BY <1>6 DEF TableWrite, WithoutAll
  <2>3. \A u \in Tickers : calls'["awaited"]["cache"][u] = calls["awaited"]["cache"][u]
    BY <1>0, <2>2, RowsTaken DEF Owners, Kinds
  <2> QED BY <1>6, <2>1, <2>3 DEF TableWrite, CacheBehind, CacheOurs, Loaded, Ours
<1>7. ASSUME NEW o \in Owners, NEW t \in Tickers, FeedWrite(o, t) \/ FeedRejects(o, t)
      PROVE  CacheBehind' /\ CacheOurs'
  <2>1. calls' = Without(o, "feed", t)
    BY <1>7 DEF FeedWrite, FeedRejects, Without
  <2>2. \A u \in Tickers : calls'["awaited"]["cache"][u] = calls["awaited"]["cache"][u]
    BY <1>0, <2>1, RowTaken DEF Owners, Kinds
  <2> QED BY <1>7, <2>2, SameCache DEF FeedWrite, FeedRejects
<1>8. ASSUME NEW o \in Owners, NEW k \in Kinds, CallFails(o, k) PROVE CacheBehind' /\ CacheOurs'
  <2>1. calls' = WithoutAll(o, k)
    BY <1>8 DEF CallFails, WithoutAll
  <2>2. \A n \in Owners, j \in Kinds, u \in Tickers :
          calls'[n][j][u] = IF n = o /\ j = k THEN NoQuote ELSE calls[n][j][u]
    BY <1>0, <2>1, RowsTaken
  <2>3. \A u \in Tickers : calls'["awaited"]["cache"][u] \in {calls["awaited"]["cache"][u], NoQuote}
    BY <2>2 DEF Owners, Kinds
  <2>4. \A u \in Tickers : calls'["awaited"]["cache"][u] # calls["awaited"]["cache"][u]
                             => phase = "write"
    BY <1>0, <1>8, <2>1, RowsTaken DEF CallFails, Owners, Kinds
  <2>5. \A u \in Tickers : NoQuote.at <= eff[u] /\ Ours(NoQuote)
    BY <1>0, PlaceTypes, NoRows DEF Ours
  <2>6. CacheBehind'
    BY <1>8, <2>3, <2>5 DEF CallFails, CacheBehind, Loaded
  <2>7. CacheOurs'
    BY <1>8, <2>3, <2>4, <2>5 DEF CallFails, CacheOurs, Ours
  <2> QED BY <2>6, <2>7
<1>9. CASE Stop
  <2>1. \A t \in Tickers : cache[t].at <= table[t].at
    BY <1>9 DEF Stop, CacheBehind, Loaded, TableInv, TableAgrees
  <2> QED BY <1>9, <2>1 DEF Stop, Die, CacheBehind, CacheOurs, Loaded
<1>10. CASE Losses
  <2>1. \A t \in Tickers : cache'[t] \in {cache[t], NoQuote}
    BY <1>0, <1>10 DEF Losses, RedisRestart, Expire, Nothing, TypeOK
  <2>2. UNCHANGED <<process, phase, calls, table>>
    BY <1>10 DEF Losses, RedisRestart, Expire
  <2>3. \A t \in Tickers : /\ NoQuote.at <= eff[t] /\ NoQuote.at <= table[t].at /\ Ours(NoQuote)
                           /\ NoQuote.at <= calls["awaited"]["cache"][t].at
    <3>1. NoQuote.at = 0 /\ Ours(NoQuote)
      BY NoRows DEF Ours
    <3>2. ASSUME NEW t \in Tickers
          PROVE  eff[t] >= 0 /\ table[t].at >= 0 /\ calls["awaited"]["cache"][t].at >= 0
      BY <1>0, PlaceTypes, QuoteParts DEF Owners, Kinds
    <3>3. ASSUME NEW t \in Tickers
          PROVE  eff[t] \in Nat /\ table[t].at \in Nat /\ calls["awaited"]["cache"][t].at \in Nat
      BY <1>0, PlaceTypes, QuoteParts DEF Owners, Kinds
    <3> QED BY <3>1, <3>2, <3>3
  <2>4. CacheBehind'
    BY <2>1, <2>2, <2>3 DEF CacheBehind, Loaded
  <2>5. CacheOurs'
    BY <2>1, <2>2, <2>3 DEF CacheOurs, Ours
  <2> QED BY <2>4, <2>5
<1>11. CASE UNCHANGED vars
  BY <1>11, SameCache DEF vars
<1> QED BY <1>1, <1>2, <1>3, <1>4, <1>5, <1>6, <1>7, <1>8, <1>9, <1>10, <1>11
        DEF Next, Loop, TableCalls, FeedCalls, Failures, Raise, Crash

\* What is known of the keys, and that they are of one source, is inductive.
LEMMA CacheHolds ==
  ASSUME {"raise", "table", "crash"} \cap Faults = {}
  PROVE  Spec => [](CacheBehind /\ CacheOurs)
<1>1. Init => CacheBehind /\ CacheOurs
  BY NoRows DEF Init, CacheBehind, CacheOurs, Loaded, Nothing
<1>2. OrderInv /\ OrderInv' /\ TableInv /\ ProvenanceInv /\ CacheBehind /\ CacheOurs
        /\ [Next]_vars => CacheBehind' /\ CacheOurs'
  BY StepCache
<1>3. Spec => []OrderInv /\ []TableInv /\ []ProvenanceInv
  BY OrderHolds, TableHolds, ProvenanceHolds
<1> QED BY <1>1, <1>2, <1>3, PTL DEF Spec

\* "The cache is a picture of what is current": between ticks a key that is there has
\* the price last read, unless its write failed - also after lost keys and restarts.
THEOREM CacheIsAPicture ==
  ASSUME {"raise", "table", "crash"} \cap Faults = {}
  PROVE  Spec => []CachePicture
<1>1. ASSUME OrderInv, TableInv, StampInv, CacheBehind PROVE CachePicture
  <2> SUFFICES ASSUME NEW t \in Tickers, phase = "idle", "cache" \notin failed,
                      upstream[t] # None, cache[t] # NoQuote
               PROVE  cache[t].price = upstream[t]
    BY DEF CachePicture
  <2>1. \A o \in Owners : calls[o]["cache"][t].at = 0
    BY <1>1, NoRows DEF OrderInv, CallsInPhase, NoneDetached, Owners, Kinds
  <2>2. Covered(t) /\ cache[t].at <= eff[t]
    BY <1>1 DEF OrderInv, CacheFollows, CacheBehind, Loaded
  <2>3. cache[t].at \in Nat /\ eff[t] \in Nat
    BY <1>1, PlaceTypes, QuoteParts DEF OrderInv
  <2>4. cache[t].at = eff[t]
    BY <2>1, <2>2, <2>3 DEF Covered
  <2>5. cache[t].price = Known(t)
    BY <1>1, <2>4, StoresSeen DEF StampInv, MemoryAgrees, Loaded
  <2> QED BY <1>1, <2>5 DEF Known, TableInv, ReadIsPublished
<1>2. Spec => []OrderInv /\ []TableInv /\ []StampInv /\ [](CacheBehind /\ CacheOurs)
  BY OrderHolds, TableHolds, StampsHold, CacheHolds
<1> QED BY <1>1, <1>2, PTL

\* flush_prices and the warm-up: a process that runs its loop serves no cached price
\* of the other source, if it is switched between ticks and every upsert succeeded.
THEOREM CacheOfOneSource ==
  ASSUME {"raise", "table", "crash"} \cap Faults = {}
  PROVE  Spec => []CacheProvenance
<1>1. CacheBehind /\ CacheOurs => CacheProvenance
  BY DEF CacheOurs, Ours, CacheProvenance
<1>2. Spec => [](CacheBehind /\ CacheOurs)
  BY CacheHolds
<1> QED BY <1>1, <1>2, PTL
=============================================================================
