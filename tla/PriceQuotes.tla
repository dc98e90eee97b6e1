----------------------------- MODULE PriceQuotes -----------------------------
(***************************************************************************)
(* The quote of a ticker as both stores, the publications and the service  *)
(* carry it, and the two guards a write of one passes.  A quote is a       *)
(* record: the price, the stamp (effective_at) and the source.  Stamps are *)
(* naturals in the order of time; 0 is "never", so a missing row or key is *)
(* older than every quote.                                                 *)
(***************************************************************************)
EXTENDS Timestamps

CONSTANTS Tickers,   \* the securities priced
          Prices,    \* the prices a ticker can have
          None,      \* "no price"
          MaxStamp   \* bound of the model: how many stamps the clock hands out

ASSUME NoneAssumption == None \notin Prices
ASSUME MaxStampAssumption == MaxStamp \in Nat

SourceNames == {"api", "simulated"}

Quotes == [price : Prices, at : 1..MaxStamp, source : SourceNames]
NoQuote == [price |-> None, at |-> 0, source |-> "none"]
MaybeQuotes == Quotes \cup {NoQuote}

\* No row of any ticker: an empty store, or a call with nothing left to do.
Nothing == [t \in Tickers |-> NoQuote]

\* Seeded bug: only the other store is guarded.
CacheAcceptsAll(existing, new) == TRUE

\* The compare-and-set script of the cache, which sees stamps as text: only a
\* strictly older write is rejected, so an equal stamp rewrites the key and renews
\* its TTL.
CacheAccepts(existing, new) ==
  ~ (existing # NoQuote /\ After(ToIso(existing.at), ToIso(new.at)))

\* Seeded bug: the upsert has lost its WHERE.
TableAcceptsAll(existing, new) == TRUE

\* The WHERE of the upsert: only a strictly newer row replaces a row.
TableAccepts(existing, new) == new.at > existing.at
=============================================================================
