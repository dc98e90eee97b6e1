--------------------------- MODULE GuardedStores ---------------------------
(***************************************************************************)
(* What the two stores of current prices promise their readers, whoever    *)
(* writes to them and in whatever order the writes arrive: the durable     *)
(* table latest_prices only moves to a strictly newer quote, the cache     *)
(* never moves to an older one, and a quote leaves a store only by the     *)
(* removals the code has (a row of the simulated source wiped, a key       *)
(* flushed, expired or lost with Redis).  Nothing is said of how a quote   *)
(* is produced.                                                            *)
(***************************************************************************)
EXTENDS PriceQuotes

VARIABLES table,     \* latest_prices: ticker -> quote
          cache      \* Redis price:<ticker>: ticker -> quote

vars == <<table, cache>>

Init == table = Nothing /\ cache = Nothing

\* Rows of the table are replaced, each by a strictly newer quote.
TableMoves == /\ \A t \in Tickers :
                    \/ table'[t] = table[t]
                    \/ table'[t] \in Quotes /\ table'[t].at > table[t].at
              /\ UNCHANGED cache

\* One cached price is replaced by one that is not older.
CacheMoves == /\ \E t \in Tickers :
                    /\ cache'[t] \in Quotes /\ cache'[t].at >= cache[t].at
                    /\ cache' = [cache EXCEPT ![t] = cache'[t]]
              /\ UNCHANGED table

\* Rows of the simulated source are wiped; no other row ever is.
RowsWiped == /\ \A t \in Tickers :
                   \/ table'[t] = table[t]
                   \/ table'[t] = NoQuote /\ table[t].source = "simulated"
             /\ UNCHANGED cache

\* Rows of the api source are adopted by the simulator: price and stamp stay.
RowsAdopted == /\ \A t \in Tickers :
                     \/ table'[t] = table[t]
                     \/ /\ table[t].source = "api"
                        /\ table'[t] = [table[t] EXCEPT !.source = "simulated"]
               /\ UNCHANGED cache

\* Cached prices disappear: flushed, expired, or lost with Redis.
CacheForgets == /\ \A t \in Tickers : cache'[t] \in {cache[t], NoQuote}
                /\ UNCHANGED table

Next == TableMoves \/ CacheMoves \/ RowsWiped \/ RowsAdopted \/ CacheForgets

Spec == Init /\ [][Next]_vars
=============================================================================
