--------------------------- MODULE MCPriceService ---------------------------
(* PriceService on small sets of model values. *)
EXTENDS PriceService, TLC

CONSTANTS a, b, p, q

MCTickers == {a, b}
MCOneTicker == {a}
MCPrices == {p, q}

BothSources == {"api", "simulated"}
Vendor == {"api"}
Simulator == {"simulated"}

\* Tickers and prices are interchangeable: no action or safety property of the
\* specification tells two of them apart.
Symmetry == Permutations(MCTickers) \cup Permutations(MCPrices)
=============================================================================
