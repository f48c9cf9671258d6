----------------------------- MODULE MCTrading -----------------------------
EXTENDS Trading

CONSTANTS m1, m2

\* Both sides' books complement each other; sums are even so that the spot is whole.
MCBook(bid, ask) == [yes |-> [bid |-> bid, ask |-> ask],
                     no |-> [bid |-> 100 - ask, ask |-> 100 - bid]]
MCBooks == {MCBook(40, 42), MCBook(50, 52)}

\* Everything within its limits, and readings with something out of them.
Quiet == [silent |-> FALSE, oracle |-> None, bookAge |-> 10, vpin |-> 10, p95 |-> 100, p99 |-> 100,
          pending |-> {}, drawdownPct |-> 0, streak |-> 0, trades |-> 0, winPct |-> 0]
MCReadings == {Quiet, [Quiet EXCEPT !.silent = TRUE],
               [Quiet EXCEPT !.bookAge = 40, !.oracle = 30]}

MCPipeline == <<"UsdcRejection", "Toxicity", "LatencySla", "FlowRegime", "CircuitBreaker",
                "KillSwitch", "RateLimit", "PerMarketLimit", "Or", "Not", "Conditional",
                "Cooldown", "Stats", "BookStaleness", "MaxPositions">>
MCOrOf == <<"MinEdge", "Exposure">>
MCProposed == [m \in Markets |-> {IF m = m1 THEN "yes" ELSE "no"}]
MCFeeModel == [type |-> "fixed_notional", bps |-> 10]
MCExits == {"TakeProfit", "StopLoss", "TrailingStop", "TimeExit", "EdgeReversal", "ProfitLocker",
            "GammaRisk"}
=============================================================================
