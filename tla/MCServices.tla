----------------------------- MODULE MCServices -----------------------------
(***************************************************************************)
(* Four services that share nothing, each explored on its own: a behaviour    *)
(* has one of them in focus and the others at rest.                          *)
(***************************************************************************)
EXTENDS ArbitrageExecutor, Cache, MarketFeed, EventDispatcher

VARIABLE focus

Services == {"arbitrage", "cache", "feed", "events"}

MCQuote(yesBid, yesAsk, noBid, noAsk) ==
  [yesBid |-> yesBid, yesAsk |-> yesAsk, noBid |-> noBid, noAsk |-> noAsk]

\* A long opportunity of both asks, one of a mirrored bid that costs nothing, and a third.
MCQuotes == {MCQuote(3, 4, 3, 5), MCQuote(10, NoPrice, 4, NoPrice), MCQuote(2, 6, NoPrice, 5)}

MCConfigs == [feeRate : {1}, safetyPct : {50}, minNetProfit : {1}, maxExposure : {4},
              availableBalance : {0, 20}]

Init == /\ focus \in Services
        /\ ArbInit /\ CacheInit /\ FeedInit /\ EventInit
        /\ focus # "arbitrage" => /\ ~onPaper /\ config.availableBalance = 0

Next == /\ \/ focus = "arbitrage" /\ ArbNext /\ UNCHANGED <<cacheVars, feedVars, eventVars>>
           \/ focus = "cache" /\ CacheNext /\ UNCHANGED <<arbVars, feedVars, eventVars>>
           \/ focus = "feed" /\ FeedNext /\ UNCHANGED <<arbVars, cacheVars, eventVars>>
           \/ focus = "events" /\ EventNext /\ UNCHANGED <<arbVars, cacheVars, feedVars>>
        /\ UNCHANGED focus

Spec == Init /\ [][Next]_<<focus, arbVars, cacheVars, feedVars, eventVars>>

-----------------------------------------------------------------------------
(* Properties.                                                             *)

\* The orders of the arbitrage at the exchange and on paper, with their types (ArbitrageExecutor).
LegsAccounted == ArbTypeOK /\ RollbackComplete /\ SweptOnce

\* In every book kept a larger order fills at no better price on average, and at none better than
\* the best level, in whatever order and number the updates came (effectivePrice, orderbook.ts:96).
CostsGrow ==
  \A book \in Range(books) \cup Range(multiBooks), less \in 1..3, more \in 2..4, side \in {"buy", "sell"} :
    CostGrows(book, less, more, side)

\* The books kept from the feed agree with the exchange's, and so do the costs of orders on them
\* with each other (MarketFeed, OrderBook); with the types of the feeds and the dispatcher.
BooksAgree == FeedTypeOK /\ EventTypeOK /\ BookAgrees /\ CostsGrow
=============================================================================
