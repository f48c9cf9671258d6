----------------------------- MODULE Opportunity -----------------------------
(***************************************************************************)
(* Arbitrage between the two outcome tokens of a market                      *)
(* (src/market/effective-prices.ts, src/market/arbitrage.ts).  A quote holds  *)
(* the best prices of both books; a share of one token and one of the other   *)
(* are worth One together, so buying one is as good as selling the other.    *)
(* Prices are whole numbers out of One, the fee a number of parts of         *)
(* FeeUnit, and profits count in parts of a price unit.  Every price is one a *)
(* market can have, from 0 to One: there a mirrored price is in range too,    *)
(* and clampMirror only ever returns what it is given.                       *)
(***************************************************************************)
EXTENDS Integers

CONSTANTS One,     \* the price of a certain outcome
          FeeUnit, \* a fee rate of 1
          NoPrice  \* null of a price

ASSUME PriceAssumption == One \in Nat /\ FeeUnit \in Nat /\ NoPrice \notin Int

Prices == (0..One) \cup {NoPrice}
Quote == [yesBid : Prices, yesAsk : Prices, noBid : Prices, noAsk : Prices]

Lower(a, b) == IF a < b THEN a ELSE b
Higher(a, b) == IF a > b THEN a ELSE b

clampMirror(value) == Higher(0, Lower(One, value))

\* The price of the mirrored trade on the other token.
Mirror(price) == IF price = NoPrice THEN NoPrice ELSE clampMirror(One - price)

\* The better of the direct and the mirrored trade, whichever there is.
BestBuy(direct, mirror) ==
  IF direct = NoPrice THEN mirror
  ELSE IF mirror = NoPrice THEN direct ELSE Lower(direct, mirror)
BestSale(direct, mirror) ==
  IF direct = NoPrice THEN mirror
  ELSE IF mirror = NoPrice THEN direct ELSE Higher(direct, mirror)

\* Mutant: buying No takes the higher of the two prices, as selling does.
buysAtHigher(q) ==
  [buyYes  |-> BestBuy(q.yesAsk, Mirror(q.noBid)),
   buyNo   |-> BestSale(q.noAsk, Mirror(q.yesBid)),
   sellYes |-> BestSale(q.yesBid, Mirror(q.noAsk)),
   sellNo  |-> BestSale(q.noBid, Mirror(q.yesAsk))]

getEffectivePrices(q) ==
  [buyYes  |-> BestBuy(q.yesAsk, Mirror(q.noBid)),
   buyNo   |-> BestBuy(q.noAsk, Mirror(q.yesBid)),
   sellYes |-> BestSale(q.yesBid, Mirror(q.noAsk)),
   sellNo  |-> BestSale(q.noBid, Mirror(q.yesAsk))]

NoOpportunity == [type |-> "none", net |-> 0, yes |-> NoPrice, no |-> NoPrice]

\* What a pair of trades leaves of a gross profit, in parts, when total changes hands.
NetOf(gross, total, feeRate) == gross * FeeUnit - feeRate * total

\* The profitable pair of trades, long before short: both legs have the type's direction.
checkArbitrage(q, feeRate) ==
  LET p == getEffectivePrices(q)
      long  == NetOf(One - (p.buyYes + p.buyNo), p.buyYes + p.buyNo, feeRate)
      short == NetOf((p.sellYes + p.sellNo) - One, p.sellYes + p.sellNo, feeRate)
  IN  IF /\ p.buyYes # NoPrice /\ p.buyNo # NoPrice
         /\ p.buyYes + p.buyNo < One /\ long > 0
      THEN [type |-> "long", net |-> long, yes |-> p.buyYes, no |-> p.buyNo]
      ELSE IF /\ p.sellYes # NoPrice /\ p.sellNo # NoPrice
              /\ p.sellYes + p.sellNo > One /\ short > 0
      THEN [type |-> "short", net |-> short, yes |-> p.sellYes, no |-> p.sellNo]
      ELSE NoOpportunity

\* calcArbProfit for a size: what it costs and leaves, in parts; roiPct is their quotient.
calcArbProfit(yesPrice, noPrice, size, feeRate) ==
  LET cost == (yesPrice + noPrice) * size IN
  [valid |-> /\ yesPrice \in 0..One /\ noPrice \in 0..One /\ size >= 0 /\ feeRate >= 0,
   gross |-> (One - yesPrice - noPrice) * size * FeeUnit,
   totalCost |-> cost * FeeUnit, totalFees |-> feeRate * cost,
   net |-> (One - yesPrice - noPrice) * size * FeeUnit - feeRate * cost]

\* The size that the exposure and the balance allow, in parts of a share: as many of them make a
\* share as a unit costs, so that dividing the balance leaves no rest.  None when it is refused.
calcOptimalSize(opportunity, maxExposure, availableBalance) ==
  LET perUnit == opportunity.yes + opportunity.no IN
  IF maxExposure < 0 \/ availableBalance < 0 \/ perUnit = 0 THEN 0
  ELSE Lower(maxExposure * perUnit, availableBalance)
=============================================================================
