----------------------------- MODULE Rebalancer -----------------------------
(***************************************************************************)
(* Rebalancing a portfolio (src/market/rebalancer.ts): balances is a sequence  *)
(* of the tokens' values beside the cash.  Ratios are percentages; values     *)
(* and amounts are compared over a common denominator, so nothing is rounded. *)
(***************************************************************************)
EXTENDS Integers, SequencesExt

\* create: the configurations it accepts.
ValidRebalancer(c) == c.targetPct \in 0..100 /\ c.tolerancePct >= 0 /\ c.minRebalance >= 0

totalPortfolioValue(balances, cash) == FoldLeft(+, cash, balances)

\* The denominator of a token's value, in which its target is (100 - targetPct) of the total.
Denominator(balances) == 100 * Len(balances)

Distance(c, balances, cash, value) ==
  LET d == (100 - c.targetPct) * totalPortfolioValue(balances, cash) - Denominator(balances) * value
  IN  IF d < 0 THEN -d ELSE d

\* Mutant: every token is given the whole share of the tokens.
rebalanceToWhole(c, balances, cash) ==
  LET total == totalPortfolioValue(balances, cash)
      off(value) == (100 - c.targetPct) * total - 100 * value
      size(value) == IF off(value) < 0 THEN -off(value) ELSE off(value)
  IN  [i \in {i \in DOMAIN balances :
               /\ total # 0
               /\ size(balances[i]) >= c.tolerancePct * total
               /\ size(balances[i]) >= 100 * c.minRebalance} |->
        [action |-> IF off(balances[i]) < 0 THEN "sell" ELSE "buy",
         amount |-> size(balances[i]) * Len(balances)]]

\* The tokens to trade, out of tolerance by enough, with amounts over the denominator.
calculateRebalance(c, balances, cash) ==
  LET total == totalPortfolioValue(balances, cash)
      n == Len(balances)
      distance(i) == Distance(c, balances, cash, balances[i])
  IN  [i \in {i \in DOMAIN balances :
               /\ total # 0
               /\ distance(i) >= c.tolerancePct * n * total
               /\ distance(i) >= Denominator(balances) * c.minRebalance} |->
        [action |-> IF Denominator(balances) * balances[i] > (100 - c.targetPct) * total
                    THEN "sell" ELSE "buy",
         amount |-> distance(i)]]

\* The cash as a percentage of the portfolio, over the total.
getPortfolioRatio(balances, cash) ==
  IF totalPortfolioValue(balances, cash) = 0 THEN 0
  ELSE (100 * cash) \div totalPortfolioValue(balances, cash)

-----------------------------------------------------------------------------
(* Properties.                                                             *)

Signed(a) == IF a.action = "buy" THEN a.amount ELSE -a.amount

\* Trading as planned leaves nothing to plan, and when every token over its target is sold the
\* cash keeps its own share.  A tolerance and a minimum of zero plan trades of nothing for ever.
RebalanceSettles(c, balances, cash) ==
  LET d == Denominator(balances)
      total == totalPortfolioValue(balances, cash)
      plan == calculateRebalance(c, balances, cash)
      traded == [i \in DOMAIN balances |->
                   d * balances[i] + (IF i \in DOMAIN plan THEN Signed(plan[i]) ELSE 0)]
      left == d * total - FoldLeft(+, 0, traded)
      isOver(i) == d * balances[i] > (100 - c.targetPct) * total
  IN  c.tolerancePct > 0 \/ c.minRebalance > 0 =>
        /\ calculateRebalance([c EXCEPT !.minRebalance = d * @], traded, left) = <<>>
        /\ (\A i \in DOMAIN balances : isOver(i) => i \in DOMAIN plan) =>
             100 * left >= c.targetPct * d * total
=============================================================================
