----------------------------- MODULE Accounting -----------------------------
(***************************************************************************)
(* The fee models (src/accounting/fee-model.ts) and the statistics a          *)
(* strategy keeps from its position_closed events (src/strategy/stats.ts).    *)
(* Amounts are whole cents; fees, and equity net of them, are counted in      *)
(* ten-thousandths of a cent to stay whole.                                  *)
(***************************************************************************)
EXTENDS Integers

Unit == 10000

computeFee(model, notional, pnl) ==
  CASE model.type = "none"           -> 0
    [] model.type = "fixed_notional" -> (IF notional < 0 THEN -notional ELSE notional) * model.bps
    [] model.type = "profit_based"   -> IF pnl <= 0 THEN 0 ELSE pnl * model.pct * 100

NoStats ==
  [trades |-> 0, wins |-> 0, losses |-> 0, pnl |-> 0, fees |-> 0, peak |-> 0, drawdown |-> 0,
   best |-> 0, worst |-> 0]

\* Mutant: the peak is that of the equity before fees.
handlePositionClosedGross(s, pnl, fee) ==
  LET equity == Unit * (s.pnl + pnl) - (s.fees + fee)
  IN [trades |-> s.trades + 1,
      wins |-> s.wins + (IF pnl > 0 THEN 1 ELSE 0),
      losses |-> s.losses + (IF pnl < 0 THEN 1 ELSE 0),
      pnl |-> s.pnl + pnl,
      fees |-> s.fees + fee,
      peak |-> IF Unit * (s.pnl + pnl) > s.peak THEN Unit * (s.pnl + pnl) ELSE s.peak,
      drawdown |-> IF s.peak - equity > s.drawdown THEN s.peak - equity ELSE s.drawdown,
      best |-> IF s.trades = 0 \/ pnl > s.best THEN pnl ELSE s.best,
      worst |-> IF s.trades = 0 \/ pnl < s.worst THEN pnl ELSE s.worst]

handlePositionClosed(s, pnl, fee) ==
  LET equity == Unit * (s.pnl + pnl) - (s.fees + fee)
  IN [trades |-> s.trades + 1,
      wins |-> s.wins + (IF pnl > 0 THEN 1 ELSE 0),
      losses |-> s.losses + (IF pnl < 0 THEN 1 ELSE 0),
      pnl |-> s.pnl + pnl,
      fees |-> s.fees + fee,
      peak |-> IF equity > s.peak THEN equity ELSE s.peak,
      drawdown |-> IF s.peak - equity > s.drawdown THEN s.peak - equity ELSE s.drawdown,
      best |-> IF s.trades = 0 \/ pnl > s.best THEN pnl ELSE s.best,
      worst |-> IF s.trades = 0 \/ pnl < s.worst THEN pnl ELSE s.worst]
=============================================================================
