---------------------------- MODULE ExitPolicies ----------------------------
(***************************************************************************)
(* The exit policies (src/signal/exits) and ExitPipeline                     *)
(* (src/signal/exit-pipeline.ts).                                            *)
(*                                                                         *)
(* A policy is the condition under which it wants the position p closed, in   *)
(* the context c.  Prices are in cents, time is in seconds.                  *)
(***************************************************************************)
EXTENDS DetectorContext, PositionBook

TakeProfit(p, c, pct) ==
  /\ bestBid(c, p.side) # None /\ p.entry * p.size # 0
  /\ 100 * pnlTotal(p, bestBid(c, p.side)) >= pct * p.entry * p.size
StopLoss(p, c, pct) ==
  /\ bestBid(c, p.side) # None /\ p.entry * p.size # 0
  /\ 100 * pnlTotal(p, bestBid(c, p.side)) <= -pct * p.entry * p.size

\* The drawdown from the mark is at least pct; it counts as zero above the mark.
Drawdown(mark, price, pct) == mark # 0 /\ 100 * Larger(mark - price, 0) >= pct * mark
TrailingStop(p, c, pct) == bestBid(c, p.side) # None /\ Drawdown(p.mark, bestBid(c, p.side), pct)

TimeExit(c, secs) == c.remaining <= secs
NearExpiry(c, secs) == c.remaining <= secs
MaxHoldTime(p, c, secs) == c.now - p.since > secs
Emergency(p, c, secs, hold, cents) ==
  \/ c.remaining <= secs
  \/ c.now - p.since >= hold
  \/ spread(c, p.side) # None /\ spread(c, p.side) > cents
GammaRisk(c, secs) ==
  /\ c.remaining < secs
  /\ spot2(c, "yes") = None \/ spot2(c, "yes") \in 60..140   \* 0.3 to 0.7
EdgeReversal(p, c, cents) ==
  /\ c.oracle # None
  /\ IF p.side = "yes" THEN c.oracle < p.entry - cents
                       ELSE c.oracle > (100 - p.entry) + cents

\* ProfitLockerExit has a state of its own, which its owner updates.
NoLocker == [pnl |-> 0, mark |-> 0]
updatePnl(locker, pnl) == [pnl |-> pnl, mark |-> Larger(locker.mark, pnl)]
ProfitLocker(locker, pct) ==
  locker.mark > 0 /\ 100 * (locker.mark - locker.pnl) >= pct * locker.mark

-----------------------------------------------------------------------------
(* The presets.                                                             *)

standardExits(p, c) ==
  TakeProfit(p, c, 10) \/ StopLoss(p, c, 5) \/ TrailingStop(p, c, 10) \/ TimeExit(c, 300)
conservativeExits(p, c) ==
  TakeProfit(p, c, 5) \/ StopLoss(p, c, 3) \/ TrailingStop(p, c, 5) \/ TimeExit(c, 600)
    \/ NearExpiry(c, 120)
aggressiveExits(p, c) == TakeProfit(p, c, 20) \/ StopLoss(p, c, 10) \/ TrailingStop(p, c, 20)
minimalExits(p, c) == StopLoss(p, c, 10) \/ TimeExit(c, 120)
=============================================================================
