----------------------------- MODULE RiskGuards -----------------------------
(***************************************************************************)
(* The entry guards (src/risk/guards), their combinators and the pipeline    *)
(* (src/risk/guard-pipeline.ts).                                             *)
(*                                                                         *)
(* A guard is the condition under which it blocks, over a context c          *)
(* (GuardContext in src/risk/types.ts) and, for five of them, a state of its  *)
(* own.  Prices and amounts are whole cents, percentages whole numbers, and   *)
(* quotients are compared by cross-multiplication.  Reasons, values and the   *)
(* recoverable flag of a verdict are left out.                               *)
(***************************************************************************)
EXTENDS DetectorContext

CONSTANTS
  Markets, Bridged,   \* the markets, and those named after the bridged USDC
  Pipeline,           \* names of the guards, in the order they were added
  OrOf, NotOf,        \* the guards inside OrGuard, the guard inside NotGuard
  MaxDailyLoss, MaxLosses, BreakerCooldown,  \* CircuitBreakerGuard
  SoftPct, HardPct,                          \* KillSwitchGuard
  MaxPerWindow, Window, MaxPerMarket,        \* RateLimitGuard, PerMarketLimitGuard
  MinBalance, MinEdgePct, MaxVpin, MaxP95, MaxP99

ASSUME GuardAssumption ==
  /\ Pipeline \in Seq(STRING)
  /\ {MaxDailyLoss, MaxLosses, BreakerCooldown, MaxPerWindow, Window} \subseteq Nat

VARIABLES
  trippedAt,   \* trippedAtMs of the breaker, None unless it is tripped
  killSwitch,  \* "off", or the mode in which it is engaged
  stamps,      \* timestamps of RateLimitGuard
  counts,      \* marketCounts of PerMarketLimitGuard
  toxic        \* toxicMarkets of ToxicityGuard

guardVars == <<trippedAt, killSwitch, stamps, counts, toxic>>

GuardsInit ==
  /\ trippedAt = None
  /\ killSwitch = "off"
  /\ stamps = <<>>
  /\ counts = [m \in Markets |-> 0]
  /\ toxic = {}

-----------------------------------------------------------------------------
(* Guards without a state.                                                  *)

MaxSpread(c, pct) == spreadPctAbove(c, "yes", pct)
MaxPositions(c, max) == openCount(c) >= max
Cooldown(c, secs) == c.lastTrade # None /\ c.now - c.lastTrade < secs
BookStaleness(c, secs) == c.bookAge # None /\ c.bookAge > secs
Exposure(c, pct) ==
  IF c.balance = 0 THEN totalNotional(c) > 0
                   ELSE c.balance > 0 /\ 100 * totalNotional(c) >= pct * c.balance
MinEdge(c) ==
  LET ask == bestAsk(c, "yes")
  IN c.oracle # None /\ ask # None /\ 100 * (c.oracle - ask) < MinEdgePct * ask
Balance(c) == c.balance < MinBalance
FlowRegime(c) == c.vpin = None \/ c.vpin > MaxVpin
LatencySla(c) == c.p95 > MaxP95 \/ c.p99 > MaxP99
DuplicateOrder(c) == c.market \in c.pending
UsdcRejection(c) == c.market \in Bridged

\* The day's loss as a share of the balance.  Only a positive balance has one:
\* with a zero balance the guards allow, and a negative one makes it negative.
LossReaches(c, pct) == c.pnl < 0 /\ c.balance > 0 /\ 100 * (-c.pnl) >= pct * c.balance
PortfolioRisk(c, pct) == LossReaches(c, pct)

\* The thresholds are those the guard has by default.
Stats(c) ==
  \/ c.drawdownPct > 20
  \/ c.streak > 5
  \/ c.trades >= 20 /\ c.winPct < 40

-----------------------------------------------------------------------------
(* Guards with a state: the verdict, and what check() leaves behind.         *)

Cooling(c) == trippedAt # None /\ c.now - trippedAt < BreakerCooldown
LossLimit(c) == (c.pnl < 0 /\ -c.pnl >= MaxDailyLoss) \/ c.losses >= MaxLosses
\* Mutant: after the cooldown the breaker allows once without looking at the loss.
breakerAllowsOnce(c) == IF trippedAt # None THEN Cooling(c) ELSE LossLimit(c)
\* The breaker keeps its limit on the drawdown in percent, too, and never reads it.
CircuitBreaker(c) == Cooling(c) \/ LossLimit(c)
tripsAt(c) == IF Cooling(c) THEN trippedAt ELSE IF LossLimit(c) THEN c.now ELSE None

KillSwitch(c) == killSwitch # "off" \/ LossReaches(c, HardPct) \/ LossReaches(c, SoftPct)
engages(c) ==
  IF killSwitch # "off" THEN killSwitch
  ELSE IF LossReaches(c, HardPct) THEN "full"
  ELSE IF LossReaches(c, SoftPct) THEN "exits_only" ELSE "off"

\* The stamps from the first that is in the window: older ones are shifted out.
Recent(c) ==
  LET fresh == {i \in DOMAIN stamps : stamps[i] >= c.now - Window}
  IN IF fresh = {} THEN <<>> ELSE SubSeq(stamps, Min(fresh), Len(stamps))
RateLimit(c) == Len(Recent(c)) >= MaxPerWindow

PerMarketLimit(c) == counts[c.market] >= MaxPerMarket
Toxicity(c) == c.market \in toxic

-----------------------------------------------------------------------------
(* Combinators and pipeline.                                                *)

\* OrGuard blocks when all its guards do, and when it has none.
OrGuard(blocks, guards) == \A i \in DOMAIN guards : blocks[guards[i]]
NotGuard(blocks, guard) == ~blocks[guard]
ConditionalGuard(applies, blocked) == applies /\ blocked

Plain(c) ==
  [ MaxSpread |-> MaxSpread(c, 5), MaxPositions |-> MaxPositions(c, 5),
    Cooldown |-> Cooldown(c, 60), BookStaleness |-> BookStaleness(c, 30),
    Exposure |-> Exposure(c, 50), MinEdge |-> MinEdge(c), Balance |-> Balance(c),
    FlowRegime |-> FlowRegime(c), LatencySla |-> LatencySla(c),
    DuplicateOrder |-> DuplicateOrder(c), UsdcRejection |-> UsdcRejection(c),
    PortfolioRisk |-> PortfolioRisk(c, HardPct), Stats |-> Stats(c) ]

\* Which guards block, by name.
Verdicts(c) ==
  LET plain == Plain(c)
  IN Joined(plain, [ CircuitBreaker |-> CircuitBreaker(c), KillSwitch |-> KillSwitch(c),
                     RateLimit |-> RateLimit(c), PerMarketLimit |-> PerMarketLimit(c),
                     Toxicity |-> Toxicity(c), Or |-> OrGuard(plain, OrOf),
                     Not |-> NotGuard(plain, NotOf),
                     Conditional |-> ConditionalGuard(openCount(c) > 0, plain.MinEdge) ])

\* The guards evaluate() asks: all up to the first that blocks.
evaluate(blocks) == \A i \in DOMAIN Pipeline : ~blocks[Pipeline[i]]
Asked(blocks) ==
  LET blocking == {i \in DOMAIN Pipeline : blocks[Pipeline[i]]}
      last == IF blocking = {} THEN Len(Pipeline) ELSE Min(blocking)
  IN {Pipeline[i] : i \in 1..last}

\* evaluate(), and recordOrder() of the two guards that count orders if the
\* caller has one to record: what changes in the guards that were asked.
asks(c, blocks, order) ==
  LET asked == Asked(blocks)
      kept == IF "RateLimit" \in asked THEN Recent(c) ELSE stamps
  IN /\ trippedAt' = IF "CircuitBreaker" \in asked THEN tripsAt(c) ELSE trippedAt
     /\ killSwitch' = IF "KillSwitch" \in asked THEN engages(c) ELSE killSwitch
     /\ stamps' = IF order THEN Append(kept, c.now) ELSE kept
     /\ counts' = IF order THEN [counts EXCEPT ![c.market] = @ + 1] ELSE counts
     /\ UNCHANGED toxic

-----------------------------------------------------------------------------
(* The presets, without their order, which only decides the guard reported.  *)

\* Mutant: the conservative preset accepts an older book.
conservativeOldBook(c) ==
  ~(MaxSpread(c, 3) \/ MaxPositions(c, 3) \/ Exposure(c, 25) \/ Cooldown(c, 300)
      \/ BookStaleness(c, 45))
standard(c) ==
  ~(MaxSpread(c, 5) \/ MaxPositions(c, 5) \/ Cooldown(c, 60) \/ BookStaleness(c, 30))
conservative(c) ==
  ~(MaxSpread(c, 3) \/ MaxPositions(c, 3) \/ Exposure(c, 25) \/ Cooldown(c, 300)
      \/ BookStaleness(c, 15))
aggressive(c) == ~(MaxSpread(c, 10) \/ MaxPositions(c, 10))
minimal(c) == ~MaxSpread(c, 10)

-----------------------------------------------------------------------------
(* Operations of the operator.                                              *)

engage ==
  /\ killSwitch' = "full"
  /\ UNCHANGED <<trippedAt, stamps, counts, toxic>>
engageExitsOnly ==
  /\ killSwitch' = "exits_only"
  /\ UNCHANGED <<trippedAt, stamps, counts, toxic>>
disengage ==
  /\ killSwitch' = "off"
  /\ UNCHANGED <<trippedAt, stamps, counts, toxic>>
reset ==
  /\ trippedAt' = None
  /\ UNCHANGED <<killSwitch, stamps, counts, toxic>>
resetMarket(m) ==
  /\ counts' = [counts EXCEPT ![m] = 0]
  /\ UNCHANGED <<trippedAt, killSwitch, stamps, toxic>>
markToxic(m) ==
  /\ toxic' = toxic \cup {m}
  /\ UNCHANGED <<trippedAt, killSwitch, stamps, counts>>
unmarkToxic(m) ==
  /\ toxic' = toxic \ {m}
  /\ UNCHANGED <<trippedAt, killSwitch, stamps, counts>>
=============================================================================
