------------------------------ MODULE Trading ------------------------------
(***************************************************************************)
(* What the tick loop (src/strategy/built-strategy.ts) does to money: prices  *)
(* move, exit policies close positions, entry guards admit new ones, the      *)
(* manager and the statistics keep the books.                                *)
(*                                                                         *)
(* The awaits of a tick are the subject of module Strategy; here a tick is    *)
(* one step.  Its context is made as it begins, so guards do not see what     *)
(* the exits of the same tick change.  The caller of tick() supplies the      *)
(* context: the day's result and the losses in a row are taken from the       *)
(* books, the balance is the deposit and the cash.  It also records each      *)
(* order with the guards that count orders, and tells the profit locker the   *)
(* result before each tick; nothing in src/ does either.                     *)
(***************************************************************************)
EXTENDS RiskGuards, ExitPolicies, Accounting

CONSTANTS Books,     \* best bids and asks a market may show, of both sides
          Readings,  \* the rest of a context: silence of the book, oracle, ages, latencies
          Exits,     \* names of the exit policies of the strategy
          BookAges,  \* ages of the book the presets are compared for
          Curated,   \* the markets the operator marks toxic or resets
          Proposed,  \* the sides of each market the detector may propose
          FeeModel, Deposit, Sizes, ReduceSizes, Expiry, Step, MaxTime, MaxEntries, MaxTrades,
          MaxCommands

ASSUME BoundsAssumption == MaxTime \in Nat /\ MaxEntries \in Nat /\ MaxTrades \in Nat
                             /\ MaxCommands \in Nat

\* What the exchange and the caller may show.
Quotation == [Sides -> [bid : Nat, ask : Nat]]
Reading ==
  [silent : BOOLEAN, oracle : Nat \cup {None}, bookAge : Nat \cup {None}, vpin : Nat \cup {None},
   p95 : Nat, p99 : Nat, pending : SUBSET Markets, drawdownPct : Nat, streak : Nat, trades : Nat,
   winPct : Nat]

ASSUME MarketAssumption ==
  /\ IsFiniteSet(Markets) /\ Curated \subseteq Markets /\ None \notin Int
  /\ Books \subseteq Quotation /\ Readings \subseteq Reading /\ BookAges \subseteq Nat
  /\ Proposed \in [Markets -> SUBSET Sides]

ASSUME ConfigurationAssumption ==
  /\ FeeModel \in [type : {"none"}] \cup [type : {"fixed_notional"}, bps : Nat]
                                     \cup [type : {"profit_based"}, pct : Nat]
  /\ Sizes \cup ReduceSizes \subseteq Nat \ {0}
  /\ {MaxClosed, Deposit, Expiry, Step} \subseteq Nat

VARIABLES
  now, books,  \* seconds, and the book of each market
  manager,     \* the position manager
  stats,       \* the statistics
  locker,      \* the state of ProfitLockerExit
  cash,        \* what was received less what was paid (history)
  unbooked,    \* what fills cost whose position was refused (history)
  trades,      \* [pnl, fee] of each position_closed event (history)
  entries,     \* [market, at] of each entry order (history)
  commands     \* commands of the operator so far

tradeVars == <<manager, stats, locker, cash, unbooked, trades, entries>>
vars == <<guardVars, tradeVars, now, books, commands>>

Init ==
  /\ GuardsInit
  /\ locker = NoLocker
  /\ now = 0
  /\ books \in [Markets -> Books]
  /\ manager = create
  /\ stats = NoStats
  /\ cash = 0
  /\ unbooked = 0
  /\ trades = <<>>
  /\ entries = <<>>
  /\ commands = 0

\* What the caller of tick() puts into the context.
LossStreak == Max({k \in 0..Len(trades) :
                     \A i \in (Len(trades) - k + 1)..Len(trades) : trades[i].pnl < 0})
LastEntry(m) == LET mine == {i \in DOMAIN entries : entries[i].market = m}
                IN IF mine = {} THEN None ELSE entries[Max(mine)].at
NoBook == LET none == [bid |-> None, ask |-> None] IN [yes |-> none, no |-> none]
Context(m, reading) ==
  Joined(reading,
         [market |-> m, now |-> now, book |-> IF reading.silent THEN NoBook ELSE books[m],
          positions |-> manager.positions, remaining |-> Expiry - now, balance |-> Deposit + cash,
          pnl |-> manager.accRealizedPnl, losses |-> LossStreak, lastTrade |-> LastEntry(m)])

-----------------------------------------------------------------------------
\* Whether the policy of this name wants p closed.
shouldExit(name, p, c) ==
  CASE name = "TakeProfit"   -> TakeProfit(p, c, 10)
    [] name = "StopLoss"     -> StopLoss(p, c, 5)
    [] name = "TrailingStop" -> TrailingStop(p, c, 10)
    [] name = "TimeExit"     -> TimeExit(c, 300)
    [] name = "NearExpiry"   -> NearExpiry(c, 120)
    [] name = "MaxHoldTime"  -> MaxHoldTime(p, c, 300)
    [] name = "Emergency"    -> Emergency(p, c, 120, 600, 10)
    [] name = "GammaRisk"    -> GammaRisk(c, 300)
    [] name = "EdgeReversal" -> EdgeReversal(p, c, 5)
    [] name = "ProfitLocker" -> ProfitLocker(updatePnl(locker, c.pnl), 20)

\* All open positions are judged in the one context of the tick.
Due(c) == {m \in Held(manager) : \E name \in Exits : shouldExit(name, manager.positions[m], c)}

\* The price of the sell intent: the spot of the context, or the entry price.
intentPrice(p, c) == IF spot2(c, "yes") = None THEN p.entry ELSE spot2(c, "yes") \div 2
\* Exits fill at their market's bid, or the exchange names no price.
exitPrice(m, c, priced) ==
  LET p == manager.positions[m]
  IN IF priced THEN books[m][p.side].bid ELSE intentPrice(p, c)

\* The books a tick keeps: the manager, the statistics, the trades, and the cash that these
\* know of, which is more than there is when fills were paid that no book took.
Accounts == [manager |-> manager, stats |-> stats, cash |-> cash + unbooked, trades |-> trades]

\* A position is sold at this price: the manager closes it, and its result goes to the statistics.
sell(a, m, price) ==
  LET p == a.manager.positions[m]
      pnl == pnlTotal(p, price)
      fee == computeFee(FeeModel, p.cost, pnl)
  IN [manager |-> close(a.manager, m, price),
      stats |-> handlePositionClosed(a.stats, pnl, fee),
      cash |-> a.cash + price * p.size,
      trades |-> Append(a.trades, [pnl |-> pnl, fee |-> fee])]

\* processExits(): the positions in order, a sequence, are sold; the exchange
\* refuses the others that are due.
exitsOf(order, c, priced) ==
  FoldLeft(LAMBDA a, m : sell(a, m, exitPrice(m, c, priced)), Accounts, order)

\* processEntry(): nothing, or a filled order for the side at its ask.
NoEntry == [side |-> "yes", size |-> 0]
Orders(c, blocks) ==
  IF ~evaluate(blocks) \/ Len(entries) = MaxEntries THEN {NoEntry}
  ELSE {NoEntry} \cup {e \in [side : Proposed[c.market], size : Sizes] : bestAsk(c, e.side) # None}

\* The fill is paid and its position opened after the exits of the tick, unless the market
\* still has one: then the manager refuses the position, and the fill is in no book.
settle(after, m, e, ask) ==
  LET paid == ask * e.size
      refused == m \in Held(after.manager)
  IN /\ manager' = open(after.manager, m, e.side, ask, e.size, now)
     /\ unbooked' = IF refused THEN unbooked + paid ELSE unbooked
     /\ cash' = after.cash - unbooked - paid
     /\ stats' = after.stats /\ trades' = after.trades

settleExits(after) ==
  /\ manager' = after.manager /\ stats' = after.stats /\ trades' = after.trades
  /\ cash' = after.cash - unbooked
  /\ UNCHANGED unbooked

Tick(m, reading) ==
  LET c == Context(m, reading)
      blocks == Verdicts(c)
  IN \E sold \in SUBSET Due(c), priced \in BOOLEAN, e \in Orders(c, blocks) :
     \E order \in SetToSeqs(sold) :
       LET after == exitsOf(order, c, priced)
           enters == e # NoEntry
       IN /\ Len(trades) + Len(order) <= MaxTrades
          /\ asks(c, blocks, enters)
          /\ entries' = IF enters THEN Append(entries, [market |-> m, at |-> now]) ELSE entries
          /\ IF enters THEN settle(after, m, e, bestAsk(c, e.side)) ELSE settleExits(after)
          /\ locker' = updatePnl(locker, c.pnl)
          /\ UNCHANGED <<now, books, commands>>

\* The owner of the manager reduces a position at its market's bid.
Reduce(m, size) ==
  /\ commands < MaxCommands /\ commands' = commands + 1
  /\ m \in Held(manager)
  /\ LET p == manager.positions[m]
         price == books[m][p.side].bid
     IN /\ size <= p.size
        /\ manager' = reduce(manager, m, size, price)
        /\ cash' = cash + price * size
  /\ UNCHANGED <<guardVars, locker, stats, unbooked, trades, entries, now, books>>

Pass ==
  /\ now + Step <= MaxTime
  /\ now' = now + Step
  /\ UNCHANGED <<guardVars, tradeVars, books, commands>>

Quote(m) ==
  /\ \E b \in Books \ {books[m]} : books' = [books EXCEPT ![m] = b]
  /\ UNCHANGED <<guardVars, tradeVars, now, commands>>

Operator ==
  /\ commands < MaxCommands /\ commands' = commands + 1
  /\ \/ engage \/ engageExitsOnly \/ disengage \/ reset
     \/ \E m \in Curated : resetMarket(m) \/ markToxic(m) \/ unmarkToxic(m)
  /\ UNCHANGED <<tradeVars, now, books>>

Next ==
  \/ \E m \in Markets, reading \in Readings : Tick(m, reading)
  \/ \E m \in Markets, size \in ReduceSizes : Reduce(m, size)
  \/ Pass
  \/ \E m \in Markets : Quote(m)
  \/ Operator

Spec == Init /\ [][Next]_vars

-----------------------------------------------------------------------------
Position ==
  [side : Sides, entry : Nat, size : Nat \ {0}, cost : Nat, realized : Int, mark : Nat, since : Nat,
   fillTracker : [cost : Nat, size : Nat \ {0}, fills : Nat]]
\* The books while the markets with a position are those in M.
Manager(M) ==
  [positions : [M -> Position], closed : Seq([market : Markets, size : Nat, pnl : Int]),
   accRealizedPnl : Int]
Statistics ==
  [trades : Nat, wins : Nat, losses : Nat, pnl : Int, fees : Nat, peak : Nat, drawdown : Nat,
   best : Int, worst : Int]
Account(M) ==
  [manager : Manager(M), stats : Statistics, cash : Int, trades : Seq([pnl : Int, fee : Nat])]

TradingTypeOK ==
  /\ trippedAt \in Nat \cup {None} /\ killSwitch \in {"off", "exits_only", "full"}
  /\ stamps \in Seq(Nat) /\ counts \in [Markets -> Nat] /\ toxic \subseteq Markets
  /\ \E M \in SUBSET Markets : Accounts \in Account(M)
  /\ now \in Nat /\ books \in [Markets -> Books] /\ locker \in [pnl : Int, mark : Nat]
  /\ entries \in Seq([market : Markets, at : Nat]) /\ commands \in Nat
  /\ cash \in Int /\ unbooked \in Nat

\* The books agree with the money they know of: what was realized is the cash received
\* less the cost of what is still held, whatever was reduced or closed; each
\* position's own result and cost belong to its remaining size; and the recent
\* history is the end of the list of trades.  (close and reduce in
\* position-manager.ts, tryReduce in sdk-position.ts.)
BooksBalance(a) ==
  /\ a.manager.accRealizedPnl = a.cash + notionals(a.manager.positions)
  /\ \A m \in Held(a.manager) : LET p == a.manager.positions[m] IN
       /\ p.size > 0 /\ p.cost = p.entry * p.size
       /\ p.fillTracker.cost * p.size = p.cost * p.fillTracker.size
  /\ Len(a.manager.closed) = Smaller(MaxClosed, Len(a.trades))
  /\ \A i \in DOMAIN a.manager.closed :
       a.manager.closed[i].pnl = a.trades[Len(a.trades) - Len(a.manager.closed) + i].pnl

\* The statistics agree with the trades they were told of, one at a time: the
\* drawdown is the deepest fall of the equity, net of fees, from any earlier
\* level or from zero.  (handlePositionClosed in stats.ts, computeFee.)
Equity(list, n) == FoldLeft(LAMBDA x, t : x + Unit * t.pnl - t.fee, 0, SubSeq(list, 1, n))
StatsMatchTrades(a) ==
  LET n == Len(a.trades)
      pnls == {a.trades[i].pnl : i \in 1..n}
      falls == {Equity(a.trades, p[1]) - Equity(a.trades, p[2]) :
                  p \in {q \in (0..n) \X (0..n) : q[1] <= q[2]}}
  IN /\ a.stats.trades = n
     /\ Unit * a.stats.pnl - a.stats.fees = Equity(a.trades, n)
     /\ a.stats.drawdown = Max(falls)
     /\ n > 0 => a.stats.best = Max(pnls) /\ a.stats.worst = Min(pnls)
     /\ a.stats.wins = Cardinality({i \in 1..n : a.trades[i].pnl > 0})

\* The ledger: money, positions, history and statistics tell the same story, but for what
\* was paid for fills whose position was refused (built-strategy.ts:410), which nothing but
\* an error event records: the realized result is the cash, and those costs, less what is held.
LedgerAgrees == TradingTypeOK /\ BooksBalance(Accounts) /\ StatsMatchTrades(Accounts)

\* An order for an entry leaves only if, when its tick began, the day's loss and
\* the losses in a row were below the breaker's limits, whatever cooldowns passed
\* or resets were made; the breaker was not cooling down; the kill switch was not
\* engaged; and fewer orders than the limit had left within the window.
\* (CircuitBreakerGuard, KillSwitchGuard and RateLimitGuard behind the pipeline.)
EntriesWithinLimits ==
  [][entries' # entries =>
       /\ manager.accRealizedPnl > -MaxDailyLoss /\ LossStreak < MaxLosses
       /\ trippedAt # None => now - trippedAt >= BreakerCooldown
       /\ killSwitch = "off" /\ killSwitch' = "off"
       /\ Cardinality({i \in DOMAIN entries : entries[i].at >= now - Window}) < MaxPerWindow
    ]_vars

\* A stricter preset admits no entry and keeps no position that a looser one
\* would not.  (guard-pipeline.ts:83 calls the conservative preset "stricter
\* limits" and the aggressive one "relaxed"; exit-pipeline.ts.)
PresetsOrdered ==
  \A m \in Markets, reading \in Readings, age \in BookAges :
    LET c == Context(m, [reading EXCEPT !.bookAge = age])
    IN /\ conservative(c) => standard(c)
       /\ standard(c) => aggressive(c)
       /\ aggressive(c) => minimal(c)
       /\ \A n \in Held(manager) : LET p == manager.positions[n] IN
            /\ standardExits(p, c) => conservativeExits(p, c)
            /\ aggressiveExits(p, c) \/ minimalExits(p, c) => standardExits(p, c)

\* With no tolerance, reconciliation finds nothing exactly when the exchange
\* reports the same holdings, each side of a market apart, and counts towards a
\* halt every holding only one of the two knows.  (reconciliation.ts.)
Reported == UNION {[S -> Sizes \cup ReduceSizes] : S \in SUBSET (Markets \X Sides)}
ReconcileFindsAll ==
  \A f \in Reported :
    LET exchange == {[market |-> k[1], side |-> k[2], size |-> f[k]] : k \in DOMAIN f}
        found == reconcile(Own(manager), exchange)
        known(S) == {<<e.market, e.side>> : e \in S}
        alone == (known(Own(manager)) \ DOMAIN f) \cup (DOMAIN f \ known(Own(manager)))
    IN /\ (found.orphans \cup found.unknown \cup found.mismatched = {}) <=> (Own(manager) = exchange)
       /\ found.shouldHalt <=> Cardinality(alone) > HaltThreshold
=============================================================================
