---------------------------- MODULE MCAlgorithms ----------------------------
(***************************************************************************)
(* The pure decisions of the bot asked about small inputs: an input is chosen *)
(* and forgotten, histories of candles and of trades grow step by step.       *)
(***************************************************************************)
EXTENDS Oscillators, Opportunity, Rebalancer, OrderDiffer, MarketScanner, QueueModel,
        KLineAggregator, FiniteSetsExt, SequencesExt

CONSTANTS MaxCandles,  \* candles of a history
          MaxTrades,   \* trades given to the aggregator
          Idle         \* no input

VARIABLES asked,       \* the input of the decisions
          candles,     \* what the indicators are computed from
          trades,      \* the trades so far
          klines       \* the aggregator's candles

algorithmVars == <<asked, candles, trades, klines>>

Candle(low, close, high, volume) ==
  [low |-> Q(low), close |-> Q(close), high |-> Q(high), volume |-> Q(volume)]

\* A flat candle, a rising one, one that gaps up and closes at its high, one that touches zero.
Shapes == {Candle(1, 1, 1, 1), Candle(1, 2, 3, 1), Candle(2, 4, 4, 2), Candle(0, 0, 1, 0)}
Periods == {1, 2}
Trades == [time : {0, 4, 5, 14, 15}, price : 1..2, size : {1, 2}]

Quotes == [kind : {"quote"}, quote : Quote, fee : {0, 5}]

Portfolios ==
  [kind : {"portfolio"},
   config : {c \in [targetPct : {0, 20, 50, 100}, tolerancePct : {0, 5, 25}, minRebalance : {0, 2}] :
               ValidRebalancer(c)},
   balances : UNION {[1..n -> {0, 1, 4, 10}] : n \in 1..3}, cash : {0, 3, 10}]

Wanted == [key : {"yes"}, price : {4, 5, 7}, size : {1, 4}] \cup [key : {"no"}, price : {5}, size : {1, 4}]
WantedLists == {<<>>} \cup {<<a>> : a \in Wanted} \cup {w \in Wanted \X Wanted : w[1] # w[2]}
Numbered(orders) == [i \in DOMAIN orders |->
  [id |-> i, key |-> orders[i].key, price |-> orders[i].price, size |-> orders[i].size]]
Diffs == [kind : {"orders"}, desired : WantedLists, live : {Numbered(w) : w \in WantedLists},
          config : [priceTolerance : {0, 1}, sizeTolerancePct : {0, 300}]]

MarketOf(id, volume, age) ==
  [id |-> id, volume |-> volume, depth |-> 1, spreadBps |-> 100, age |-> age]
Rotations ==
  [kind : {"markets"},
   markets : {[i \in 1..3 |-> MarketOf(i, v[i], a[i])] : v \in [1..3 -> {1, 2, 4}], a \in [1..3 -> {0, 2}]},
   count : 0..3, current : SUBSET (1..4), threshold : {0, 2000, 5000}]

Weights == [volume |-> 40, depth |-> 30, spread |-> 20, freshness |-> 10]

\* Books with prices twice their value, of a spread of one, of none and of three.
Oracles ==
  [kind : {"oracle"}, books : [1..2 -> {[bid |-> b, ask |-> 8] : b \in {2, 6, 8}}],
   oracle : [1..2 -> 4..9], market : 1..2, further : {1, 4}]

QueueConfig == [baseFillRate |-> Ratio(3, 10), adverseSelectionFactor |-> Q(2),
                sizePenalty |-> Ratio(1, 2), queueDecayRate |-> Ratio(1, 4)]
Resting ==
  {enqueue(Q(price), size, isBuy, at) :
     price \in {4, 5}, size \in {Ratio(1, 2), Q(1), Ratio(3, 2)}, isBuy \in BOOLEAN, at \in {0, 3}}
Queues == [kind : {"queue"}, a : Resting, b : Resting, bid : {Q(3), Q(5), Q(6)}, spread : {Q(0), Q(1)},
           now : {3, 5, 9}]

Init == /\ asked = Idle /\ candles = <<>> /\ trades = <<>>
        /\ klines = NewAggregator({1, 5, 15})

Ask == /\ asked = Idle /\ candles = <<>> /\ trades = <<>>
       /\ \/ asked' \in Quotes \/ asked' \in Portfolios \/ asked' \in Diffs
          \/ asked' \in Rotations \/ asked' \in Oracles \/ asked' \in Queues
       /\ UNCHANGED <<candles, trades, klines>>

AddCandle == /\ asked = Idle /\ trades = <<>> /\ Len(candles) < MaxCandles
             /\ \E c \in Shapes : candles' = Append(candles, c)
             /\ UNCHANGED <<asked, trades, klines>>

AddTrade == /\ asked = Idle /\ candles = <<>> /\ Len(trades) < MaxTrades
            /\ \E t \in Trades : /\ trades' = Append(trades, t)
                                 /\ klines' = addTrade(klines, t)
            /\ UNCHANGED <<asked, candles>>

Next == Ask \/ AddCandle \/ AddTrade
Spec == Init /\ [][Next]_algorithmVars

-----------------------------------------------------------------------------
(* Properties.                                                             *)

Is(kind) == asked # Idle /\ asked.kind = kind

\* checkArbitrage looks for a short pair only after a long one, and never finds it: prices of
\* the mirrored trades make the long pair at least as good (arbitrage.ts:43).
LongDominates ==
  Is("quote") => LET found == checkArbitrage(asked.quote, asked.fee) IN
    /\ found.type # "short"
    /\ found.type = "long" =>
         found.net = calcArbProfit(found.yes, found.no, 1, asked.fee).net

\* Carrying out a rebalancing leaves nothing to rebalance (rebalancer.ts:105).
RebalancesSettle == Is("portfolio") => RebalanceSettles(asked.config, asked.balances, asked.cash)

\* Carrying out the difference of two sets of orders leaves orders to keep (order-differ.ts:83).
DiffsSettle == Is("orders") => DiffSettles(asked.desired, asked.live, asked.config)

\* Rotating among the same scores again rotates nothing (market-scanner.ts:161).
RotationsSettle ==
  Is("markets") =>
    RotationSettles(scoreMarkets(asked.markets, Weights, 500), asked.count, asked.current, asked.threshold)

\* A market whose edge grows keeps its rank (scanner.ts:62).
EdgesRank ==
  Is("oracle") => EdgeRanks(<<1, 2>>, asked.books, asked.oracle, asked.market, asked.further)

\* An order with more merits is not less likely to fill (queue-model.ts:80).
QueuesFair ==
  Is("queue") => QueueIsFair(QueueConfig, asked.a, asked.b, asked.bid,
                             Plus(asked.bid, asked.spread), asked.now)

\* The decisions about orders and markets (order-differ.ts, market-scanner.ts, scanner.ts,
\* queue-model.ts): what was carried out stands, and more merit is worth no less.
ChoicesConsistent == DiffsSettle /\ RotationsSettle /\ EdgesRank /\ QueuesFair

\* The oscillators stay in the ranges their documentation gives.
OscillatorsInRange == \A p \in Periods : InRange(candles, p)

\* What two functions compute in two ways they compute alike; candles before the window change
\* nothing, later ones add to an accumulation whatever came before, and another unit of price
\* changes prices alone.
IndicatorsConsistent ==
  /\ Additive(candles)
  /\ \A p \in Periods : TwinsAgree(candles, p) /\ OnlyWindow(candles, p) /\ ScaleFree(candles, p)

\* Candles of all intervals tell the same, in whatever order the trades come.
OneStory == IntervalsAgree(klines, \A i \in 2..Len(trades) : trades[i - 1].time <= trades[i].time)
=============================================================================
