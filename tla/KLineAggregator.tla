--------------------------- MODULE KLineAggregator ---------------------------
(***************************************************************************)
(* Trades aggregated into candles of several intervals                       *)
(* (src/analytics/kline-aggregator.ts).  Intervals are lengths in minutes,    *)
(* each a divisor of the longer ones; a bucket is named by its start.         *)
(***************************************************************************)
EXTENDS Integers, SequencesExt

\* The constructor: an empty map of buckets for each interval.
NewAggregator(intervals) == [i \in intervals |-> <<>>]

\* Mutant: a bucket starts at the nearest multiple of its interval.
bucketNearest(time, interval) == ((time + interval \div 2) \div interval) * interval

bucketStart(time, interval) == (time \div interval) * interval

FirstOf(trade) ==
  [open |-> trade.price, high |-> trade.price, low |-> trade.price, close |-> trade.price,
   volume |-> trade.size]

\* A later call is the close, whatever its trade's time.
Extend(candle, trade) ==
  [candle EXCEPT !.high = Max({@, trade.price}), !.low = Min({@, trade.price}),
                 !.close = trade.price, !.volume = @ + trade.size]

addTrade(candles, trade) ==
  [i \in DOMAIN candles |->
     LET start == bucketStart(trade.time, i)  buckets == candles[i] IN
     IF start \in DOMAIN buckets THEN [buckets EXCEPT ![start] = Extend(@, trade)]
     ELSE [b \in DOMAIN buckets \cup {start} |->
             IF b = start THEN FirstOf(trade) ELSE buckets[b]]]

\* The latest candles, the oldest first; getCandles gives them the other way round.
getCandlesChronological(candles, interval, count) ==
  LET starts == SetToSortSeq(DOMAIN candles[interval], <)
      from == Max({1, Len(starts) - count + 1})
  IN  [i \in 1..(Len(starts) - from + 1) |-> candles[interval][starts[from + i - 1]]]

getCandles(candles, interval, count) ==
  Reverse(getCandlesChronological(candles, interval, count))

-----------------------------------------------------------------------------
(* Properties.                                                             *)

\* Intervals tell one story, in whatever order trades arrive: a long candle spans the short
\* ones in its bucket and holds their volume; when trades come in order it also opens with
\* their first and closes with their last.
IntervalsAgree(candles, inOrder) ==
  \A short, long \in DOMAIN candles : short < long =>
    \A start \in DOMAIN candles[long] :
      LET c == candles[long][start]
          parts == [b \in {b \in DOMAIN candles[short] : b \in start..(start + long - 1)} |->
                      candles[short][b]]
          times == DOMAIN parts
      IN  /\ times # {}
          /\ c.high = Max({parts[b].high : b \in times})
          /\ c.low = Min({parts[b].low : b \in times})
          /\ c.volume = FoldFunction(LAMBDA p, sum : p.volume + sum, 0, parts)
          /\ inOrder => c.open = parts[Min(times)].open /\ c.close = parts[Max(times)].close
=============================================================================
