----------------------------- MODULE Indicators -----------------------------
(***************************************************************************)
(* Averages, bands and trends of a series of candles, oldest first            *)
(* (src/analytics: helpers, indicators, volatility-indicators and              *)
(* trend-indicators), in exact fractions.  An indicator is Null when there is  *)
(* not enough data.                                                         *)
(***************************************************************************)
EXTENDS Rational

CONSTANT Null

Window(seq, n) == SubSeq(seq, Len(seq) - n + 1, Len(seq))
Enough(seq, period, n) == period >= 1 /\ Len(seq) >= n

Closes(candles) == [i \in DOMAIN candles |-> candles[i].close]
Highs(candles) == [i \in DOMAIN candles |-> candles[i].high]
Lows(candles) == [i \in DOMAIN candles |-> candles[i].low]

trueRange(candle, prevClose) ==
  Larger(Minus(candle.high, candle.low),
         Larger(Abs(Minus(candle.high, prevClose)), Abs(Minus(candle.low, prevClose))))

TrueRanges(candles) ==
  [i \in 1..(Len(candles) - 1) |-> trueRange(candles[i + 1], candles[i].close)]

-----------------------------------------------------------------------------
(* Averages.                                                               *)

Mean(seq) == Over(SumOf(seq), Q(Len(seq)))

calcSMA(closes, period) ==
  IF ~Enough(closes, period, period) THEN Null ELSE Mean(Window(closes, period))

Multiplier(period) == Ratio(2, period + 1)

\* Seeded with the mean of the first values, as are the series below.
calcEMA(closes, period) ==
  IF ~Enough(closes, period, period) THEN Null
  ELSE LET k == Multiplier(period)
           smooths(ema, x) == Plus(Times(x, k), Times(ema, Minus(Q(1), k)))
       IN  FoldLeft(smooths, Mean(SubSeq(closes, 1, period)), SubSeq(closes, period + 1, Len(closes)))

calcEMASeries(closes, period) ==
  IF ~Enough(closes, period, period) THEN Null
  ELSE LET next(ema, x) == Append(ema, Plus(Times(Minus(x, Last(ema)), Multiplier(period)), Last(ema)))
       IN  FoldLeft(next, <<Mean(SubSeq(closes, 1, period))>>, SubSeq(closes, period + 1, Len(closes)))

\* Mutant: the last average is kept whole when a new value is added.
wilderKeepsAll(values, period) ==
  LET next(s, x) == Append(s, Over(Plus(Times(Last(s), Q(period)), x), Q(period))) IN
  FoldLeft(next, <<Mean(SubSeq(values, 1, period))>>, SubSeq(values, period + 1, Len(values)))

wilderSmooth(values, period) ==
  LET next(s, x) == Append(s, Over(Plus(Times(Last(s), Q(period - 1)), x), Q(period))) IN
  FoldLeft(next, <<Mean(SubSeq(values, 1, period))>>, SubSeq(values, period + 1, Len(values)))

\* Sums of positive and of negative changes over the first period, then smoothed.
GainsAndLosses(closes) ==
  [i \in 1..(Len(closes) - 1) |->
     LET change == Minus(closes[i + 1], closes[i]) IN
     [gain |-> Larger(change, Zero), loss |-> Larger(Minus(Zero, change), Zero)]]

RsiOf(gain, loss) ==
  IF IsZero(loss) THEN Q(100) ELSE Minus(Q(100), Over(Q(100), Plus(Q(1), Over(gain, loss))))

calcRSI(closes, period) ==
  IF ~Enough(closes, period, period + 1) THEN Null
  ELSE LET changes == GainsAndLosses(closes)
           first == SubSeq(changes, 1, period)
           start == [gain |-> Mean([i \in DOMAIN first |-> first[i].gain]),
                     loss |-> Mean([i \in DOMAIN first |-> first[i].loss])]
           smooths(avg, x) ==
             [gain |-> Over(Plus(Times(avg.gain, Q(period - 1)), x.gain), Q(period)),
              loss |-> Over(Plus(Times(avg.loss, Q(period - 1)), x.loss), Q(period))]
           rsi(avg) == IF ~IsZero(avg.loss) /\ IsZero(avg.gain) THEN Zero
                       ELSE RsiOf(avg.gain, avg.loss)
       IN  rsi(FoldLeft(smooths, start, SubSeq(changes, period + 1, Len(changes))))

\* The bands lie the multiplied root of the variance around the middle: its square is kept.
calcBollingerBands(closes, period, mult) ==
  IF ~Enough(closes, period, period) THEN Null
  ELSE LET middle == calcSMA(closes, period)
           square(x) == Times(Minus(x, middle), Minus(x, middle))
           last == Window(closes, period)
       IN  [middle |-> middle,
            band2 |-> Times(Q(mult * mult), Mean([i \in DOMAIN last |-> square(last[i])]))]

-----------------------------------------------------------------------------
(* Volatility.                                                             *)

calcATR(candles, period) ==
  IF ~Enough(candles, period, period + 1) THEN Null
  ELSE LET ranges == TrueRanges(candles)
           smooths(atr, tr) == Over(Plus(Times(atr, Q(period - 1)), tr), Q(period))
       IN  FoldLeft(smooths, Mean(SubSeq(ranges, 1, period)), SubSeq(ranges, period + 1, Len(ranges)))

Highest(candles, period) == LargestOf(Window(Highs(candles), period))
Lowest(candles, period) == SmallestOf(Window(Lows(candles), period))

calcDonchian(candles, period) ==
  IF ~Enough(candles, period, period) THEN Null
  ELSE LET upper == Highest(candles, period)  lower == Lowest(candles, period) IN
       [upper |-> upper, middle |-> Over(Plus(upper, lower), Q(2)), lower |-> lower]

calcKeltner(candles, period, mult) ==
  IF ~Enough(candles, period, period + 1) THEN Null
  ELSE LET middle == calcEMA(Closes(candles), period)
           offset == Times(calcATR(candles, period), Q(mult))
       IN  [upper |-> Plus(middle, offset), middle |-> middle, lower |-> Minus(middle, offset)]

calcChandelier(candles, period, mult) ==
  IF ~Enough(candles, period, period + 1) THEN Null
  ELSE LET offset == Times(calcATR(candles, period), Q(mult)) IN
       [long |-> Minus(Highest(candles, period), offset),
        short |-> Plus(Lowest(candles, period), offset)]

-----------------------------------------------------------------------------
(* Trend.                                                                  *)

\* The periods with fast at most slow: the others read before the start of the fast series.
calcMACD(candles, fast, slow, signal) ==
  IF fast < 1 \/ ~Enough(candles, slow, slow + signal - 1) \/ signal < 1 THEN Null
  ELSE LET fastEMA == calcEMASeries(Closes(candles), fast)
           slowEMA == calcEMASeries(Closes(candles), slow)
           macd == [i \in DOMAIN slowEMA |-> Minus(fastEMA[i + slow - fast], slowEMA[i])]
           lines(value, line) == [macd |-> value, signal |-> line, histogram |-> Minus(value, line)]
           last(series) == lines(Last(series), Last(calcEMASeries(series, signal)))
       IN  last(macd)

\* The move of the highs or of the lows, whichever is larger and up or down at all.
Directional(candles) ==
  [i \in 1..(Len(candles) - 1) |->
     LET up == Minus(candles[i + 1].high, candles[i].high)
         down == Minus(candles[i].low, candles[i + 1].low)
     IN  [plus  |-> IF Less(down, up) /\ IsPositive(up) THEN up ELSE Zero,
          minus |-> IF Less(up, down) /\ IsPositive(down) THEN down ELSE Zero]]

calcADX(candles, period) ==
  IF ~Enough(candles, period, 2 * period + 1) THEN Null
  ELSE LET dm == Directional(candles)
           plusDM == wilderSmooth([i \in DOMAIN dm |-> dm[i].plus], period)
           minusDM == wilderSmooth([i \in DOMAIN dm |-> dm[i].minus], period)
           tr == wilderSmooth(TrueRanges(candles), period)
           DI(dms, i) == Percent(Over(dms[i], tr[i]))
           share(p, m) == LET sum == Plus(p, m) IN
                          IF IsZero(sum) THEN Zero ELSE Percent(Over(Abs(Minus(p, m)), sum))
           dx(i) == share(DI(plusDM, i), DI(minusDM, i))
       IN  IF \E i \in DOMAIN tr : IsZero(tr[i]) THEN Null
           ELSE [adx |-> Last(wilderSmooth([i \in DOMAIN tr |-> dx(i)], period)),
                 plusDI |-> DI(plusDM, Len(tr)), minusDI |-> DI(minusDM, Len(tr))]

\* How recent the last highest high and the last lowest low of the window are.
calcAroon(candles, period) ==
  IF ~Enough(candles, period, period + 1) THEN Null
  ELSE LET w == Window(candles, period + 1)
           highest == Max({i \in DOMAIN w : \A j \in DOMAIN w : AtMost(w[j].high, w[i].high)})
           lowest == Max({i \in DOMAIN w : \A j \in DOMAIN w : AtMost(w[i].low, w[j].low)})
           score(i) == Percent(Ratio(period - (Len(w) - i), period))
       IN  [up |-> score(highest), down |-> score(lowest)]

calcDEMA(closes, period) ==
  IF ~Enough(closes, period, 2 * period - 1) THEN Null
  ELSE LET ema1 == calcEMASeries(closes, period)  ema2 == calcEMASeries(ema1, period) IN
       Minus(Times(Q(2), Last(ema1)), Last(ema2))

calcTRIX(closes, period) ==
  IF ~Enough(closes, period, 3 * period - 1) THEN Null
  ELSE LET ema3 == calcEMASeries(calcEMASeries(calcEMASeries(closes, period), period), period)
           change(from, to) == IF IsZero(from) THEN Null ELSE Percent(Over(Minus(to, from), from))
       IN  change(ema3[Len(ema3) - 1], Last(ema3))

\* One step of the parabolic stop: r holds the stops, the trend, its extreme and the pace.
StopAndReverse(candles, r, i, step, max) ==
  LET c == candles[i]  p == Last(r.sar)
      before == IF i > 2 THEN i - 2 ELSE i - 1
      moved == Plus(p, Times(r.af, Minus(r.ep, p)))
      sar == IF r.up THEN Smaller(moved, Smaller(candles[i - 1].low, candles[before].low))
                     ELSE Larger(moved, Larger(candles[i - 1].high, candles[before].high))
      further == IF r.up THEN Less(r.ep, c.high) ELSE Less(c.low, r.ep)
      ep == IF ~further THEN r.ep ELSE IF r.up THEN c.high ELSE c.low
      af == IF further THEN Smaller(Plus(r.af, step), max) ELSE r.af
  IN  IF IF r.up THEN Less(c.low, sar) ELSE Less(sar, c.high)
      THEN [sar |-> Append(r.sar, ep), up |-> ~r.up, ep |-> IF r.up THEN c.low ELSE c.high, af |-> step]
      ELSE [sar |-> Append(r.sar, sar), up |-> r.up, ep |-> ep, af |-> af]

calcPSAR(candles, step, max) ==
  IF Len(candles) < 2 THEN Null
  ELSE FoldLeft(LAMBDA r, i : StopAndReverse(candles, r, i, step, max),
                [sar |-> <<candles[1].low>>, up |-> TRUE, ep |-> candles[1].high, af |-> step],
                [i \in 1..(Len(candles) - 1) |-> i + 1])
=============================================================================
