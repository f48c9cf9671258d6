----------------------------- MODULE Oscillators -----------------------------
(***************************************************************************)
(* Momentum and volume of a series of candles, oldest first                  *)
(* (src/analytics/momentum-indicators.ts, src/analytics/volume-indicators.ts). *)
(***************************************************************************)
EXTENDS Indicators

-----------------------------------------------------------------------------
(* Momentum.                                                               *)

calcRSISeries(closes, period) ==
  IF Len(closes) < period + 1 THEN <<>>
  ELSE LET changes == GainsAndLosses(closes)
           gains == wilderSmooth([i \in DOMAIN changes |-> changes[i].gain], period)
           losses == wilderSmooth([i \in DOMAIN changes |-> changes[i].loss], period)
       IN  [i \in DOMAIN gains |-> RsiOf(gains[i], losses[i])]

\* Where a value lies between the ends of its range, in percent; half way if that is a point.
Position(value, low, high) ==
  IF low = high THEN Q(50) ELSE Percent(Over(Minus(value, low), Minus(high, low)))

Lines(k, dPeriod) == [k |-> Last(k), d |-> calcSMA(k, dPeriod)]

\* Mutant: every close is placed in the range of the first window.
stochasticOfFirst(candles, kPeriod, dPeriod) ==
  IF ~Enough(candles, dPeriod, kPeriod + dPeriod - 1) \/ kPeriod < 1 THEN Null
  ELSE LET at(i) == SubSeq(candles, 1, kPeriod)
           k == [i \in 1..(Len(candles) - kPeriod + 1) |->
                   Position(candles[i + kPeriod - 1].close,
                            SmallestOf(Lows(at(i))), LargestOf(Highs(at(i))))]
       IN  Lines(k, dPeriod)

calcStochastic(candles, kPeriod, dPeriod) ==
  IF ~Enough(candles, dPeriod, kPeriod + dPeriod - 1) \/ kPeriod < 1 THEN Null
  ELSE LET at(i) == SubSeq(candles, i, i + kPeriod - 1)
           k == [i \in 1..(Len(candles) - kPeriod + 1) |->
                   Position(candles[i + kPeriod - 1].close,
                            SmallestOf(Lows(at(i))), LargestOf(Highs(at(i))))]
       IN  Lines(k, dPeriod)

calcWilliamsR(candles, period) ==
  IF ~Enough(candles, period, period) THEN Null
  ELSE LET high == Highest(candles, period)  low == Lowest(candles, period) IN
       IF high = low THEN Q(-50)
       ELSE Times(Over(Minus(high, Last(candles).close), Minus(high, low)), Q(-100))

TypicalPrices(candles) ==
  [i \in DOMAIN candles |->
     Over(Plus(Plus(candles[i].high, candles[i].low), candles[i].close), Q(3))]

calcCCI(candles, period) ==
  IF ~Enough(candles, period, period) THEN Null
  ELSE LET tp == TypicalPrices(Window(candles, period))
           deviation == Mean([i \in DOMAIN tp |-> Abs(Minus(tp[i], Mean(tp)))])
       IN  IF IsZero(deviation) THEN Zero
           ELSE Over(Minus(Last(tp), Mean(tp)), Times(Ratio(15, 1000), deviation))

calcROC(closes, period) ==
  IF ~Enough(closes, period, period + 1) THEN Null
  ELSE LET then == closes[Len(closes) - period] IN
       IF IsZero(then) THEN Null ELSE Percent(Over(Minus(Last(closes), then), then))

calcAO(candles, fast, slow) ==
  IF fast < 1 \/ ~Enough(candles, slow, slow) THEN Null
  ELSE LET medians == [i \in DOMAIN candles |-> Over(Plus(candles[i].high, candles[i].low), Q(2))] IN
       IF Len(medians) < fast THEN Null ELSE Minus(calcSMA(medians, fast), calcSMA(medians, slow))

calcStochRSI(closes, rsiPeriod, stochPeriod, kPeriod, dPeriod) ==
  IF \/ \E p \in {rsiPeriod, stochPeriod, kPeriod, dPeriod} : p < 1
     \/ Len(closes) < rsiPeriod + stochPeriod + kPeriod + dPeriod - 1
  THEN Null
  ELSE LET positions(rsi) ==
             [i \in 1..(Len(rsi) - stochPeriod + 1) |->
                LET over == SubSeq(rsi, i, i + stochPeriod - 1) IN
                Position(Last(over), SmallestOf(over), LargestOf(over))]
           smoothed(raw) ==
             [i \in 1..(Len(raw) - kPeriod + 1) |-> Mean(SubSeq(raw, i, i + kPeriod - 1))]
       IN  Lines(smoothed(positions(calcRSISeries(closes, rsiPeriod))), dPeriod)

-----------------------------------------------------------------------------
(* Volume.                                                                 *)

\* The indices of the candles that have one before them.
Later(candles) == [i \in 1..(Len(candles) - 1) |-> i + 1]

calcOBV(candles) ==
  IF Len(candles) < 2 THEN Null
  ELSE FoldLeft(LAMBDA obv, i :
         IF Less(candles[i - 1].close, candles[i].close) THEN Plus(obv, candles[i].volume)
         ELSE IF Less(candles[i].close, candles[i - 1].close) THEN Minus(obv, candles[i].volume)
         ELSE obv, Zero, Later(candles))

VolumeOf(candles) == SumOf([i \in DOMAIN candles |-> candles[i].volume])

calcVWMA(candles, period) ==
  IF ~Enough(candles, period, period) THEN Null
  ELSE LET w == Window(candles, period) IN
       IF IsZero(VolumeOf(w)) THEN Null
       ELSE Over(SumOf([i \in DOMAIN w |-> Times(w[i].close, w[i].volume)]), VolumeOf(w))

calcMFI(candles, period) ==
  IF ~Enough(candles, period, period + 1) THEN Null
  ELSE LET w == Window(candles, period + 1)
           tp == TypicalPrices(w)
           flow(places) == SumOf([i \in 1..period |->
             IF i \in places THEN Times(tp[i + 1], w[i + 1].volume) ELSE Zero])
           positive == flow({i \in 1..period : Less(tp[i], tp[i + 1])})
           negative == flow({i \in 1..period : Less(tp[i + 1], tp[i])})
       IN  IF IsZero(negative) THEN Q(100)
           ELSE IF IsZero(positive) THEN Zero
           ELSE Minus(Q(100), Over(Q(100), Plus(Q(1), Over(positive, negative))))

\* Where the close lies in its candle, from -1 to 1.
clv(candle) ==
  LET range == Minus(candle.high, candle.low) IN
  IF IsZero(range) THEN Zero
  ELSE Over(Minus(Minus(candle.close, candle.low), Minus(candle.high, candle.close)), range)

MoneyFlow(candles) == SumOf([i \in DOMAIN candles |-> Times(clv(candles[i]), candles[i].volume)])

calcADL(candles) == IF candles = <<>> THEN Null ELSE MoneyFlow(candles)

calcCMF(candles, period) ==
  IF ~Enough(candles, period, period) THEN Null
  ELSE LET w == Window(candles, period) IN
       IF IsZero(VolumeOf(w)) THEN Null ELSE Over(MoneyFlow(w), VolumeOf(w))

calcForceIndex(candles, period) ==
  IF ~Enough(candles, period, period + 1) THEN Null
  ELSE calcEMA([i \in 1..(Len(candles) - 1) |->
         Times(Minus(candles[i + 1].close, candles[i].close), candles[i + 1].volume)], period)

\* The relative change of the close, of the candles after a close that is not zero.
Changes(candles) == SelectSeq(Later(candles), LAMBDA i : ~IsZero(candles[i - 1].close))
ChangeAt(candles, i) == Over(Minus(candles[i].close, candles[i - 1].close), candles[i - 1].close)

calcNVI(candles, start) ==
  IF Len(candles) < 2 THEN Null
  ELSE FoldLeft(LAMBDA nvi, i :
         IF Less(candles[i].volume, candles[i - 1].volume)
         THEN Times(nvi, Plus(Q(1), ChangeAt(candles, i))) ELSE nvi, start, Changes(candles))

calcVPT(candles) ==
  IF Len(candles) < 2 THEN Null
  ELSE FoldLeft(LAMBDA vpt, i : Plus(vpt, Times(candles[i].volume, ChangeAt(candles, i))),
                Zero, Changes(candles))

\* A series seeded with its first value alone, unlike calcEMASeries.
calcEMASeriesRaw(values, period) ==
  IF Len(values) < period THEN Null
  ELSE LET k == Multiplier(period)
           next(ema, x) == Append(ema, Plus(Times(x, k), Times(Last(ema), Minus(Q(1), k))))
       IN  FoldLeft(next, <<values[1]>>, Tail(values))

Histogram(pvo, line) == [pvo |-> pvo, signal |-> line, histogram |-> Minus(pvo, line)]

calcPVO(candles, fast, slow, signal) ==
  IF fast < 1 \/ slow < 1 \/ signal < 1 \/ Len(candles) < slow + signal - 1 \/ Len(candles) < fast
  THEN Null
  ELSE LET volumes == [i \in DOMAIN candles |-> candles[i].volume]
           fastEMA == calcEMASeriesRaw(volumes, fast)
           slowEMA == calcEMASeriesRaw(volumes, slow)
           some == SelectSeq([i \in DOMAIN candles |-> i], LAMBDA i : ~IsZero(slowEMA[i]))
           pvo == [j \in DOMAIN some |->
                     LET i == some[j] IN Percent(Over(Minus(fastEMA[i], slowEMA[i]), slowEMA[i]))]
           lines(series) == IF Len(series) < signal THEN Null
                            ELSE Histogram(Last(series), Last(calcEMASeriesRaw(series, signal)))
       IN  lines(pvo)

-----------------------------------------------------------------------------
(* Properties.                                                             *)

Within(x, low, high) == x = Null \/ (AtMost(Q(low), x) /\ AtMost(x, Q(high)))
Parts(r, names) == IF r = Null THEN {} ELSE {r[n] : n \in names}

\* The oscillators stay in the ranges their documentation gives, whatever the candles, and the
\* stop of the parabolic lies beyond its candle on the side of the trend.
InRange(candles, p) ==
  LET percents == {calcRSI(Closes(candles), p), calcMFI(candles, p)}
                  \cup Parts(calcStochastic(candles, p, p), {"k", "d"})
                  \cup Parts(calcStochRSI(Closes(candles), p, 2, 1, 1), {"k", "d"})
                  \cup Parts(calcAroon(candles, p), {"up", "down"})
                  \cup Parts(calcADX(candles, p), {"adx", "plusDI", "minusDI"})
      psar == calcPSAR(candles, Ratio(1, 2), Q(1))
  IN  /\ \A x \in percents : Within(x, 0, 100)
      /\ Within(calcWilliamsR(candles, p), -100, 0)
      /\ Within(calcCMF(candles, p), -1, 1)
      /\ psar # Null => IF psar.up THEN AtMost(Last(psar.sar), Last(candles).low)
                                   ELSE AtMost(Last(candles).high, Last(psar.sar))

\* What the code computes in several ways it computes alike: averages and the strength index as
\* the last of their series, the true range as Wilder's average, %R as %K from the other end.
TwinsAgree(candles, p) ==
  LET closes == Closes(candles) IN
  /\ Len(candles) >= p => calcEMA(closes, p) = Last(calcEMASeries(closes, p))
  /\ Len(candles) > p =>
       /\ calcRSI(closes, p) = Last(calcRSISeries(closes, p))
       /\ calcATR(candles, p) = Last(wilderSmooth(TrueRanges(candles), p))
  /\ calcStochastic(candles, p, 1) # Null =>
       calcWilliamsR(candles, p) = Minus(calcStochastic(candles, p, 1).k, Q(100))

\* Indicators of a window see nothing before it: older candles make no difference.
OnlyWindow(candles, p) ==
  LET w == Window(candles, p)  v == Window(candles, p + 1) IN
  Len(candles) > p =>
    /\ calcDonchian(candles, p) = calcDonchian(w, p)
    /\ calcWilliamsR(candles, p) = calcWilliamsR(w, p)
    /\ calcCCI(candles, p) = calcCCI(w, p)
    /\ calcVWMA(candles, p) = calcVWMA(w, p)
    /\ calcCMF(candles, p) = calcCMF(w, p)
    /\ calcMFI(candles, p) = calcMFI(v, p)
    /\ calcAroon(candles, p) = calcAroon(v, p)
    /\ calcROC(Closes(candles), p) = calcROC(Closes(v), p)
    /\ calcBollingerBands(Closes(candles), p, 2) = calcBollingerBands(Closes(w), p, 2)

\* The accumulations are additive: what later candles add does not depend on the earlier ones.
Additive(candles) ==
  Len(candles) > 2 =>
    LET n == Len(candles)
        head == SubSeq(candles, 1, n - 1)  tail == SubSeq(candles, n - 1, n) IN
    /\ calcOBV(candles) = Plus(calcOBV(head), calcOBV(tail))
    /\ calcVPT(candles) = Plus(calcVPT(head), calcVPT(tail))
    /\ calcADL(candles) = Plus(calcADL(head), calcADL(<<candles[n]>>))
    /\ calcNVI(candles, Q(1000)) = Times(calcNVI(head, Q(1000)), calcNVI(tail, Q(1)))

\* Prices in another currency: twice the prices make twice the averages, bands and stops, and
\* change no ratio.
Doubled(candles) ==
  [i \in DOMAIN candles |->
     [low |-> Times(Q(2), candles[i].low), close |-> Times(Q(2), candles[i].close),
      high |-> Times(Q(2), candles[i].high), volume |-> candles[i].volume]]

Twice(x) == IF x = Null THEN Null ELSE Times(Q(2), x)
AllTwice(before, after) == \A i \in DOMAIN before : after[i] = Twice(before[i])
Field(r, name) == IF r = Null THEN Null ELSE r[name]

ScaleFree(candles, p) ==
  LET more == Doubled(candles)
      prices(cs) == <<calcSMA(Closes(cs), p), calcDEMA(Closes(cs), p), calcATR(cs, p),
                      calcVWMA(cs, p), calcForceIndex(cs, p), calcAO(cs, 1, p),
                      Field(calcKeltner(cs, p, 2), "upper"), Field(calcDonchian(cs, p), "middle"),
                      Field(calcChandelier(cs, p, 3), "long"),
                      Field(calcChandelier(cs, p, 3), "short"),
                      Field(calcMACD(cs, 1, p, p), "histogram"),
                      IF Len(cs) < 2 THEN Null ELSE Last(calcPSAR(cs, Ratio(1, 2), Q(1)).sar)>>
      ratios(cs) == <<calcTRIX(Closes(cs), p), calcCCI(cs, p), calcROC(Closes(cs), p),
                      calcRSI(Closes(cs), p), calcMFI(cs, p), calcADX(cs, p), calcAroon(cs, p),
                      calcOBV(cs), calcVPT(cs), calcNVI(cs, Q(1000)), calcADL(cs), calcCMF(cs, p),
                      calcPVO(cs, 1, p, p)>>
  IN  AllTwice(prices(candles), prices(more)) /\ ratios(more) = ratios(candles)
=============================================================================
