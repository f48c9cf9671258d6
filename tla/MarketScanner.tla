--------------------------- MODULE MarketScanner ---------------------------
(***************************************************************************)
(* Choosing the markets to trade: scan() by the oracle's edge                *)
(* (src/market/scanner.ts), and the scanner that scores markets and rotates   *)
(* among them (src/market/market-scanner.ts).  Sequences are ranked, best    *)
(* first; scores are numbers of their smallest part.                         *)
(***************************************************************************)
EXTENDS Integers, SequencesExt

\* Mutant: the results are sorted the other way round.
rankedWorstFirst(results) ==
  LET ahead(i) == {j \in DOMAIN results : \/ results[j].score < results[i].score
                                          \/ results[j].score = results[i].score /\ j <= i}
      at(k) == CHOOSE i \in DOMAIN results : Cardinality(ahead(i)) = k
  IN  [k \in 1..Cardinality(DOMAIN results) |-> results[at(k)]]

\* Results, by the places they came at, by descending score; equal ones in the order they came.
Ranked(results) ==
  LET ahead(i) == {j \in DOMAIN results : \/ results[j].score > results[i].score
                                          \/ results[j].score = results[i].score /\ j <= i}
      at(k) == CHOOSE i \in DOMAIN results : Cardinality(ahead(i)) = k
  IN  [k \in 1..Cardinality(DOMAIN results) |-> results[at(k)]]

\* scan: markets with a two-sided book, by the oracle's distance from the mid over the spread,
\* in sixtieths, none of them lost for a spread that divides 60; without an oracle the edge is
\* none.  Prices are twice their value, as the mid is.
scan(markets, books, oracle) ==
  LET quoted == {i \in DOMAIN markets : markets[i] \in DOMAIN books}
      result(m) ==
        LET b == books[m]
            mid == (b.bid + b.ask) \div 2
            edge == IF m \notin DOMAIN oracle THEN 0
                    ELSE IF oracle[m] < mid THEN mid - oracle[m] ELSE oracle[m] - mid
        IN  [id |-> m, spread |-> b.ask - b.bid, edge |-> edge,
             score |-> IF b.ask > b.bid THEN (60 * edge) \div (b.ask - b.bid) ELSE 0]
  IN  Ranked([i \in quoted |-> result(markets[i])])

\* What is left of the freshness after an age in periods of five minutes, in percent.
Decay == <<100, 37, 14, 5>>
freshScore(age) == IF age + 1 \in DOMAIN Decay THEN Decay[age + 1] ELSE 0

\* scan of the scanner: volume and depth relative to the largest, spread and age, weighted, each
\* in whole percent (the code does not round them).
scoreMarkets(markets, weights, maxSpreadBps) ==
  LET maxVolume == Max({m.volume : m \in ToSet(markets)} \cup {1})
      maxDepth  == Max({m.depth : m \in ToSet(markets)} \cup {1})
      admitted  == {i \in DOMAIN markets : markets[i].spreadBps <= maxSpreadBps}
      score(m)  == ((100 * m.volume) \div maxVolume) * weights.volume
                 + ((100 * m.depth) \div maxDepth) * weights.depth
                 + Max({0, 100 - m.spreadBps \div 10}) * weights.spread
                 + freshScore(m.age) * weights.freshness
  IN  Ranked([i \in admitted |-> [id |-> markets[i].id, score |-> score(markets[i])]])

\* The lowest score of the current markets that are ranked, if any is.
findWorstScore(scores, current) ==
  {s.score : s \in {s \in ToSet(scores) : s.id \in current}}

\* Mutant: a current market has to beat the worst one, too.
selectBetterOnly(scores, count, current, threshold) ==
  LET known == findWorstScore(scores, current)
      stays(s) == known = {} \/ s.score - Min(known) > threshold
      picks(result, s) == IF Len(result) < count /\ stays(s) THEN Append(result, s.id) ELSE result
  IN  FoldLeft(picks, <<>>, scores)

\* selectTop: a market stays, or comes in when it beats the worst current one by the threshold.
selectTop(scores, count, current, threshold) ==
  LET known == findWorstScore(scores, current)
      stays(s) == s.id \in current \/ known = {} \/ s.score - Min(known) > threshold
      picks(result, s) == IF Len(result) < count /\ stays(s) THEN Append(result, s.id) ELSE result
  IN  FoldLeft(picks, <<>>, scores)

-----------------------------------------------------------------------------
(* Properties.                                                             *)

Before(results, m, x) == \E i, j \in DOMAIN results : i < j /\ results[i].id = m /\ results[j].id = x

\* A market whose oracle moves away from its mid never falls behind a market it was ahead of.
EdgeRanks(markets, books, oracle, m, further) ==
  LET before == scan(markets, books, oracle)
      after  == scan(markets, books, [oracle EXCEPT ![m] = @ + further])
      mid == (books[m].bid + books[m].ask) \div 2
  IN  further > 0 /\ oracle[m] >= mid =>
        \A x \in DOMAIN books : Before(before, m, x) => Before(after, m, x)

\* Choosing again among the same scores chooses the same markets: rotation does not churn.
RotationSettles(scores, count, current, threshold) ==
  LET chosen == selectTop(scores, count, current, threshold) IN
  chosen # <<>> => selectTop(scores, count, ToSet(chosen), threshold) = chosen
=============================================================================
