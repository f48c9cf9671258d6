----------------------------- MODULE QueueModel -----------------------------
(***************************************************************************)
(* When a resting limit order of the paper market fills                      *)
(* (src/execution/queue-model.ts): its chance grows with the time in the      *)
(* queue and with prices that move through it, and shrinks with its size.     *)
(* Rates, prices and chances are exact fractions, times are ticks.            *)
(***************************************************************************)
EXTENDS Rational

\* The entry enqueue makes, at the back of the queue.
enqueue(price, size, isBuy, now) ==
  [price |-> price, size |-> size, isBuy |-> isBuy, enqueuedAt |-> now, queuePosition |-> Q(1)]

\* How far the other side of the book has moved through the order, relative to its price.
computeAdverseBonus(config, entry, bid, ask) ==
  LET through == IF entry.isBuy THEN Minus(entry.price, ask) ELSE Minus(bid, entry.price) IN
  IF IsPositive(through) THEN Times(config.adverseSelectionFactor, Over(through, entry.price))
  ELSE Zero

computeSizePenalty(config, size) == Larger(Zero, Times(config.sizePenalty, Minus(size, Q(1))))

\* Mutant: the position is counted from the front of the queue.
chanceFromFront(config, entry, bid, ask, now) ==
  LET decay == Times(config.queueDecayRate, Q(now - entry.enqueuedAt))
      position == Larger(Zero, Minus(entry.queuePosition, decay))
      chance == Minus(Plus(Times(config.baseFillRate, position),
                           computeAdverseBonus(config, entry, bid, ask)),
                      computeSizePenalty(config, entry.size))
  IN  Larger(Zero, Smaller(Q(1), chance))

fillProbability(config, entry, bid, ask, now) ==
  LET decay == Times(config.queueDecayRate, Q(now - entry.enqueuedAt))
      position == Larger(Zero, Minus(entry.queuePosition, decay))
      chance == Minus(Plus(Times(config.baseFillRate, Minus(Q(1), position)),
                           computeAdverseBonus(config, entry, bid, ask)),
                      computeSizePenalty(config, entry.size))
  IN  Larger(Zero, Smaller(Q(1), chance))

\* tryFill with the random number it draws: the entries that fill, at their price or better.
Fills(config, entries, entry, bid, ask, now, random) ==
  entry \in entries /\ Less(random, fillProbability(config, entry, bid, ask, now))

effectivePrice(entry, bid, ask) ==
  IF entry.isBuy THEN Smaller(entry.price, ask) ELSE Larger(entry.price, bid)

-----------------------------------------------------------------------------
(* Properties.                                                             *)

\* An order that waits longer, is smaller, or is priced more generously is at least as likely
\* to fill.
QueueIsFair(config, a, b, bid, ask, now) ==
  (/\ a.isBuy = b.isBuy
   /\ a.enqueuedAt <= b.enqueuedAt
   /\ AtMost(a.size, b.size)
   /\ IF a.isBuy THEN AtMost(b.price, a.price) ELSE AtMost(a.price, b.price))
  => AtMost(fillProbability(config, b, bid, ask, now), fillProbability(config, a, bid, ask, now))
=============================================================================
