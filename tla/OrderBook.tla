------------------------------ MODULE OrderBook ------------------------------
(***************************************************************************)
(* Order books and what is read from them (src/market/orderbook.ts): a book  *)
(* is two sequences of price levels, best first, that deltas update.         *)
(* Prices and sizes are whole numbers of their smallest unit.                *)
(***************************************************************************)
EXTENDS Integers, SequencesExt

CONSTANT Absent \* null of a price

ASSUME AbsentAssumption == Absent \notin Int

Descending(a, b) == a.price > b.price
Ascending(a, b) == a.price < b.price

\* Mutant: a level of size zero stays in the book.
putKeepsEmpty(levels, lvl) == {l \in levels : l.price # lvl.price} \cup {lvl}

\* The levels, one per price, after one more level of an update.
Put(levels, lvl) ==
  {l \in levels : l.price # lvl.price} \cup (IF lvl.size = 0 THEN {} ELSE {lvl})

Updated(levels, updates) == FoldLeft(Put, levels, updates)

\* Levels of different prices in the order that puts the better one first.
BestFirst(levels, better(_, _)) ==
  CHOOSE s \in [1..Cardinality(levels) -> levels] :
    \A i, j \in DOMAIN s : i < j => better(s[i], s[j])

\* Mutant: asks are put in the order of bids.
mergeDescending(existing, updates, side) == BestFirst(Updated(ToSet(existing), updates), Descending)

\* One side of a book with the levels of an update put into it in their order, sorted again.
mergeLevels(existing, updates, side) ==
  LET levels == Updated(ToSet(existing), updates) IN
  IF side = "bids" THEN BestFirst(levels, Descending) ELSE BestFirst(levels, Ascending)

applyDelta(book, delta) ==
  [book EXCEPT !.bids = mergeLevels(@, delta.bids, "bids"),
               !.asks = mergeLevels(@, delta.asks, "asks")]

bookBid(book) == IF book.bids = <<>> THEN Absent ELSE book.bids[1].price
bookAsk(book) == IF book.asks = <<>> THEN Absent ELSE book.asks[1].price

bookSpread(book) ==
  IF Absent \in {bookBid(book), bookAsk(book)} THEN Absent ELSE bookAsk(book) - bookBid(book)

\* Twice the mid price.
midPrice2(book) ==
  IF Absent \in {bookBid(book), bookAsk(book)} THEN Absent ELSE bookAsk(book) + bookBid(book)

\* One level of a walk: what is still to be filled, and what the fills have cost.
FillLevel(acc, lvl) ==
  LET f == Min({acc.remaining, lvl.size}) IN
  [remaining |-> acc.remaining - f, cost |-> acc.cost + f * lvl.price]

Walked(size, levels) == FoldLeft(FillLevel, [remaining |-> size, cost |-> 0], levels)

\* What filling size costs, walking the levels of the other side: effectivePrice times size.
effectiveCost(book, size, side) ==
  LET walked == Walked(size, IF side = "buy" THEN book.asks ELSE book.bids) IN
  IF size = 0 \/ walked.remaining > 0 THEN Absent ELSE walked.cost
-----------------------------------------------------------------------------
(* Properties.                                                             *)

\* A larger order is filled at no better price on average, and no better than the best level.
CostGrows(book, less, more, side) ==
  LET a == effectiveCost(book, less, side)  b == effectiveCost(book, more, side) IN
  0 < less /\ less < more /\ b # Absent =>
    /\ a # Absent
    /\ IF side = "buy" THEN a * more <= b * less /\ bookAsk(book) * less <= a
       ELSE b * less <= a * more /\ a <= bookBid(book) * less
=============================================================================
