--------------------------- MODULE DetectorContext ---------------------------
(***************************************************************************)
(* What a tick sees (src/context/detector-context.ts): a record c whose book  *)
(* gives each side's best bid and ask, in cents or None, and whose positions  *)
(* are those open when it was made.  A context is a snapshot: it does not     *)
(* follow what the tick itself changes.                                      *)
(***************************************************************************)
EXTENDS Integers, SequencesExt

CONSTANT None  \* null

\* The fields of both records.  (TLC's operator for it is unknown to the provers.)
Joined(r, s) ==
  [f \in DOMAIN r \cup DOMAIN s |-> IF f \in DOMAIN s THEN s[f] ELSE r[f]]

bestBid(c, side) == c.book[side].bid
bestAsk(c, side) == c.book[side].ask
TwoSided(c, side) == bestBid(c, side) # None /\ bestAsk(c, side) # None

spread(c, side) == IF TwoSided(c, side) THEN bestAsk(c, side) - bestBid(c, side) ELSE None

\* spreadPct() is known and above pct; without a mid price it is unknown.
spreadPctAbove(c, side, pct) ==
  /\ TwoSided(c, side) /\ bestBid(c, side) + bestAsk(c, side) # 0
  /\ 200 * spread(c, side) > pct * (bestBid(c, side) + bestAsk(c, side))

\* Twice the spot price, to stay whole.  Without a side it is that of "yes".
spot2(c, side) ==
  IF TwoSided(c, side) THEN bestBid(c, side) + bestAsk(c, side)
  ELSE IF bestBid(c, side) # None THEN 2 * bestBid(c, side)
  ELSE IF bestAsk(c, side) # None THEN 2 * bestAsk(c, side) ELSE None

openCount(c) == Cardinality(DOMAIN c.positions)
notionals(positions) == FoldFunction(+, 0, [m \in DOMAIN positions |-> positions[m].cost])
totalNotional(c) == notionals(c.positions)
=============================================================================
