---------------------------- MODULE PositionBook ----------------------------
(***************************************************************************)
(* PositionManager, SdkPosition, CostBasis and PositionReconciler            *)
(* (src/position).                                                          *)
(*                                                                         *)
(* The manager is immutable: an operation on the manager b yields the next    *)
(* one, or b itself where the code refuses.  Prices are whole cents and sizes *)
(* whole shares; token ids are left out.                                     *)
(***************************************************************************)
EXTENDS Integers, SequencesExt

CONSTANTS MaxClosed,                   \* maxClosed of the manager
          HaltThreshold, ToleranceBps  \* ReconcilerConfig

Sides == {"yes", "no"}
Abs(x) == IF x < 0 THEN -x ELSE x
Larger(a, b) == IF a > b THEN a ELSE b
Smaller(a, b) == IF a < b THEN a ELSE b

EmptyBasis == [cost |-> 0, size |-> 0, fills |-> 0]
addFill(basis, price, size) ==
  [cost |-> basis.cost + price * size, size |-> basis.size + size, fills |-> basis.fills + 1]

SdkPosition(side, price, size, now) ==
  [side |-> side, entry |-> price, size |-> size, cost |-> price * size, realized |-> 0,
   mark |-> price, since |-> now, fillTracker |-> addFill(EmptyBasis, price, size)]

pnlTotal(p, price) == price * p.size - p.cost

\* Mutant: a reduction keeps the cost basis.
reduceKeepsCost(p, size, price) ==
  [p EXCEPT !.size = p.size - size, !.realized = p.realized + (price - p.entry) * size]
tryReduce(p, size, price) ==
  [p EXCEPT !.size = p.size - size, !.cost = p.entry * (p.size - size),
            !.realized = p.realized + (price - p.entry) * size]

-----------------------------------------------------------------------------

create == [positions |-> <<>>, closed |-> <<>>, accRealizedPnl |-> 0]
Held(b) == DOMAIN b.positions
Without(b, m) == [n \in Held(b) \ {m} |-> b.positions[n]]

\* Refused while the market has a position, whatever its side.
open(b, m, side, price, size, now) ==
  IF m \in Held(b) THEN b
  ELSE [b EXCEPT !.positions =
                   [n \in Held(b) \cup {m} |-> IF n = m THEN SdkPosition(side, price, size, now)
                                               ELSE b.positions[n]]]

close(b, m, price) ==
  LET p == b.positions[m]
      pnl == pnlTotal(p, price)
      entry == [market |-> m, size |-> p.size, pnl |-> pnl]
      all == Append(b.closed, entry)
  IN IF m \notin Held(b) THEN b
     ELSE [positions |-> Without(b, m),
           closed |-> SubSeq(all, Larger(Len(all) - MaxClosed, 0) + 1, Len(all)),
           accRealizedPnl |-> b.accRealizedPnl + pnl]

\* Refused for more than is held.  A position reduced to nothing is removed and,
\* unlike one that is closed, leaves no ClosedPosition.
reduce(b, m, size, price) ==
  LET p == tryReduce(b.positions[m], size, price)
  IN IF m \notin Held(b) \/ size > b.positions[m].size THEN b
     ELSE [b EXCEPT !.positions = IF p.size = 0 THEN Without(b, m) ELSE [@ EXCEPT ![m] = p],
                    !.accRealizedPnl = @ + p.realized - b.positions[m].realized]

-----------------------------------------------------------------------------
(* Reconciliation with what the exchange reports: a set of records with      *)
(* market, side and size, one for each market and side.                      *)

withinTolerance(x, y) ==
  x = y \/ Larger(Abs(x), Abs(y)) = 0
        \/ Abs(x - y) * 10000 <= Larger(Abs(x), Abs(y)) * ToleranceBps

\* Mutant: the key leaves the side out.
keyWithoutSide(e) == <<e.market>>
positionKey(e) == <<e.market, e.side>>

Own(b) == {[market |-> m, side |-> b.positions[m].side, size |-> b.positions[m].size]
             : m \in Held(b)}

reconcile(own, exchange) ==
  LET keys(S) == {positionKey(e) : e \in S}
      orphans == {e \in own : positionKey(e) \notin keys(exchange)}
      unknown == {e \in exchange : positionKey(e) \notin keys(own)}
      mismatched == {e \in own : \E f \in exchange :
                        positionKey(e) = positionKey(f) /\ ~withinTolerance(e.size, f.size)}
  IN [orphans |-> orphans, unknown |-> unknown, mismatched |-> mismatched,
      shouldHalt |-> Cardinality(orphans) + Cardinality(unknown) > HaltThreshold]
=============================================================================
