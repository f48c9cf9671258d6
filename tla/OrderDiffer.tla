---------------------------- MODULE OrderDiffer ----------------------------
(***************************************************************************)
(* From the live orders to the desired ones (src/order/order-differ.ts).      *)
(* Desired orders are a sequence of records with a key (token and side), a    *)
(* price and a size; live orders have an id too, each its own, not 0.        *)
(***************************************************************************)
EXTENDS Integers, SequencesExt

\* The search for a live order of the key that is not matched yet takes them in order, so the
\* n-th desired order of a key meets the n-th live one.
Nth(orders, i) == Cardinality({j \in 1..i : orders[j].key = orders[i].key})
Meet(desired, i, live, j) == desired[i].key = live[j].key /\ Nth(desired, i) = Nth(live, j)

Gap(a, b) == IF a < b THEN b - a ELSE a - b

\* config: an absolute tolerance of the price, a percentage of the live order's size.
isPriceWithinTolerance(want, have, c) == Gap(want.price, have.price) <= c.priceTolerance
isSizeWithinTolerance(want, have, c) ==
  IF have.size = 0 THEN want.size = 0
  ELSE Gap(want.size, have.size) * 100 <= c.sizeTolerancePct * have.size
isWithinTolerance(want, have, c) ==
  isPriceWithinTolerance(want, have, c) /\ isSizeWithinTolerance(want, have, c)

Keep(have) == [type |-> "keep", id |-> have.id]
Amend(have, want) == [type |-> "amend", id |-> have.id, price |-> want.price, size |-> want.size]
Place(want) == [type |-> "place", order |-> want]
Cancel(have) == [type |-> "cancel", id |-> have.id]

\* Mutant: an order is kept when its price is right, whatever its size.
changedByPrice(want, have, c) ==
  IF isPriceWithinTolerance(want, have, c) THEN Keep(have) ELSE Amend(have, want)

Changed(want, have, c) == IF isWithinTolerance(want, have, c) THEN Keep(have) ELSE Amend(have, want)

\* The actions, each for an order of its own; their order does not matter to what they do.
diffOrders(desired, live, c) ==
  LET pairs == {p \in (DOMAIN desired) \X (DOMAIN live) : Meet(desired, p[1], live, p[2])}
      unmet == {i \in DOMAIN desired : \A p \in pairs : p[1] # i}
      over  == {j \in DOMAIN live : \A p \in pairs : p[2] # j}
  IN  {Changed(desired[p[1]], live[p[2]], c) : p \in pairs}
      \cup {Place(desired[i]) : i \in unmet} \cup {Cancel(live[j]) : j \in over}

-----------------------------------------------------------------------------
(* Properties.                                                             *)

Amended(o, a) == [id |-> o.id, key |-> o.key, price |-> a.price, size |-> a.size]
Placed(w) == [id |-> 0, key |-> w.key, price |-> w.price, size |-> w.size]

\* The live orders once the actions are carried out; new ones have no id of their own yet.
After(live, actions) ==
  LET left == {o \in ToSet(live) : Cancel(o) \notin actions}
      pairs == {p \in left \X actions : p[2].type = "amend" /\ p[2].id = p[1].id}
      placed == {a.order : a \in {a \in actions : a.type = "place"}}
  IN  {o \in left : \A p \in pairs : p[1] # o} \cup {Amended(p[1], p[2]) : p \in pairs}
      \cup {Placed(w) : w \in placed}

\* Carried out, the actions give each desired order an order of its own within tolerance, and
\* leave no other.  No order is desired twice.
DiffSettles(desired, live, c) ==
  \E mine \in Bijection(DOMAIN desired, After(live, diffOrders(desired, live, c))) :
    \A i \in DOMAIN desired : /\ mine[i].key = desired[i].key
                             /\ isWithinTolerance(desired[i], mine[i], c)
=============================================================================
