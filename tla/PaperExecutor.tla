---------------------------- MODULE PaperExecutor ----------------------------
(***************************************************************************)
(* The executor of paper trading (src/execution/paper-executor.ts), as a     *)
(* record: the orders it keeps as active with the time they came, and the     *)
(* bounded history of its results.  An order is known by its number.         *)
(***************************************************************************)
EXTENDS Integers, SequencesExt

CONSTANTS MaxFillHistory, \* maxFillHistory of the configuration
          MaxOrderAge     \* maxOrderAgeMs: 0 keeps orders for ever

ASSUME PaperAssumption == MaxFillHistory \in Int /\ MaxOrderAge \in Int

\* The result of an order by the part of it that is filled: none, some or all.
FillRatio == {"none", "some", "all"}
ResultOf(ratio) == CASE ratio = "none" -> "cancelled"
                     [] ratio = "some" -> "partially_filled"
                     [] ratio = "all"  -> "filled"

NewPaper(ratio) == [ratio |-> ratio, orderCounter |-> 0, active |-> <<>>, fills |-> <<>>]

\* A history that is full loses its oldest record first.
pushFill(fills, id, result) ==
  Append(IF fills # <<>> /\ Len(fills) >= MaxFillHistory THEN Tail(fills) ELSE fills,
         [id |-> id, result |-> result])

\* Mutant: what is swept stays among the active orders.
sweepKeepsOrder(p, o, t) ==
  IF t - o.at > MaxOrderAge THEN [p EXCEPT !.fills = pushFill(@, o.id, "cancelled")] ELSE p

\* An order that is too old goes and is recorded as cancelled with nothing filled.
sweepOrder(p, o, t) ==
  IF t - o.at > MaxOrderAge
  THEN [p EXCEPT !.active = RemoveFirst(@, o), !.fills = pushFill(@, o.id, "cancelled")]
  ELSE p

\* The active orders are swept in the order they came.
sweepStaleOrders(p, t) ==
  IF MaxOrderAge <= 0 THEN p
  ELSE FoldLeft(LAMBDA q, o : sweepOrder(q, o, t), p, p.active)

\* Every submitted order is active until it is cancelled or swept, whatever its result.
paperSubmit(p, t) ==
  LET swept == sweepStaleOrders(p, t)
      id == swept.orderCounter + 1
  IN  [swept EXCEPT !.orderCounter = id,
                    !.active = Append(@, [id |-> id, at |-> t]),
                    !.fills = pushFill(@, id, ResultOf(swept.ratio))]

paperIsActive(p, id) == \E o \in ToSet(p.active) : o.id = id

paperCancel(p, id) == [p EXCEPT !.active = RemoveFirstMatch(@, LAMBDA o : o.id = id)]
=============================================================================
