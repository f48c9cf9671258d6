---------------------------- MODULE OrderTracker ----------------------------
(***************************************************************************)
(* OrderRegistry and OrderTracker (src/order/order-registry.ts and          *)
(* order-tracker.ts): the map of tracked orders, and the bridge from        *)
(* exchange events to registry states, handle callbacks and awaited         *)
(* completions.  Every handler runs to completion on the event loop, so it  *)
(* is one action; the timers it arms fire later, in any order.              *)
(*                                                                         *)
(* A client order id is used once: after cleanup an order is "removed" and  *)
(* not "untracked" again.  Prices, fees and trade ids are left out.         *)
(***************************************************************************)
EXTENDS Naturals, Sequences, PendingStateMachine

CONSTANTS Orders,        \* client order ids
          Waiters,       \* promises returned by waitForOrder
          Markets,       \* condition ids
          MarketOf,      \* the market of each order
          OriginalSize,  \* the size of each order
          FillSizes,     \* the sizes partial-fill events carry
          MaxFilled,     \* bound: no further partial fill would exceed it
          HasTimeout,    \* whether defaultTimeoutMs is positive
          None           \* no waiter

ASSUME MarketOfAssumption == MarketOf \in [Orders -> Markets]
ASSUME SizesAssumption == /\ OriginalSize \in [Orders -> Nat]
                          /\ FillSizes \subseteq Nat
                          /\ MaxFilled \in Nat
ASSUME NoneAssumption == None \notin Waiters
ASSUME TimeoutAssumption == HasTimeout \in BOOLEAN

VARIABLES
  state,         \* registry: orders.get(o).state; "untracked"/"removed" when absent
  exchangeId,    \* registry: whether exchangeOrderId is set
  byMarketIndex, \* registry: the orders listed under each market
  terminalAt,    \* registry: "none", or the age of terminalAtMs against the TTL
  handles,       \* tracker: orders with a registered handle
  handleTimer,   \* tracker: timeoutIds, orders with an armed expiry timer
  completion,    \* tracker: pendingCompletions, the waiter that will be resolved
  filledAmounts, \* tracker: cumulative size of accepted fills (0 when absent)
  waiter,        \* each promise: the order it is for, its status and its timer
  announced      \* history: the final states onComplete was called with

registryVars == <<state, exchangeId, byMarketIndex, terminalAt>>
trackerVars == <<handles, handleTimer, completion, filledAmounts>>
vars == <<registryVars, trackerVars, waiter, announced>>

Promise == [order : Orders \cup {None}, timer : BOOLEAN,
            status : {"unused", "pending", "resolved", "rejected"},
            final : TerminalStates \cup {"none"}, totalFilled : Nat]

TypeOK ==
  /\ state \in [Orders -> PendingState \cup {"untracked", "removed"}]
  /\ exchangeId \in [Orders -> BOOLEAN]
  /\ byMarketIndex \in [Markets -> SUBSET Orders]
  /\ terminalAt \in [Orders -> {"none", "fresh", "old"}]
  /\ handles \in SUBSET Orders
  /\ handleTimer \in SUBSET Orders
  /\ completion \in [Orders -> Waiters \cup {None}]
  /\ filledAmounts \in [Orders -> Nat]
  /\ waiter \in [Waiters -> Promise]
  /\ announced \in [Orders -> Seq(PendingState)]

Init ==
  /\ state = [o \in Orders |-> "untracked"]
  /\ exchangeId = [o \in Orders |-> FALSE]
  /\ byMarketIndex = [m \in Markets |-> {}]
  /\ terminalAt = [o \in Orders |-> "none"]
  /\ handles = {}
  /\ handleTimer = {}
  /\ completion = [o \in Orders |-> None]
  /\ filledAmounts = [o \in Orders |-> 0]
  /\ waiter = [w \in Waiters |-> [order |-> None, timer |-> FALSE, status |-> "unused",
                                  final |-> "none", totalFilled |-> 0]]
  /\ announced = [o \in Orders |-> <<>>]

-----------------------------------------------------------------------------
(* The registry.                                                           *)

Tracked(o) == state[o] \in PendingState

\* Tracking an id twice throws; here ids are fresh.
track(o, s) ==
  /\ state[o] = "untracked"
  /\ state' = [state EXCEPT ![o] = s]
  /\ byMarketIndex' = [byMarketIndex EXCEPT ![MarketOf[o]] = @ \cup {o}]
  /\ UNCHANGED <<exchangeId, terminalAt>>

\* No transition is validated here, and a stamp once set is never cleared.
updateState(o, s) ==
  /\ state' = IF Tracked(o) THEN [state EXCEPT ![o] = s] ELSE state
  /\ terminalAt' = IF Tracked(o) /\ isTerminal(s)
                   THEN [terminalAt EXCEPT ![o] = "fresh"] ELSE terminalAt

Expirable == {o \in Orders : terminalAt[o] = "old"}

\* Mutant: the stamp of a forgotten order is kept.
cleanupKeepsStamp ==
  /\ Expirable # {}
  /\ state' = [o \in Orders |-> IF o \in Expirable THEN "removed" ELSE state[o]]
  /\ exchangeId' = [o \in Orders |-> exchangeId[o] /\ o \notin Expirable]
  /\ byMarketIndex' = [m \in Markets |-> byMarketIndex[m] \ Expirable]
  /\ UNCHANGED terminalAt

\* Keeps the orders already removed apart from those never tracked.
cleanup ==
  /\ Expirable # {}
  /\ state' = [o \in Orders |-> IF o \in Expirable THEN "removed" ELSE state[o]]
  /\ exchangeId' = [o \in Orders |-> exchangeId[o] /\ o \notin Expirable]
  /\ terminalAt' = [o \in Orders |-> IF o \in Expirable THEN "none" ELSE terminalAt[o]]
  /\ byMarketIndex' = [m \in Markets |-> byMarketIndex[m] \ Expirable]

-----------------------------------------------------------------------------
(* Completion of an order.                                                 *)

\* Mutant: the slot of the resolved promise is not deleted.
resolveKeepsSlot(o, s, filled) ==
  /\ waiter' = [w \in Waiters |->
       IF w = completion[o]
       THEN [waiter[w] EXCEPT !.status = "resolved", !.timer = FALSE,
                              !.final = s, !.totalFilled = filled]
       ELSE waiter[w]]
  /\ UNCHANGED completion

\* The promise that holds the completion is resolved and its timer cleared.
resolveIfPending(o, s, filled) ==
  /\ waiter' = [w \in Waiters |->
       IF w = completion[o]
       THEN [waiter[w] EXCEPT !.status = "resolved", !.timer = FALSE,
                              !.final = s, !.totalFilled = filled]
       ELSE waiter[w]]
  /\ completion' = [completion EXCEPT ![o] = None]

completeTerminal(o, s, filled) ==
  /\ announced' = IF o \in handles THEN [announced EXCEPT ![o] = Append(@, s)] ELSE announced
  /\ resolveIfPending(o, s, filled)
  /\ handleTimer' = handleTimer \ {o}

-----------------------------------------------------------------------------
(* Exchange events.                                                        *)

handleOpened(o) ==
  /\ Tracked(o) /\ canTransitionTo(state[o], "open")
  /\ exchangeId' = [exchangeId EXCEPT ![o] = TRUE]
  /\ updateState(o, "open")
  /\ UNCHANGED <<byMarketIndex, trackerVars, waiter, announced>>

\* Mutant: the cumulative fill is kept as if it were the remaining size.
partialFillSubtracts(o, size) ==
  /\ Tracked(o) /\ canTransitionTo(state[o], "partially_filled")
  /\ filledAmounts' = [filledAmounts EXCEPT ![o] = @ - size]
  /\ updateState(o, "partially_filled")
  /\ UNCHANGED <<exchangeId, byMarketIndex, handles, handleTimer, completion, waiter, announced>>

handlePartialFill(o, size) ==
  /\ Tracked(o) /\ canTransitionTo(state[o], "partially_filled")
  /\ filledAmounts' = [filledAmounts EXCEPT ![o] = @ + size]
  /\ updateState(o, "partially_filled")
  /\ UNCHANGED <<exchangeId, byMarketIndex, handles, handleTimer, completion, waiter, announced>>

\* Mutant: the full size is added to the partial fills already counted.
filledAddsSize(o) ==
  /\ Tracked(o) /\ canTransitionTo(state[o], "filled")
  /\ filledAmounts' = [filledAmounts EXCEPT ![o] = @ + OriginalSize[o]]
  /\ updateState(o, "filled")
  /\ completeTerminal(o, "filled", filledAmounts[o] + OriginalSize[o])
  /\ UNCHANGED <<exchangeId, byMarketIndex, handles>>

handleFilled(o) ==
  /\ Tracked(o) /\ canTransitionTo(state[o], "filled")
  /\ filledAmounts' = [filledAmounts EXCEPT ![o] = OriginalSize[o]]
  /\ updateState(o, "filled")
  /\ completeTerminal(o, "filled", OriginalSize[o])
  /\ UNCHANGED <<exchangeId, byMarketIndex, handles>>

\* Mutant: a late cancellation is applied to an order already over.
cancelledUnguarded(o) ==
  /\ Tracked(o)
  /\ updateState(o, "cancelled")
  /\ completeTerminal(o, "cancelled", filledAmounts[o])
  /\ UNCHANGED <<exchangeId, byMarketIndex, handles, filledAmounts>>

\* handleRejected is handleCancelled with another reason.
handleCancelled(o) ==
  /\ Tracked(o) /\ canTransitionTo(state[o], "cancelled")
  /\ updateState(o, "cancelled")
  /\ completeTerminal(o, "cancelled", filledAmounts[o])
  /\ UNCHANGED <<exchangeId, byMarketIndex, handles, filledAmounts>>

\* Mutant: a partially filled order expires too.
expiredFromAnyLive(o) ==
  /\ Tracked(o) /\ ~isTerminal(state[o])
  /\ updateState(o, "expired")
  /\ completeTerminal(o, "expired", filledAmounts[o])
  /\ UNCHANGED <<exchangeId, byMarketIndex, handles, filledAmounts>>

handleExpired(o) ==
  /\ Tracked(o) /\ canTransitionTo(state[o], "expired")
  /\ updateState(o, "expired")
  /\ completeTerminal(o, "expired", filledAmounts[o])
  /\ UNCHANGED <<exchangeId, byMarketIndex, handles, filledAmounts>>

-----------------------------------------------------------------------------
(* Handles, waiters and their timers.                                      *)

\* A handle without a timeout leaves an earlier timer alone.
registerHandle(o, hasTimeout) ==
  /\ handles' = handles \cup {o}
  /\ handleTimer' = IF hasTimeout THEN handleTimer \cup {o} ELSE handleTimer
  /\ UNCHANGED <<registryVars, completion, filledAmounts, waiter, announced>>

\* The timer expires the order where the table allows it and is gone either way.
handleTimerFires(o) ==
  /\ o \in handleTimer
  /\ \/ handleExpired(o)
     \/ /\ ~(Tracked(o) /\ canTransitionTo(state[o], "expired"))
        /\ handleTimer' = handleTimer \ {o}
        /\ UNCHANGED <<registryVars, handles, completion, filledAmounts, waiter, announced>>

\* Awaiting an unknown order rejects, a finished one resolves, and a live one
\* takes the completion slot over and disarms the handle's expiry timer.  Its promise has a
\* timer of its own only with a positive default timeout.
waitForOrder(w, o) ==
  /\ waiter[w].status = "unused"
  /\ \/ /\ ~Tracked(o)
        /\ waiter' = [waiter EXCEPT ![w] = [@ EXCEPT !.order = o, !.status = "rejected"]]
        /\ UNCHANGED <<handleTimer, completion>>
     \/ /\ Tracked(o) /\ isTerminal(state[o])
        /\ waiter' = [waiter EXCEPT ![w] = [@ EXCEPT !.order = o, !.status = "resolved",
                                     !.final = state[o], !.totalFilled = filledAmounts[o]]]
        /\ UNCHANGED <<handleTimer, completion>>
     \/ /\ Tracked(o) /\ ~isTerminal(state[o])
        /\ waiter' = [waiter EXCEPT ![w] = [@ EXCEPT !.order = o, !.status = "pending",
                                     !.timer = HasTimeout]]
        /\ handleTimer' = handleTimer \ {o}
        /\ completion' = [completion EXCEPT ![o] = w]
  /\ UNCHANGED <<registryVars, handles, filledAmounts, announced>>

\* The timer rejects its own promise, on whichever completion it finds.
waiterTimerFires(w) ==
  /\ waiter[w].timer
  /\ LET o == waiter[w].order IN
       \/ /\ completion[o] # None
          /\ completion' = [completion EXCEPT ![o] = None]
          /\ waiter' = [waiter EXCEPT ![w] = [@ EXCEPT !.timer = FALSE, !.status = "rejected"]]
       \/ /\ completion[o] = None
          /\ waiter' = [waiter EXCEPT ![w] = [@ EXCEPT !.timer = FALSE]]
          /\ UNCHANGED completion
  /\ UNCHANGED <<registryVars, handles, handleTimer, filledAmounts, announced>>

\* Mutant: pending promises are dropped without being rejected.
disposeWithoutReject ==
  /\ handleTimer' = {}
  /\ waiter' = [w \in Waiters |-> [waiter[w] EXCEPT !.timer = FALSE]]
  /\ completion' = [o \in Orders |-> None]
  /\ UNCHANGED <<registryVars, handles, filledAmounts, announced>>

dispose ==
  /\ handleTimer' = {}
  /\ waiter' = [w \in Waiters |->
       IF \E o \in Orders : completion[o] = w
       THEN [waiter[w] EXCEPT !.status = "rejected", !.timer = FALSE]
       ELSE waiter[w]]
  /\ completion' = [o \in Orders |-> None]
  /\ UNCHANGED <<registryVars, handles, filledAmounts, announced>>

-----------------------------------------------------------------------------
(* The environment: the caller tracks orders and moves them to submitted,   *)
(* the exchange sends any event at any time, and clocks and timers run.     *)

Track(o) == /\ \E s \in {"created", "submitted", "open"} : track(o, s)
            /\ UNCHANGED <<trackerVars, waiter, announced>>

MarkSubmitted(o) == /\ state[o] = "created"
                    /\ updateState(o, "submitted")
                    /\ UNCHANGED <<exchangeId, byMarketIndex, trackerVars, waiter, announced>>

Age(o) == /\ terminalAt[o] = "fresh"
          /\ terminalAt' = [terminalAt EXCEPT ![o] = "old"]
          /\ UNCHANGED <<state, exchangeId, byMarketIndex, trackerVars, waiter, announced>>

Cleanup == cleanup /\ UNCHANGED <<trackerVars, waiter, announced>>

PartialFill(o) == \E size \in FillSizes : /\ filledAmounts[o] + size <= MaxFilled
                                          /\ handlePartialFill(o, size)

ExchangeEvent(o) == \/ handleOpened(o)
                    \/ PartialFill(o)
                    \/ handleFilled(o)
                    \/ handleCancelled(o)
                    \/ handleExpired(o)

Next ==
  \/ \E o \in Orders :
       \/ Track(o)
       \/ MarkSubmitted(o)
       \/ ExchangeEvent(o)
       \/ \E hasTimeout \in BOOLEAN : registerHandle(o, hasTimeout)
       \/ handleTimerFires(o)
       \/ Age(o)
       \/ \E w \in Waiters : waitForOrder(w, o)
  \/ \E w \in Waiters : waiterTimerFires(w)
  \/ Cleanup
  \/ dispose

Spec == Init /\ [][Next]_vars

-----------------------------------------------------------------------------
(* Properties.                                                             *)

\* The completion slot of an order always holds a promise that still waits for that
\* order, with its own timer running where there is one, and only while the order is live:
\* no handler leaves a slot behind for a promise already settled or an order already over.
CompletionIsLive ==
  \A o \in Orders : completion[o] # None =>
    /\ Tracked(o) /\ ~isTerminal(state[o])
    /\ waiter[completion[o]].order = o
    /\ waiter[completion[o]].status = "pending"
    /\ waiter[completion[o]].timer = HasTimeout

Resolved(o) == {w \in Waiters : waiter[w].order = o /\ waiter[w].status = "resolved"}

\* Everyone who learns how an order ended learns the same ending: the onComplete
\* callback, the promise resolved with it and the promises asked for afterwards agree
\* on the final state and on the cumulative fill, whatever events come late.
OneOutcome ==
  \A o \in Orders :
    /\ \A w \in Resolved(o) : /\ state[o] \in {waiter[w].final, "removed"}
                              /\ waiter[w].totalFilled = filledAmounts[o]
                              /\ \A i \in DOMAIN announced[o] : announced[o][i] = waiter[w].final
    /\ \A i \in DOMAIN announced[o] : state[o] \in {announced[o][i], "removed"}

\* Cleanup forgets an order only after it ended, and forgets nothing it still lists:
\* the stamp cleanup trusts is present exactly on the orders that are terminal, and the
\* per-market lists hold exactly the tracked orders.
RegistryConsistent ==
  /\ \A o \in Orders : terminalAt[o] # "none" <=> state[o] \in TerminalStates
  /\ \A m \in Markets : byMarketIndex[m] = {o \in Orders : Tracked(o) /\ MarketOf[o] = m}

Lifecycle == INSTANCE OrderLifecycle

\* The registry as the tracker drives it implements the lifecycle a consumer relies on:
\* onComplete fires in the step that ends the order and never again.
ImplementsLifecycle == Lifecycle!Spec
=============================================================================
