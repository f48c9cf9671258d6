-------------------------- MODULE OrderFlowProofs ---------------------------
(***************************************************************************)
(* Proofs about the registry of orders, for any sets of orders, promises,    *)
(* markets and fill sizes.                                                  *)
(*                                                                         *)
(* First OrderTracker by itself: type correctness, its three safety           *)
(* invariants and the implementation of OrderLifecycle.  Its handlers fall    *)
(* into two kinds, those that move a live order to another live state (Moves) *)
(* and those that end it (Ends); the proofs treat each kind once.            *)
(*                                                                         *)
(* Then OrderFlow, with the exchange: what the registry shows of an order     *)
(* agrees with the exchange, with replies, feed messages, cancels and timers  *)
(* in any order, messages lost and calls that fail after the exchange has     *)
(* acted on them.                                                           *)
(***************************************************************************)
EXTENDS OrderFlow, SequenceTheorems, TLAPS

\* A handler that moves a live order on; its callers differ in exchangeId and filledAmounts.
Moves(o, s) ==
  /\ Tracked(o) /\ canTransitionTo(state[o], s) /\ ~isTerminal(s)
  /\ state' = [state EXCEPT ![o] = s]
  /\ exchangeId' \in [Orders -> BOOLEAN]
  /\ filledAmounts' \in [Orders -> Nat]
  /\ \A p \in Orders \ {o} : filledAmounts'[p] = filledAmounts[p]
  /\ UNCHANGED <<terminalAt, byMarketIndex, handles, handleTimer, completion, waiter, announced>>

\* A handler that ends a live order with the cumulative fill f.
Ends(o, s, f) ==
  /\ Tracked(o) /\ canTransitionTo(state[o], s) /\ isTerminal(s)
  /\ state' = [state EXCEPT ![o] = s]
  /\ terminalAt' = [terminalAt EXCEPT ![o] = "fresh"]
  /\ filledAmounts' = [filledAmounts EXCEPT ![o] = f]
  /\ completeTerminal(o, s, f)
  /\ UNCHANGED <<exchangeId, byMarketIndex, handles>>

\* A timer that finds its order over, or no longer able to expire.
TimerLapses(o) ==
  /\ handleTimer' = handleTimer \ {o}
  /\ UNCHANGED <<registryVars, handles, completion, filledAmounts, waiter, announced>>

\* An order that can move is live, and a live order is tracked.
LEMMA LiveStates ==
  ASSUME NEW from \in PendingState, NEW to, canTransitionTo(from, to)
  PROVE  to \in PendingState /\ ~isTerminal(from)
BY DEF PendingState, TerminalStates, isTerminal, ValidTransitions, canTransitionTo

\* The handlers of the exchange's events, with a fill of any size.
Handler(o) == \/ handleOpened(o)
              \/ \E size \in Nat : handlePartialFill(o, size)
              \/ handleFilled(o) \/ handleCancelled(o) \/ handleExpired(o)

\* An exchange event moves one order along the table or ends it, and does nothing else.
LEMMA MovesOrEnds ==
  ASSUME TypeOK, NEW o \in Orders,
         \/ MarkSubmitted(o) \/ Handler(o) \/ handleTimerFires(o)
  PROVE  \/ \E s \in PendingState : Moves(o, s)
         \/ \E s \in PendingState, f \in Nat : Ends(o, s, f)
         \/ TimerLapses(o)
<1>1. CASE MarkSubmitted(o)
  <2>1. Moves(o, "submitted")
    BY <1>1 DEF MarkSubmitted, Moves, updateState, Tracked, TypeOK, PendingState, TerminalStates,
                isTerminal, ValidTransitions, canTransitionTo, trackerVars
  <2>2. QED BY <2>1 DEF PendingState
<1>2. CASE handleOpened(o)
  <2>1. Moves(o, "open")
    BY <1>2 DEF handleOpened, Moves, updateState, Tracked, TypeOK, TerminalStates,
                isTerminal, trackerVars
  <2>2. QED BY <2>1 DEF PendingState
<1>3. CASE \E size \in Nat : handlePartialFill(o, size)
  <2>1. Moves(o, "partially_filled")
    BY <1>3 DEF handlePartialFill, Moves, updateState, Tracked, TypeOK, TerminalStates, isTerminal
  <2>2. QED BY <2>1 DEF PendingState
<1>4. CASE handleFilled(o)
  <2>1. Ends(o, "filled", OriginalSize[o])
    BY <1>4 DEF handleFilled, Ends, updateState, TerminalStates, isTerminal
  <2>2. QED BY <2>1, SizesAssumption DEF PendingState
<1>5. CASE handleCancelled(o)
  <2>1. Ends(o, "cancelled", filledAmounts[o])
    BY <1>5 DEF handleCancelled, Ends, updateState, TerminalStates, isTerminal, TypeOK
  <2>2. QED BY <2>1 DEF PendingState, TypeOK
<1>6. ASSUME handleExpired(o) PROVE \E s \in PendingState, f \in Nat : Ends(o, s, f)
  <2>1. Ends(o, "expired", filledAmounts[o])
    BY <1>6 DEF handleExpired, Ends, updateState, TerminalStates, isTerminal, TypeOK
  <2>2. QED BY <2>1 DEF PendingState, TypeOK
<1>7. CASE handleTimerFires(o)
  BY <1>6, <1>7 DEF handleTimerFires, TimerLapses
<1>8. QED BY <1>1, <1>2, <1>3, <1>4, <1>5, <1>6, <1>7 DEF Handler

\* The kinds of steps, each of which the proofs below treat once.
Steps == \/ \E o \in Orders, s \in PendingState : Moves(o, s)
         \/ \E o \in Orders, s \in PendingState, f \in Nat : Ends(o, s, f)
         \/ \E o \in Orders : TimerLapses(o) \/ Track(o) \/ Age(o)
         \/ \E o \in Orders, hasTimeout \in BOOLEAN : registerHandle(o, hasTimeout)
         \/ \E w \in Waiters, o \in Orders : waitForOrder(w, o)
         \/ \E w \in Waiters : waiterTimerFires(w)
         \/ Cleanup \/ dispose \/ UNCHANGED vars

\* Every step of the specification is of one of these kinds.
LEMMA StepKinds ==
  ASSUME TypeOK, [Next]_vars
  PROVE  Steps
<1>1. \A o \in Orders : ExchangeEvent(o) => Handler(o)
  BY SizesAssumption DEF ExchangeEvent, PartialFill, Handler
<1>2. QED
  BY <1>1, MovesOrEnds DEF Next, Steps

-----------------------------------------------------------------------------
(* Type correctness.                                                       *)

\* Every kind of step keeps the declared shape.
LEMMA TypeStep ==
  ASSUME TypeOK, Steps
  PROVE  TypeOK'
<1>1. ASSUME NEW o \in Orders, NEW s \in PendingState, Moves(o, s) PROVE TypeOK'
  BY <1>1 DEF Moves, TypeOK
<1>2. ASSUME NEW o \in Orders, NEW s \in PendingState, NEW f \in Nat, Ends(o, s, f)
      PROVE  TypeOK'
  <2>1. s \in TerminalStates
    BY <1>2 DEF Ends, isTerminal
  <2>2. waiter' \in [Waiters -> Promise]
    <3>1. ASSUME NEW v \in Waiters
          PROVE  [waiter[v] EXCEPT !.status = "resolved", !.timer = FALSE,
                                   !.final = s, !.totalFilled = f] \in Promise
      BY <2>1 DEF TypeOK, Promise
    <3>2. QED
      BY <1>2, <3>1 DEF Ends, completeTerminal, resolveIfPending, TypeOK
  <2>3. announced' \in [Orders -> Seq(PendingState)]
    BY <1>2 DEF Ends, completeTerminal, TypeOK
  <2>4. completion' \in [Orders -> Waiters \cup {None}]
    BY <1>2 DEF Ends, completeTerminal, resolveIfPending, TypeOK
  <2>5. QED
    BY <1>2, <2>2, <2>3, <2>4 DEF Ends, completeTerminal, TypeOK
<1>3. ASSUME NEW o \in Orders, TimerLapses(o) PROVE TypeOK'
  BY <1>3 DEF TimerLapses, registryVars, TypeOK
<1>4. ASSUME NEW o \in Orders, Track(o) PROVE TypeOK'
  <2>1. state' \in [Orders -> PendingState \cup {"untracked", "removed"}]
    BY <1>4 DEF Track, track, TypeOK, PendingState
  <2>2. byMarketIndex' \in [Markets -> SUBSET Orders]
    <3>1. MarketOf[o] \in Markets
      BY MarketOfAssumption
    <3>2. byMarketIndex' = [byMarketIndex EXCEPT ![MarketOf[o]] = @ \cup {o}]
      BY <1>4 DEF Track, track
    <3>3. QED
      BY <3>1, <3>2 DEF TypeOK
  <2>3. QED
    BY <1>4, <2>1, <2>2 DEF Track, track, trackerVars, TypeOK
<1>5. ASSUME NEW o \in Orders, Age(o) PROVE TypeOK'
  BY <1>5 DEF Age, trackerVars, TypeOK
<1>6. ASSUME NEW o \in Orders, NEW hasTimeout \in BOOLEAN, registerHandle(o, hasTimeout)
      PROVE  TypeOK'
  BY <1>6 DEF registerHandle, registryVars, TypeOK
<1>7. ASSUME NEW w \in Waiters, NEW o \in Orders, waitForOrder(w, o) PROVE TypeOK'
  <2>1. waiter' \in [Waiters -> Promise]
    <3>1. [waiter[w] EXCEPT !.order = o, !.status = "rejected"] \in Promise
      BY DEF TypeOK, Promise
    <3>2. ASSUME isTerminal(state[o])
          PROVE  [waiter[w] EXCEPT !.order = o, !.status = "resolved", !.final = state[o],
                                   !.totalFilled = filledAmounts[o]] \in Promise
      BY <3>2 DEF isTerminal, TypeOK, Promise
    <3>3. [waiter[w] EXCEPT !.order = o, !.status = "pending", !.timer = HasTimeout] \in Promise
      BY TimeoutAssumption DEF TypeOK, Promise
    <3>4. QED
      BY <1>7, <3>1, <3>2, <3>3 DEF waitForOrder, TypeOK
  <2>2. \/ completion' = completion /\ handleTimer' = handleTimer
        \/ completion' = [completion EXCEPT ![o] = w] /\ handleTimer' = handleTimer \ {o}
    BY <1>7 DEF waitForOrder
  <2>3. QED
    <3>1. completion' \in [Orders -> Waiters \cup {None}] /\ handleTimer' \in SUBSET Orders
      BY <2>2 DEF TypeOK
    <3>2. QED
      BY <1>7, <2>1, <3>1 DEF waitForOrder, registryVars, TypeOK
<1>8. ASSUME NEW w \in Waiters, waiterTimerFires(w) PROVE TypeOK'
  <2>1. waiter' \in [Waiters -> Promise]
    <3>1. [waiter[w] EXCEPT !.timer = FALSE] \in Promise
      BY DEF TypeOK, Promise
    <3>2. [waiter[w] EXCEPT !.timer = FALSE, !.status = "rejected"] \in Promise
      BY DEF TypeOK, Promise
    <3>3. QED
      BY <1>8, <3>1, <3>2 DEF waiterTimerFires, TypeOK
  <2>2. completion' \in [Orders -> Waiters \cup {None}]
    BY <1>8 DEF waiterTimerFires, TypeOK
  <2>3. QED
    BY <1>8, <2>1, <2>2 DEF waiterTimerFires, registryVars, TypeOK
<1>9. CASE Cleanup
  BY <1>9 DEF Cleanup, cleanup, trackerVars, TypeOK
<1>10. CASE dispose
  <2>1. waiter' \in [Waiters -> Promise]
    <3>1. ASSUME NEW v \in Waiters
          PROVE  [waiter[v] EXCEPT !.status = "rejected", !.timer = FALSE] \in Promise
      BY DEF TypeOK, Promise
    <3>2. QED
      BY <1>10, <3>1 DEF dispose, TypeOK
  <2>2. QED
    BY <1>10, <2>1 DEF dispose, registryVars, TypeOK
<1>11. CASE UNCHANGED vars
  BY <1>11 DEF vars, registryVars, trackerVars, TypeOK
<1>12. QED
  BY <1>1, <1>2, <1>3, <1>4, <1>5, <1>6, <1>7, <1>8, <1>9, <1>10, <1>11 DEF Steps

\* Every reachable state of the tracker and its registry has the declared shape, whatever
\* sizes the partial fills carry.
THEOREM TypeCorrect == Spec => []TypeOK
<1>1. Init => TypeOK
  BY DEF Init, TypeOK, Promise, PendingState
<1>2. TypeOK /\ [Next]_vars => TypeOK'
  BY TypeStep, StepKinds
<1>3. QED
  BY <1>1, <1>2, PTL DEF Spec

-----------------------------------------------------------------------------
(* The completion slots.                                                   *)

\* The promises are disjoint: the slots of two orders never hold the same one, since a
\* promise knows its order.  So settling or disarming one leaves the other slots live.
LEMMA CompletionStep ==
  ASSUME TypeOK, RegistryConsistent, CompletionIsLive, [Next]_vars
  PROVE  CompletionIsLive'
<1> SUFFICES ASSUME NEW p \in Orders, completion'[p] # None
             PROVE  /\ Tracked(p)' /\ ~isTerminal(state'[p])
                    /\ waiter'[completion'[p]].order = p
                    /\ waiter'[completion'[p]].status = "pending"
                    /\ waiter'[completion'[p]].timer = HasTimeout
  BY DEF CompletionIsLive
<1>1. ASSUME NEW o \in Orders, NEW s \in PendingState, Moves(o, s)
      PROVE  /\ Tracked(p)' /\ ~isTerminal(state'[p])
             /\ waiter' = waiter /\ completion' = completion
  BY <1>1 DEF Moves, CompletionIsLive, Tracked, TypeOK
<1>2. ASSUME NEW o \in Orders, NEW s \in PendingState, NEW f \in Nat, Ends(o, s, f)
      PROVE  /\ state'[p] = state[p] /\ completion'[p] = completion[p]
             /\ waiter'[completion[p]] = waiter[completion[p]]
  <2>1. p # o /\ completion'[p] = completion[p] /\ state'[p] = state[p]
    BY <1>2 DEF Ends, completeTerminal, resolveIfPending, TypeOK
  <2>2. completion[p] \in Waiters /\ completion[p] # completion[o]
    <3>1. completion[p] # None /\ completion[p] \in Waiters
      BY <2>1 DEF TypeOK
    <3>2. CASE completion[o] = completion[p]
      BY <2>1, <3>1, <3>2 DEF CompletionIsLive
    <3>3. QED
      BY <3>1, <3>2
  <2>3. QED
    BY <1>2, <2>1, <2>2 DEF Ends, completeTerminal, resolveIfPending
<1>3. ASSUME NEW w \in Waiters, NEW o \in Orders, waitForOrder(w, o)
      PROVE  /\ state'[p] = state[p]
             /\ \/ /\ completion'[p] = completion[p]
                   /\ waiter'[completion[p]] = waiter[completion[p]]
                \/ /\ p = o /\ Tracked(p) /\ ~isTerminal(state[p]) /\ completion'[p] = w
                   /\ waiter'[w].order = p /\ waiter'[w].status = "pending"
                   /\ waiter'[w].timer = HasTimeout
  <2>1. state' = state /\ waiter[w] \in Promise
    BY <1>3 DEF waitForOrder, registryVars, TypeOK
  <2>2. \A v \in Waiters \ {w} : waiter'[v] = waiter[v]
    BY <1>3 DEF waitForOrder, TypeOK
  <2>3. CASE completion'[p] = completion[p]
    <3>1. completion[p] \in Waiters /\ completion[p] # w
      BY <1>3, <2>3 DEF waitForOrder, CompletionIsLive, TypeOK
    <3>2. QED
      BY <2>1, <2>2, <2>3, <3>1
  <2>4. CASE completion'[p] # completion[p]
    <3>1. /\ p = o /\ completion'[p] = w /\ Tracked(p) /\ ~isTerminal(state[p])
          /\ waiter' = [waiter EXCEPT ![w] = [@ EXCEPT !.order = o, !.status = "pending",
                                                       !.timer = HasTimeout]]
      BY <1>3, <2>4 DEF waitForOrder, TypeOK
    <3>2. QED
      BY <2>1, <3>1 DEF TypeOK, Promise
  <2>5. QED
    BY <2>3, <2>4
<1>4. ASSUME NEW w \in Waiters, waiterTimerFires(w)
      PROVE  /\ state'[p] = state[p] /\ completion'[p] = completion[p]
             /\ waiter'[completion[p]] = waiter[completion[p]]
  <2>1. state' = state /\ completion'[p] = completion[p] /\ completion[p] \in Waiters
    BY <1>4 DEF waiterTimerFires, registryVars, TypeOK
  <2>2. completion[p] # w
    BY <1>4, <2>1 DEF waiterTimerFires, CompletionIsLive, TypeOK
  <2>3. QED
    BY <1>4, <2>1, <2>2 DEF waiterTimerFires, TypeOK
<1>5. ASSUME \/ \E o \in Orders : TimerLapses(o) \/ Track(o) \/ Age(o)
             \/ \E o \in Orders, hasTimeout \in BOOLEAN : registerHandle(o, hasTimeout)
             \/ UNCHANGED vars
      PROVE  /\ waiter' = waiter /\ completion' = completion
             /\ Tracked(p) => state'[p] = state[p]
  BY <1>5 DEF TimerLapses, Track, track, Age, registerHandle, registryVars, trackerVars, vars,
              Tracked, TypeOK, PendingState
<1>6. ASSUME Cleanup
      PROVE  /\ waiter' = waiter /\ completion' = completion
             /\ completion[p] # None => state'[p] = state[p]
  BY <1>6 DEF Cleanup, cleanup, Expirable, trackerVars, RegistryConsistent, CompletionIsLive,
              isTerminal, TypeOK
<1>7. CASE dispose
  BY <1>7 DEF dispose
<1>8. QED
  BY <1>1, <1>2, <1>3, <1>4, <1>5, <1>6, <1>7, StepKinds DEF Steps, CompletionIsLive, Tracked, TypeOK

-----------------------------------------------------------------------------
(* The registry.                                                           *)

\* A step that moves, ends or forgets orders stamps and unlists exactly those it ends or
\* forgets.
LEMMA RegistryStep ==
  ASSUME TypeOK, RegistryConsistent, [Next]_vars
  PROVE  RegistryConsistent'
<1> DEFINE SameOrders == /\ \A p \in Orders : state'[p] \in PendingState <=> state[p] \in PendingState
                         /\ byMarketIndex' = byMarketIndex
           SameStamps == \A p \in Orders : /\ terminalAt'[p] # "none" <=> terminalAt[p] # "none"
                                           /\ state'[p] \in TerminalStates <=> state[p] \in TerminalStates
<1>1. ASSUME SameOrders, SameStamps PROVE RegistryConsistent'
  BY <1>1 DEF RegistryConsistent, Tracked
<1>2. ASSUME NEW o \in Orders, NEW s \in PendingState, Moves(o, s) PROVE RegistryConsistent'
  <2>1. ~isTerminal(state[o]) /\ ~isTerminal(s) /\ Tracked(o)
    BY <1>2, LiveStates DEF Moves, Tracked
  <2>2. SameOrders /\ SameStamps
    BY <1>2, <2>1 DEF Moves, Tracked, isTerminal, TypeOK
  <2>3. QED
    BY <1>1, <2>2
<1>3. ASSUME NEW o \in Orders, NEW s \in PendingState, NEW f \in Nat, Ends(o, s, f)
      PROVE  RegistryConsistent'
  <2>1. SameOrders
    BY <1>3 DEF Ends, Tracked, TypeOK
  <2>2. \A p \in Orders : terminalAt'[p] # "none" <=> state'[p] \in TerminalStates
    BY <1>3 DEF Ends, isTerminal, RegistryConsistent, TypeOK
  <2>3. QED
    BY <2>1, <2>2 DEF RegistryConsistent, Tracked
<1>4. ASSUME NEW o \in Orders, Track(o) PROVE RegistryConsistent'
  <2> PICK s \in {"created", "submitted", "open"} : track(o, s)
    BY <1>4 DEF Track
  <2>1. /\ state[o] = "untracked" /\ s \in PendingState /\ s \notin TerminalStates
        /\ state' = [state EXCEPT ![o] = s] /\ terminalAt' = terminalAt
        /\ byMarketIndex' = [byMarketIndex EXCEPT ![MarketOf[o]] = @ \cup {o}]
        /\ MarketOf[o] \in Markets
    BY MarketOfAssumption DEF track, PendingState, TerminalStates
  <2>2. SameStamps
    BY <2>1 DEF TypeOK, TerminalStates
  <2>3. \A m \in Markets : byMarketIndex'[m] = {p \in Orders : Tracked(p)' /\ MarketOf[p] = m}
    BY <2>1 DEF Tracked, RegistryConsistent, TypeOK, PendingState
  <2>4. QED
    BY <2>2, <2>3 DEF RegistryConsistent
<1>5. ASSUME NEW o \in Orders, Age(o) PROVE RegistryConsistent'
  <2>1. SameOrders /\ SameStamps
    BY <1>5 DEF Age, TypeOK
  <2>2. QED
    BY <1>1, <2>1
<1>6. CASE Cleanup
  <2>1. \A p \in Orders : /\ p \in Expirable => /\ state[p] \in TerminalStates
                                               /\ state'[p] = "removed" /\ terminalAt'[p] = "none"
                          /\ p \notin Expirable => /\ state'[p] = state[p]
                                                  /\ terminalAt'[p] = terminalAt[p]
    BY <1>6 DEF Cleanup, cleanup, Expirable, RegistryConsistent
  <2>2. \A m \in Markets : byMarketIndex'[m] = byMarketIndex[m] \ Expirable
    BY <1>6 DEF Cleanup, cleanup
  <2>3. "removed" \notin PendingState /\ "removed" \notin TerminalStates
    BY DEF PendingState, TerminalStates
  <2>4. \A p \in Orders : Tracked(p)' <=> Tracked(p) /\ p \notin Expirable
    BY <2>1, <2>3 DEF Tracked
  <2>5. \A m \in Markets : byMarketIndex'[m] = {p \in Orders : Tracked(p)' /\ MarketOf[p] = m}
    BY <2>2, <2>4 DEF RegistryConsistent
  <2>6. \A p \in Orders : terminalAt'[p] # "none" <=> state'[p] \in TerminalStates
    BY <2>1, <2>3 DEF RegistryConsistent
  <2>7. QED
    BY <2>5, <2>6 DEF RegistryConsistent
<1>7. ASSUME \/ \E o \in Orders : TimerLapses(o)
             \/ \E o \in Orders, hasTimeout \in BOOLEAN : registerHandle(o, hasTimeout)
             \/ \E w \in Waiters, o \in Orders : waitForOrder(w, o)
             \/ \E w \in Waiters : waiterTimerFires(w)
             \/ dispose \/ UNCHANGED vars
      PROVE  RegistryConsistent'
  <2>1. UNCHANGED registryVars
    BY <1>7 DEF TimerLapses, registerHandle, waitForOrder, waiterTimerFires, dispose, vars
  <2>2. QED
    BY <2>1 DEF registryVars, RegistryConsistent, Tracked
<1>8. QED
  BY <1>2, <1>3, <1>4, <1>5, <1>6, <1>7, StepKinds DEF Steps

-----------------------------------------------------------------------------
(* The outcome of an order.                                                *)

\* Only terminal states are ever announced here; with the other conjuncts this makes
\* OneOutcome inductive.
AnnouncedTerminal == \A o \in Orders : \A i \in DOMAIN announced[o] : isTerminal(announced[o][i])

\* Nobody has learned anything of an order that has not ended.
LEMMA NothingLearned ==
  ASSUME TypeOK, OneOutcome, AnnouncedTerminal, NEW p \in Orders,
         state[p] \notin TerminalStates \cup {"removed"}
  PROVE  Resolved(p) = {} /\ announced[p] = <<>>
<1>1. ASSUME NEW w \in Resolved(p) PROVE FALSE
  <2>1. waiter[w].final \in TerminalStates \cup {"none"} /\ state[p] = waiter[w].final
    BY <1>1 DEF Resolved, OneOutcome, TypeOK, Promise
  <2>2. QED
    BY <2>1 DEF TypeOK, PendingState
<1>2. \A i \in DOMAIN announced[p] : FALSE
  BY DEF OneOutcome, AnnouncedTerminal, isTerminal
<1>3. announced[p] \in Seq(PendingState)
  BY DEF TypeOK
<1>4. Len(announced[p]) = 0
  <2>1. Len(announced[p]) \in Nat /\ DOMAIN announced[p] = 1..Len(announced[p])
    BY <1>3
  <2>2. 1 \notin 1..Len(announced[p])
    BY <1>2, <2>1
  <2>3. QED
    BY <2>1, <2>2
<1>5. QED
  BY <1>1, <1>3, <1>4

\* What was learned of an order stays true: a step that ends an order finds nothing learned
\* of it yet, and no step changes the state or the fill of an order that has ended.
LEMMA OutcomeStep ==
  ASSUME TypeOK, CompletionIsLive, RegistryConsistent, OneOutcome, AnnouncedTerminal, [Next]_vars
  PROVE  OneOutcome' /\ AnnouncedTerminal'
<1> DEFINE Outcome(p) == /\ \A w \in Resolved(p) :
                              /\ state[p] \in {waiter[w].final, "removed"}
                              /\ waiter[w].totalFilled = filledAmounts[p]
                              /\ \A i \in DOMAIN announced[p] : announced[p][i] = waiter[w].final
                         /\ \A i \in DOMAIN announced[p] : /\ state[p] \in {announced[p][i], "removed"}
                                                           /\ isTerminal(announced[p][i])
           NoNews(p) == /\ announced'[p] = announced[p] /\ filledAmounts'[p] = filledAmounts[p]
                        /\ \A w \in Resolved(p)' : /\ w \in Resolved(p)
                                                   /\ waiter'[w].final = waiter[w].final
                                                   /\ waiter'[w].totalFilled = waiter[w].totalFilled
<1> SUFFICES ASSUME NEW p \in Orders PROVE Outcome(p)'
  BY DEF OneOutcome, AnnouncedTerminal
<1>1. Outcome(p)
  BY DEF OneOutcome, AnnouncedTerminal
<1>2. ASSUME NoNews(p), state'[p] \in {state[p], "removed"} PROVE Outcome(p)'
  BY <1>1, <1>2
<1>3. ASSUME Resolved(p)' = {}, announced'[p] = <<>> PROVE Outcome(p)'
  BY <1>3
<1>4. ASSUME NEW o \in Orders, NEW s \in PendingState, Moves(o, s) PROVE Outcome(p)'
  <2>1. CASE p = o
    <3>1. state[p] \notin TerminalStates \cup {"removed"}
      BY <1>4, <2>1, LiveStates DEF Moves, Tracked, isTerminal, PendingState
    <3>2. Resolved(p)' = {} /\ announced'[p] = <<>>
      BY <1>4, <3>1, NothingLearned DEF Moves, Resolved
    <3>3. QED
      BY <1>3, <3>2
  <2>2. CASE p # o
    <3>1. NoNews(p) /\ state'[p] = state[p]
      BY <1>4, <2>2 DEF Moves, Resolved, TypeOK
    <3>2. QED
      BY <1>2, <3>1
  <2>3. QED
    BY <2>1, <2>2
<1>5. ASSUME NEW o \in Orders, NEW s \in PendingState, NEW f \in Nat, Ends(o, s, f)
      PROVE  Outcome(p)'
  <2>1. ASSUME NEW w \in Waiters
        PROVE  waiter'[w] = IF w = completion[o]
                            THEN [waiter[w] EXCEPT !.status = "resolved", !.timer = FALSE,
                                                   !.final = s, !.totalFilled = f]
                            ELSE waiter[w]
    BY <1>5 DEF Ends, completeTerminal, resolveIfPending
  <2>2. CASE p # o
    <3>1. ASSUME NEW w \in Resolved(p)' PROVE waiter'[w] = waiter[w]
      <4>1. w \in Waiters /\ waiter'[w].order = p /\ waiter[w] \in Promise
        BY <3>1 DEF Resolved, TypeOK
      <4>2. waiter[w].order = p
        BY <2>1, <4>1 DEF Promise
      <4>3. w # completion[o]
        BY <2>2, <4>1, <4>2, NoneAssumption DEF CompletionIsLive
      <4>4. QED
        BY <2>1, <4>1, <4>3
    <3>2. NoNews(p) /\ state'[p] = state[p]
      BY <1>5, <2>2, <3>1 DEF Ends, completeTerminal, Resolved, TypeOK
    <3>3. QED
      BY <1>2, <3>2
  <2>3. CASE p = o
    <3>1. state[p] \notin TerminalStates \cup {"removed"}
      BY <1>5, <2>3, LiveStates DEF Ends, Tracked, isTerminal, PendingState
    <3>2. Resolved(p) = {} /\ announced[p] = <<>>
      BY <3>1, NothingLearned
    <3>3. ASSUME NEW w \in Resolved(p)'
          PROVE  waiter'[w].final = s /\ waiter'[w].totalFilled = f
      <4>1. w \in Waiters /\ waiter[w] \in Promise
        BY <3>3 DEF Resolved, TypeOK
      <4>2. w = completion[o]
        BY <2>1, <3>2, <3>3, <4>1 DEF Resolved
      <4>3. QED
        BY <2>1, <4>1, <4>2 DEF Promise
    <3>4. announced'[p] \in {<<>>, <<s>>}
      BY <1>5, <2>3, <3>2 DEF Ends, completeTerminal, TypeOK
    <3>5. \A i \in DOMAIN announced'[p] : announced'[p][i] = s
      BY <3>4
    <3>6. state'[p] = s /\ filledAmounts'[p] = f /\ isTerminal(s)
      BY <1>5, <2>3 DEF Ends, TypeOK
    <3>7. QED
      BY <3>3, <3>5, <3>6
  <2>4. QED
    BY <2>2, <2>3
<1>6. ASSUME NEW o \in Orders, Track(o) PROVE Outcome(p)'
  <2>1. CASE p = o
    <3>1. state[p] \notin TerminalStates \cup {"removed"}
      BY <1>6, <2>1 DEF Track, track, TerminalStates
    <3>2. Resolved(p)' = {} /\ announced'[p] = <<>>
      BY <1>6, <3>1, NothingLearned DEF Track, Resolved
    <3>3. QED
      BY <1>3, <3>2
  <2>2. CASE p # o
    <3>1. NoNews(p) /\ state'[p] = state[p]
      BY <1>6, <2>2 DEF Track, track, trackerVars, Resolved, TypeOK
    <3>2. QED
      BY <1>2, <3>1
  <2>3. QED
    BY <2>1, <2>2
<1>7. ASSUME NEW w \in Waiters, NEW o \in Orders, waitForOrder(w, o) PROVE Outcome(p)'
  <2>1. /\ state' = state /\ announced' = announced /\ filledAmounts' = filledAmounts
        /\ waiter[w] \in Promise /\ waiter[w].status = "unused"
        /\ \A v \in Waiters \ {w} : waiter'[v] = waiter[v]
    BY <1>7 DEF waitForOrder, registryVars, TypeOK
  <2>2. CASE w \notin Resolved(p)'
    <3>1. NoNews(p)
      BY <2>1, <2>2 DEF Resolved
    <3>2. QED
      BY <1>2, <2>1, <3>1
  <2>3. CASE w \in Resolved(p)'
    <3>1. /\ Tracked(o)
          /\ waiter' = [waiter EXCEPT ![w] = [@ EXCEPT !.order = o, !.status = "resolved",
                          !.final = state[o], !.totalFilled = filledAmounts[o]]]
      <4>1. w \in DOMAIN waiter /\ waiter'[w].status = "resolved"
        BY <2>3 DEF Resolved, TypeOK
      <4>2. ASSUME waiter' = [waiter EXCEPT ![w] = [@ EXCEPT !.order = o, !.status = "rejected"]]
            PROVE  FALSE
        BY <2>1, <4>1, <4>2 DEF Promise
      <4>3. ASSUME waiter' = [waiter EXCEPT ![w] = [@ EXCEPT !.order = o, !.status = "pending",
                                                             !.timer = HasTimeout]]
            PROVE  FALSE
        BY <2>1, <4>1, <4>3 DEF Promise
      <4>4. QED
        BY <1>7, <4>2, <4>3 DEF waitForOrder
    <3>2. p = o /\ waiter'[w].final = state[p] /\ waiter'[w].totalFilled = filledAmounts[p]
      BY <2>1, <2>3, <3>1 DEF Resolved, TypeOK, Promise
    <3>3. \A i \in DOMAIN announced[p] : announced[p][i] = state[p]
      BY <1>1, <3>1, <3>2 DEF Tracked, PendingState
    <3>4. QED
      BY <1>1, <2>1, <3>2, <3>3 DEF Resolved
  <2>4. QED
    BY <2>2, <2>3
<1>8. ASSUME NEW w \in Waiters, waiterTimerFires(w) PROVE Outcome(p)'
  <2>1. /\ state' = state /\ announced' = announced /\ filledAmounts' = filledAmounts
        /\ \A v \in Waiters \ {w} : waiter'[v] = waiter[v]
        /\ \/ waiter'[w] = [waiter[w] EXCEPT !.timer = FALSE, !.status = "rejected"]
           \/ waiter'[w] = [waiter[w] EXCEPT !.timer = FALSE]
    BY <1>8 DEF waiterTimerFires, registryVars, TypeOK
  <2>2. waiter[w] \in Promise
    BY DEF TypeOK
  <2>3. NoNews(p)
    BY <2>1, <2>2 DEF Resolved, Promise
  <2>4. QED
    BY <1>2, <2>1, <2>3
<1>9. CASE dispose
  <2>1. /\ state' = state /\ announced' = announced /\ filledAmounts' = filledAmounts
        /\ \A v \in Waiters : waiter'[v] \in {waiter[v], [waiter[v] EXCEPT !.status = "rejected",
                                                                          !.timer = FALSE]}
    BY <1>9 DEF dispose, registryVars
  <2>2. \A v \in Waiters : waiter[v] \in Promise
    BY DEF TypeOK
  <2>3. NoNews(p)
    BY <2>1, <2>2 DEF Resolved, Promise
  <2>4. QED
    BY <1>2, <2>1, <2>3
<1>10. CASE Cleanup
  <2>1. NoNews(p) /\ state'[p] \in {state[p], "removed"}
    BY <1>10 DEF Cleanup, cleanup, trackerVars, Resolved
  <2>2. QED
    BY <1>2, <2>1
<1>11. ASSUME \/ \E o \in Orders : TimerLapses(o) \/ Age(o)
              \/ \E o \in Orders, hasTimeout \in BOOLEAN : registerHandle(o, hasTimeout)
              \/ UNCHANGED vars
       PROVE  Outcome(p)'
  <2>1. NoNews(p) /\ state'[p] = state[p]
    BY <1>11 DEF TimerLapses, Age, registerHandle, registryVars, trackerVars, vars, Resolved
  <2>2. QED
    BY <1>2, <2>1
<1>12. QED
  BY <1>4, <1>5, <1>6, <1>7, <1>8, <1>9, <1>10, <1>11, StepKinds DEF Steps

-----------------------------------------------------------------------------
(* The inductive invariant and what follows from it.                       *)

IInv == /\ TypeOK
        /\ CompletionIsLive
        /\ RegistryConsistent
        /\ OneOutcome
        /\ AnnouncedTerminal

\* The conjunction is inductive: settling the right promise needs the slots to be live,
\* and the outcome cannot change because a terminal order has no transition left.
THEOREM InductiveInvariant == Spec => []IInv
<1>1. Init => IInv
  <2> SUFFICES ASSUME Init PROVE IInv
    OBVIOUS
  <2>1. TypeOK
    BY DEF Init, TypeOK, Promise, PendingState
  <2>2. CompletionIsLive /\ OneOutcome /\ AnnouncedTerminal
    BY DEF Init, CompletionIsLive, OneOutcome, AnnouncedTerminal, Resolved
  <2>3. RegistryConsistent
    BY DEF Init, RegistryConsistent, Tracked, PendingState, TerminalStates
  <2>4. QED
    BY <2>1, <2>2, <2>3 DEF IInv
<1>2. TypeOK /\ [Next]_vars => TypeOK'
  BY TypeStep, StepKinds
<1>3. IInv /\ [Next]_vars => IInv'
  BY <1>2, CompletionStep, RegistryStep, OutcomeStep DEF IInv
<1>4. QED
  BY <1>1, <1>3, PTL DEF Spec

\* No handler leaves a completion slot to a promise already settled or an order already over.
THEOREM SlotsAreLive == Spec => []CompletionIsLive
<1>1. IInv => CompletionIsLive
  BY DEF IInv
<1>2. QED
  BY <1>1, InductiveInvariant, PTL

\* Cleanup's stamps and the per-market lists agree with the registry's orders.
THEOREM RegistryIsConsistent == Spec => []RegistryConsistent
<1>1. IInv => RegistryConsistent
  BY DEF IInv
<1>2. QED
  BY <1>1, InductiveInvariant, PTL

\* Callback, awaited result and late result of an order agree for ever.
THEOREM OutcomeIsUnique == Spec => []OneOutcome
<1>1. IInv => OneOutcome
  BY DEF IInv
<1>2. QED
  BY <1>1, InductiveInvariant, PTL

-----------------------------------------------------------------------------
(* The tracker implements the lifecycle.                                   *)

\* Whatever the exchange sends and whichever timers fire, the registry's states follow the
\* table and onComplete is called in the step that ends the order, never again.
THEOREM TrackerImplementsLifecycle == Spec => ImplementsLifecycle
<1> USE DEF Lifecycle!PendingState, PendingState, Lifecycle!TerminalStates, TerminalStates,
            Lifecycle!ValidTransitions, ValidTransitions
<1>1. Init => Lifecycle!Init
  BY DEF Init, Lifecycle!Init
<1>2. ASSUME IInv, [Next]_vars PROVE [Lifecycle!Next]_(Lifecycle!lifecycleVars)
  <2>1. TypeOK /\ RegistryConsistent
    BY <1>2 DEF IInv
  <2>2. ASSUME NEW o \in Orders, NEW s \in PendingState, Moves(o, s) PROVE Lifecycle!Next
    <3>1. Lifecycle!Advance(o)
      BY <2>2 DEF Moves, Tracked, canTransitionTo, isTerminal, Lifecycle!Advance
    <3>2. QED
      BY <3>1 DEF Lifecycle!Next
  <2>3. ASSUME NEW o \in Orders, NEW s \in PendingState, NEW f \in Nat, Ends(o, s, f)
        PROVE  Lifecycle!Next
    <3>1. Lifecycle!Finish(o)
      BY <2>3 DEF Ends, completeTerminal, Tracked, canTransitionTo, isTerminal, Lifecycle!Finish
    <3>2. QED
      BY <3>1 DEF Lifecycle!Next
  <2>4. ASSUME NEW o \in Orders, Track(o) PROVE Lifecycle!Next
    <3>1. Lifecycle!Track(o)
      BY <2>4 DEF Track, track, Lifecycle!Track
    <3>2. QED
      BY <3>1 DEF Lifecycle!Next
  <2>5. CASE Cleanup
    <3>1. Expirable \in SUBSET {o \in Orders : state[o] \in TerminalStates}
      BY <2>1 DEF Expirable, RegistryConsistent
    <3>2. Lifecycle!Forget
      BY <2>5, <3>1 DEF Cleanup, cleanup, Lifecycle!Forget
    <3>3. QED
      BY <3>2 DEF Lifecycle!Next
  <2>6. ASSUME \/ \E o \in Orders : TimerLapses(o) \/ Age(o)
               \/ \E o \in Orders, hasTimeout \in BOOLEAN : registerHandle(o, hasTimeout)
               \/ \E w \in Waiters, o \in Orders : waitForOrder(w, o)
               \/ \E w \in Waiters : waiterTimerFires(w)
               \/ dispose \/ UNCHANGED vars
        PROVE  UNCHANGED Lifecycle!lifecycleVars
    BY <2>6 DEF TimerLapses, Age, registerHandle, waitForOrder, waiterTimerFires, dispose, vars,
                registryVars, Lifecycle!lifecycleVars
  <2>7. QED
    BY <1>2, <2>1, <2>2, <2>3, <2>4, <2>5, <2>6, StepKinds DEF Steps
<1>3. IInv /\ [Next]_vars => [Lifecycle!Next]_(Lifecycle!lifecycleVars)
  BY <1>2
<1>4. QED
  BY <1>1, <1>3, InductiveInvariant, PTL DEF Spec, ImplementsLifecycle, Lifecycle!Spec

-----------------------------------------------------------------------------
(* The orders and their exchange.                                           *)

Endings == {"filled", "cancelled", "expired"}

\* A feed opens at most once and ends at most once.
Ordered(f) == \A i \in DOMAIN f : /\ f[i] = "opened" => i = 1
                                  /\ f[i] \in Endings => i = Len(f)

\* The partial fills a feed still has to report.
Opening(f) == IF f # <<>> /\ f[1] = "opened" THEN 1 ELSE 0
Ending(f) == IF f # <<>> /\ f[Len(f)] \in Endings THEN 1 ELSE 0
Fills(f) == Len(f) - Opening(f) - Ending(f)

-----------------------------------------------------------------------------
(* The invariant, order by order.                                          *)

\* An order whose submission is not answered is unknown to the exchange, and nothing has
\* happened to it.
Submitting(o) ==
  /\ submitCall[o] = "none" <=> state[o] = "untracked"
  /\ submitCall[o] = "sent" => state[o] = "created"
  /\ submitCall[o] \in {"none", "sent"} => terminalAt[o] = "none" /\ venue[o].status = "none"

\* What the feed says of an order is what became of it.
FeedTrue(o) ==
  /\ feed[o] \in Seq(FeedMessage) /\ Ordered(feed[o])
  /\ venue[o].status = "none" => venue[o].filled = 0 /\ feed[o] = <<>>
  /\ venue[o].status = "live" => venue[o].filled < OriginalSize[o]
  /\ \A i \in DOMAIN feed[o] :
       /\ feed[o][i] = "filled" => venue[o].status = "filled" /\ venue[o].filled = OriginalSize[o]
       /\ feed[o][i] \in {"cancelled", "expired"} => venue[o].status = "dead"

\* The fills counted and those still to be reported are fills of the exchange.
Counted(o) == filledAmounts[o] + Fills(feed[o]) <= venue[o].filled

\* A reply that ends the order in the registry finds it ended at the exchange, or never
\* accepted; a lost acknowledgement is the exception.
Replies(o) ==
  /\ submitCall[o] = "cancelled" => venue[o].status = "dead"
  /\ submitCall[o] = "error" => venue[o].status = "none" \/ o \in lostAck
  /\ cancelCall[o] = "ok" => venue[o].status = "dead"
  /\ state[o] = "cancelled" => venue[o].status # "live" \/ o \in lostAck

\* The coordinator speaks first, and the tracker only of an end it did not announce.
Announcements(o) ==
  /\ submitCall[o] # "done" => announced[o] = <<>> /\ o \notin handles
  /\ Len(announced[o]) <= 2
  /\ Len(announced[o]) = 2 => isTerminal(announced[o][2])
  /\ \A i \in DOMAIN announced[o] :
       isTerminal(announced[o][i]) =>
         i = Len(announced[o]) /\ state[o] \in TerminalStates \cup {"removed"}

OrderInv(o) == Submitting(o) /\ FeedTrue(o) /\ Counted(o) /\ Replies(o) /\ Announcements(o)

FlowInv == FlowTypeOK /\ \A o \in Orders : OrderInv(o)

-----------------------------------------------------------------------------
(* Feeds.                                                                  *)

\* What a feed is made of.
LEMMA FeedElements ==
  ASSUME NEW f \in Seq(FeedMessage)
  PROVE  /\ Len(f) \in Nat /\ DOMAIN f = 1..Len(f)
         /\ \A i \in DOMAIN f : f[i] \in FeedMessage
         /\ f # <<>> => Len(f) >= 1 /\ 1 \in DOMAIN f /\ Len(f) \in DOMAIN f
<1>1. Len(f) \in Nat /\ DOMAIN f = 1..Len(f) /\ \A i \in DOMAIN f : f[i] \in FeedMessage
  BY LenProperties, ElementOfSeq
<1>2. f # <<>> => Len(f) >= 1
  BY <1>1, EmptySeq
<1>3. QED
  BY <1>1, <1>2

\* What a feed still has to report is a number of fills: a message does not both open the order
\* and end it.
LEMMA FillsCounted ==
  ASSUME NEW f \in Seq(FeedMessage), Ordered(f)
  PROVE  Fills(f) \in Nat
<1>1. PICK n \in Nat : n = Len(f) /\ (f # <<>> => n >= 1)
  BY FeedElements
<1>2. Opening(f) \in {0, 1} /\ Ending(f) \in {0, 1} /\ (f = <<>> => Opening(f) = 0 /\ Ending(f) = 0)
  BY DEF Opening, Ending
<1>3. n = 1 => Opening(f) = 0 \/ Ending(f) = 0
  BY <1>1 DEF Opening, Ending, Endings
<1>4. f = <<>> => n = 0
  BY <1>1, EmptySeq
<1>5. n - Opening(f) - Ending(f) \in Nat
  BY <1>1, <1>2, <1>3, <1>4
<1>6. QED
  BY <1>1, <1>5 DEF Fills

\* Reading a message leaves the rest in order; a message of the end is the last.
LEMMA FeedTail ==
  ASSUME NEW f \in Seq(FeedMessage), f # <<>>, Ordered(f)
  PROVE  /\ Head(f) = f[1] /\ Head(f) \in FeedMessage
         /\ Tail(f) \in Seq(FeedMessage) /\ Ordered(Tail(f))
         /\ \A i \in DOMAIN Tail(f) : \E j \in DOMAIN f : Tail(f)[i] = f[j]
         /\ Fills(Tail(f)) = Fills(f) - (IF Head(f) = "partial" THEN 1 ELSE 0)
         /\ Head(f) \in Endings => Fills(Tail(f)) = 0
<1>1. /\ Len(f) \in Nat /\ DOMAIN f = 1..Len(f) /\ Len(f) >= 1
      /\ \A i \in 1..Len(f) : f[i] \in FeedMessage
  BY FeedElements
<1>2. PICK t \in Seq(FeedMessage) :
        /\ t = Tail(f) /\ Len(t) = Len(f) - 1
        /\ \A i \in 1..Len(t) : t[i] = f[i + 1]
  BY HeadTailProperties
<1>3. Len(t) \in Nat /\ DOMAIN t = 1..Len(t) /\ (t = <<>> <=> Len(t) = 0)
  BY <1>2, FeedElements, EmptySeq
<1>4. Head(f) = f[1] /\ f[1] \in FeedMessage
  BY <1>1
<1>5. ASSUME NEW i \in 1..Len(t)
      PROVE  /\ i + 1 \in 1..Len(f) /\ t[i] = f[i + 1] /\ t[i] # "opened"
             /\ t[i] \in Endings => i = Len(t)
  <2>1. i + 1 \in 1..Len(f) /\ t[i] = f[i + 1] /\ i + 1 # 1
    BY <1>1, <1>2, <1>3
  <2>2. f[i + 1] # "opened" /\ (f[i + 1] \in Endings => i + 1 = Len(f))
    BY <1>1, <2>1 DEF Ordered
  <2>3. i + 1 = Len(f) => i = Len(t)
    <3>1. Len(f) \in Nat /\ Len(t) = Len(f) - 1
      BY <1>1, <1>2
    <3>2. QED
      BY <3>1
  <2>4. QED
    BY <2>1, <2>2, <2>3
<1>6. Ordered(t) /\ Opening(t) = 0
  <2>1. Ordered(t)
    BY <1>3, <1>5 DEF Ordered
  <2>2. t # <<>> => 1 \in 1..Len(t)
    BY <1>3
  <2>3. QED
    BY <1>5, <2>1, <2>2 DEF Opening
<1>7. \A i \in DOMAIN t : \E j \in DOMAIN f : t[i] = f[j]
  BY <1>1, <1>3, <1>5
<1>8. CASE t = <<>>
  <2>1. Len(f) = 1 /\ Fills(t) = 0
    BY <1>1, <1>2, <1>3, <1>6, <1>8 DEF Fills, Ending
  <2>2. Fills(f) = 1 - (IF f[1] = "opened" THEN 1 ELSE 0) - (IF f[1] \in Endings THEN 1 ELSE 0)
    BY <2>1 DEF Fills, Opening, Ending
  <2>3. Fills(f) = IF f[1] = "partial" THEN 1 ELSE 0
    BY <1>4, <2>2 DEF Endings, FeedMessage
  <2>4. QED
    BY <1>2, <1>4, <1>6, <1>7, <2>1, <2>3
<1>9. CASE t # <<>>
  <2>0. Len(t) \in 1..Len(t) /\ Len(t) + 1 = Len(f) /\ Len(f) > 1
    BY <1>1, <1>2, <1>3, <1>9
  <2>1. t[Len(t)] = f[Len(f)]
    BY <1>2, <2>0
  <2>2. Ending(t) = Ending(f)
    BY <1>9, <2>1 DEF Ending
  <2>3. f[1] \notin Endings
    BY <1>1, <2>0 DEF Ordered
  <2>4. Opening(f) = IF f[1] = "partial" THEN 0 ELSE 1
    BY <1>4, <2>3 DEF Opening, Endings, FeedMessage
  <2>5. Ending(f) \in {0, 1}
    BY DEF Ending
  <2>6. Fills(t) = Fills(f) - (IF Head(f) = "partial" THEN 1 ELSE 0)
    BY <1>1, <1>2, <1>4, <1>6, <2>2, <2>4, <2>5 DEF Fills
  <2>7. QED
    BY <1>2, <1>4, <1>6, <1>7, <2>3, <2>6
<1>10. QED
  BY <1>8, <1>9

\* A message appended to a feed that has not ended counts when it is a partial fill.
LEMMA FeedAppend ==
  ASSUME NEW f \in Seq(FeedMessage), Ordered(f), \A i \in DOMAIN f : f[i] \notin Endings,
         NEW m \in FeedMessage \ {"opened"}
  PROVE  /\ Append(f, m) \in Seq(FeedMessage) /\ Ordered(Append(f, m))
         /\ \A i \in DOMAIN Append(f, m) : \/ i \in DOMAIN f /\ Append(f, m)[i] = f[i]
                                           \/ Append(f, m)[i] = m
         /\ Fills(Append(f, m)) = Fills(f) + (IF m = "partial" THEN 1 ELSE 0)
<1> DEFINE g == Append(f, m)
<1>1. Len(f) \in Nat /\ DOMAIN f = 1..Len(f) /\ (f = <<>> <=> Len(f) = 0)
  BY FeedElements, EmptySeq
<1>2. /\ g \in Seq(FeedMessage) /\ Len(g) = Len(f) + 1
      /\ \A i \in 1..Len(f) : g[i] = f[i]
      /\ g[Len(f) + 1] = m /\ g # <<>>
  BY AppendProperties
<1>3. DOMAIN g = 1..(Len(f) + 1)
  BY <1>2, LenProperties
<1>4. ASSUME NEW i \in DOMAIN g
      PROVE  (i \in DOMAIN f /\ g[i] = f[i]) \/ (i = Len(f) + 1 /\ g[i] = m)
  <2>1. CASE i = Len(f) + 1
    BY <1>2, <2>1
  <2>2. CASE i # Len(f) + 1
    <3>1. i \in 1..Len(f)
      BY <1>1, <1>3, <2>2
    <3>2. QED
      BY <1>1, <1>2, <3>1
  <2>3. QED
    BY <2>1, <2>2
<1>5. Ordered(g)
  BY <1>1, <1>2, <1>4 DEF Ordered
<1>6. Opening(g) = Opening(f)
  <2>1. CASE f = <<>>
    BY <1>1, <1>2, <2>1 DEF Opening
  <2>2. CASE f # <<>>
    BY <1>1, <1>2, <2>2 DEF Opening
  <2>3. QED
    BY <2>1, <2>2
<1>7. Ending(f) = 0
  BY <1>1 DEF Ending
<1>8. Ending(g) = IF m = "partial" THEN 0 ELSE 1
  BY <1>2 DEF Ending, Endings, FeedMessage
<1>9. Fills(g) = Fills(f) + (IF m = "partial" THEN 1 ELSE 0)
  <2>1. Opening(f) \in {0, 1}
    BY DEF Opening
  <2>2. QED
    BY <1>1, <1>2, <1>6, <1>7, <1>8, <2>1 DEF Fills
<1>10. QED
  BY <1>2, <1>4, <1>5, <1>9 DEF g

\* A sequence of one message.
LEMMA FeedOfOne ==
  ASSUME NEW m \in FeedMessage
  PROVE  <<m>> \in Seq(FeedMessage) /\ Len(<<m>>) = 1 /\ <<m>>[1] = m
OBVIOUS

\* The messages of the first q units of an order of n.
Filling(q, n) == [i \in 1..q |-> IF i = n THEN "filled" ELSE "partial"]

\* What an order that fills up to q of its n units at once reports of the fills.
LEMMA FeedOpened ==
  ASSUME NEW n \in Nat, NEW q \in 0..n, NEW g, g = <<"opened">> \o Filling(q, n)
  PROVE  /\ Filling(q, n) \in Seq(FeedMessage)
         /\ g \in Seq(FeedMessage) /\ Ordered(g) /\ Fills(g) <= q
         /\ \A i \in DOMAIN g : /\ g[i] \in Endings => q = n
                                /\ g[i] \notin {"cancelled", "expired"}
<1>0. PICK fills : fills = Filling(q, n)
  OBVIOUS
<1>1. q \in Nat /\ q <= n
  OBVIOUS
<1>2. \A i \in 1..q : fills[i] \in FeedMessage
  BY <1>0 DEF Filling, FeedMessage
<1>3. fills \in Seq(FeedMessage) /\ Len(fills) = q
  <2>1. fills \in [1..q -> FeedMessage]
    BY <1>0, <1>2 DEF Filling
  <2>2. QED
    BY <1>1, <2>1
<1>4. PICK one \in Seq(FeedMessage) : one = <<"opened">> /\ Len(one) = 1 /\ one[1] = "opened"
  <2>1. "opened" \in FeedMessage
    BY DEF FeedMessage
  <2>2. QED
    BY <2>1, FeedOfOne
<1>5. /\ g \in Seq(FeedMessage) /\ Len(g) = 1 + q /\ g[1] = "opened"
      /\ \A i \in 2..(1 + q) : g[i] = fills[i - 1]
  <2>1. /\ g \in Seq(FeedMessage) /\ Len(g) = Len(one) + Len(fills)
        /\ \A i \in 1..(Len(one) + Len(fills)) :
             g[i] = IF i <= Len(one) THEN one[i] ELSE fills[i - Len(one)]
    BY <1>0, <1>3, <1>4, ConcatProperties
  <2>2. \A i \in 1..(1 + q) : g[i] = IF i <= 1 THEN one[i] ELSE fills[i - 1]
    BY <1>3, <1>4, <2>1
  <2>3. \A i \in 2..(1 + q) : i \in 1..(1 + q) /\ ~(i <= 1)
    BY <1>1
  <2>4. 1 \in 1..(1 + q)
    BY <1>1
  <2>5. QED
    BY <1>3, <1>4, <2>1, <2>2, <2>3, <2>4
<1>6. DOMAIN g = 1..(1 + q) /\ g # <<>> /\ g[1] = "opened"
  <2>1. DOMAIN g = 1..(1 + q)
    BY <1>5, LenProperties
  <2>2. g # <<>>
    BY <1>1, <1>5, EmptySeq
  <2>3. QED
    BY <1>5, <2>1, <2>2
<1>7. ASSUME NEW i \in DOMAIN g, i # 1
      PROVE  g[i] = IF i = q + 1 /\ q = n THEN "filled" ELSE "partial"
  <2>1. i \in 2..(1 + q) /\ i - 1 \in 1..q
    BY <1>1, <1>6, <1>7
  <2>2. g[i] = fills[i - 1]
    BY <1>5, <2>1
  <2>3. i - 1 = n <=> i = q + 1 /\ q = n
    BY <1>1, <2>1
  <2>4. fills[i - 1] = IF i - 1 = n THEN "filled" ELSE "partial"
    BY <1>0, <2>1 DEF Filling
  <2>5. QED
    BY <2>2, <2>3, <2>4
<1>8. Ordered(g)
  <2>1. \A i \in DOMAIN g : g[i] = "opened" => i = 1
    BY <1>7
  <2>2. \A i \in DOMAIN g : g[i] \in Endings => i = q + 1
    BY <1>6, <1>7 DEF Endings
  <2>3. q + 1 = Len(g)
    BY <1>1, <1>5
  <2>4. QED
    BY <2>1, <2>2, <2>3 DEF Ordered
<1>9. Fills(g) <= q
  <2>1. Opening(g) = 1 /\ Ending(g) \in {0, 1}
    BY <1>6 DEF Opening, Ending
  <2>2. QED
    BY <1>1, <1>5, <2>1 DEF Fills
<1>10. \A i \in DOMAIN g : (g[i] \in Endings => q = n) /\ g[i] \notin {"cancelled", "expired"}
  BY <1>6, <1>7 DEF Endings
<1>11. QED
  BY <1>0, <1>3, <1>5, <1>8, <1>9, <1>10

\* How a submission may end an order at once, and the feed of an order accepted with that.
KillMessages == {<<>>, <<"cancelled">>, <<"expired">>}
DeathAt(status) == [LIVE |-> <<>>, MATCHED |-> <<>>,
                    CANCELLED |-> <<"cancelled">>, EXPIRED |-> <<"expired">>][status]
AcceptedFeed(q, n, ending) == <<>> \o <<"opened">> \o Filling(q, n) \o ending

\* The feed of an order that the exchange accepts: when it is killed it ends with that.
LEMMA FeedAccepted ==
  ASSUME NEW n \in Nat, NEW q \in 0..n, NEW ending \in KillMessages, q = n => ending = <<>>,
         NEW f, f = AcceptedFeed(q, n, ending)
  PROVE  /\ f \in Seq(FeedMessage) /\ Ordered(f) /\ Fills(f) <= q
         /\ \A i \in DOMAIN f : /\ f[i] = "filled" => q = n
                                /\ f[i] \in {"cancelled", "expired"} => ending # <<>>
<1>1. PICK g : g = <<"opened">> \o Filling(q, n)
  OBVIOUS
<1>2. /\ g \in Seq(FeedMessage) /\ Ordered(g) /\ Fills(g) <= q
      /\ \A i \in DOMAIN g : /\ g[i] \in Endings => q = n
                             /\ g[i] \notin {"cancelled", "expired"}
  BY <1>1, FeedOpened
<1>3. f = g \o ending
  <2>1. "opened" \in FeedMessage
    BY DEF FeedMessage
  <2>2. <<>> \o <<"opened">> = <<"opened">>
    BY <2>1
  <2>3. QED
    BY <1>1, <2>2 DEF AcceptedFeed
<1>4. CASE ending = <<>>
  <2>1. f = g
    BY <1>2, <1>3, <1>4, ConcatEmptySeq
  <2>2. QED
    BY <1>2, <2>1 DEF Endings
<1>5. ASSUME NEW m \in {"cancelled", "expired"}, ending = <<m>>
      PROVE  /\ f \in Seq(FeedMessage) /\ Ordered(f) /\ Fills(f) <= q
             /\ \A i \in DOMAIN f : f[i] # "filled"
  <2>1. m \in FeedMessage \ {"opened"} /\ m \in FeedMessage
    BY DEF FeedMessage
  <2>2. f = Append(g, m)
    BY <1>2, <1>3, <1>5, <2>1, AppendIsConcat
  <2>3. q # n
    BY <1>5
  <2>4. \A i \in DOMAIN g : g[i] \notin Endings
    BY <1>2, <2>3
  <2>5. /\ f \in Seq(FeedMessage) /\ Ordered(f)
        /\ Fills(f) = Fills(g) + (IF m = "partial" THEN 1 ELSE 0)
        /\ \A i \in DOMAIN f : (i \in DOMAIN g /\ f[i] = g[i]) \/ f[i] = m
    <3>1. /\ Append(g, m) \in Seq(FeedMessage) /\ Ordered(Append(g, m))
          /\ Fills(Append(g, m)) = Fills(g) + (IF m = "partial" THEN 1 ELSE 0)
          /\ \A i \in DOMAIN Append(g, m) : \/ i \in DOMAIN g /\ Append(g, m)[i] = g[i]
                                          \/ Append(g, m)[i] = m
      BY <1>2, <2>1, <2>4, FeedAppend
    <3>2. QED
      BY <2>2, <3>1, Zenon
  <2>6. \A i \in DOMAIN f : f[i] # "filled"
    BY <2>4, <2>5 DEF Endings
  <2>7. Fills(f) <= q
    <3>1. Fills(g) + 0 <= q
      BY <1>2 DEF Fills, Opening, Ending
    <3>2. QED
      BY <2>5, <3>1
  <2>8. QED
    BY <2>5, <2>6, <2>7
<1>6. CASE ending # <<>>
  <2>1. PICK m \in {"cancelled", "expired"} : ending = <<m>>
    BY <1>6 DEF KillMessages
  <2>2. QED
    BY <1>5, <1>6, <2>1
<1>7. QED
  BY <1>4, <1>6

-----------------------------------------------------------------------------
(* What a step does to one order.                                          *)

\* The registry shows the order as before, or its stamp ages.
Kept(p) ==
  /\ state'[p] = state[p] /\ announced'[p] = announced[p]
  /\ terminalAt[p] = "none" => terminalAt'[p] = "none"
  /\ p \in handles' => p \in handles \/ submitCall[p] = "done"

\* A handler moves a live order along the table, and announces the end of one with a handle.
Advances(p) ==
  /\ Tracked(p) /\ canTransitionTo(state[p], state'[p]) /\ state'[p] # "submitted"
  /\ \/ announced'[p] = announced[p]
     \/ /\ p \in handles /\ isTerminal(state'[p])
        /\ announced'[p] = Append(announced[p], state'[p])
  /\ state'[p] = "cancelled" => venue[p].status = "dead"
  /\ p \in handles' => p \in handles

\* Cleanup forgets an order that was stamped.
Forgotten(p) ==
  /\ terminalAt[p] # "none" /\ state'[p] = "removed" /\ announced'[p] = announced[p]
  /\ p \in handles' => p \in handles

\* The calls and the exchange's order are as before.
CallsKept(p) ==
  /\ submitCall'[p] = submitCall[p] /\ cancelCall'[p] = cancelCall[p]
  /\ venue'[p] = venue[p] /\ (p \in lostAck => p \in lostAck')

FeedKept(p) == feed'[p] = feed[p] /\ filledAmounts'[p] = filledAmounts[p]

\* What a sequence of final states gains with one more.
LEMMA AnnouncedAppend ==
  ASSUME NEW a \in Seq(PendingState), NEW s \in PendingState, Len(a) \in {0, 1}
  PROVE  /\ Append(a, s) \in Seq(PendingState) /\ Len(Append(a, s)) <= 2
         /\ Append(a, s)[Len(Append(a, s))] = s
         /\ \A i \in DOMAIN Append(a, s) :
              \/ i \in DOMAIN a /\ Append(a, s)[i] = a[i]
              \/ i = Len(Append(a, s))
<1>1. PICK b : b = Append(a, s)
  OBVIOUS
<1>2. /\ b \in Seq(PendingState) /\ Len(b) = Len(a) + 1
      /\ \A i \in 1..Len(a) : b[i] = a[i]
      /\ b[Len(a) + 1] = s
  BY <1>1, AppendProperties
<1>3. Len(a) \in Nat /\ DOMAIN a = 1..Len(a) /\ DOMAIN b = 1..Len(b)
  BY <1>2, LenProperties
<1>4. Len(b) <= 2
  BY <1>2, <1>3
<1>5. \A i \in DOMAIN b : (i \in DOMAIN a /\ b[i] = a[i]) \/ i = Len(b)
  <2>1. \A i \in 1..(Len(a) + 1) : i \in 1..Len(a) \/ i = Len(a) + 1
    BY <1>3
  <2>2. QED
    BY <1>2, <1>3, <2>1
<1>6. QED
  BY <1>1, <1>2, <1>4, <1>5

\* The registry's view of an order stays true to the exchange.
LEMMA ViewKept ==
  ASSUME FlowTypeOK, NEW p \in Orders, OrderInv(p), CallsKept(p),
         Kept(p) \/ Advances(p) \/ Forgotten(p)
  PROVE  Submitting(p)' /\ Replies(p)' /\ Announcements(p)'
<1>1. CASE Kept(p)
  BY <1>1 DEF Kept, CallsKept, OrderInv, Submitting, Replies, Announcements
<1>2. CASE Advances(p)
  <2>1. state[p] \in PendingState /\ state'[p] \in PendingState
    BY <1>2, LiveStates DEF Advances, Tracked
  <2>2. ~isTerminal(state[p]) /\ state[p] # "created"
    BY <1>2, <2>1, LiveStates
       DEF Advances, ValidTransitions, canTransitionTo
  <2>3. submitCall[p] \notin {"none", "sent"} /\ state'[p] # "untracked"
    BY <2>1, <2>2 DEF OrderInv, Submitting, PendingState
  <2>4. Submitting(p)'
    BY <2>3 DEF Submitting, CallsKept
  <2>5. Replies(p)'
    BY <1>2 DEF Advances, Replies, CallsKept, OrderInv
  <2>6. /\ announced[p] \in Seq(PendingState) /\ Len(announced[p]) \in Nat
        /\ DOMAIN announced[p] = 1..Len(announced[p])
    BY LenProperties DEF FlowTypeOK, TypeOK
  <2>7. \A i \in DOMAIN announced[p] : ~isTerminal(announced[p][i])
    <3>1. state[p] \notin TerminalStates \cup {"removed"}
      BY <2>1, <2>2 DEF isTerminal, PendingState
    <3>2. QED
      BY <3>1 DEF OrderInv, Announcements
  <2>8. Len(announced[p]) \in {0, 1}
    <3>1. Len(announced[p]) <= 2 /\ (Len(announced[p]) = 2 => isTerminal(announced[p][2]))
      BY DEF OrderInv, Announcements
    <3>2. Len(announced[p]) = 2 => 2 \in DOMAIN announced[p]
      BY <2>6
    <3>3. Len(announced[p]) # 2
      BY <2>7, <3>1, <3>2
    <3>4. \A n \in Nat : n <= 2 /\ n # 2 => n \in {0, 1}
      OBVIOUS
    <3>5. QED
      BY <2>6, <3>1, <3>3, <3>4
  <2>9. ASSUME announced'[p] = announced[p] PROVE Announcements(p)'
    <3>1. Len(announced[p]) # 2 /\ Len(announced[p]) <= 2
      <4>1. \A n \in {0, 1} : n # 2 /\ n <= 2
        OBVIOUS
      <4>2. QED
        BY <2>8, <4>1
    <3>2. submitCall[p] # "done" => announced[p] = <<>> /\ p \notin handles'
      <4>1. submitCall[p] # "done" => announced[p] = <<>> /\ p \notin handles
        BY DEF OrderInv, Announcements
      <4>2. p \in handles' => p \in handles
        BY <1>2 DEF Advances
      <4>3. QED
        BY <4>1, <4>2
    <3>3. PICK b : b = announced[p]
      OBVIOUS
    <3>4. b = announced'[p] /\ Len(b) # 2 /\ Len(b) <= 2
      BY <2>9, <3>1, <3>3
    <3>5. \A i \in DOMAIN b : ~isTerminal(b[i])
      BY <2>7, <3>3
    <3>6. submitCall'[p] # "done" => b = <<>> /\ p \notin handles'
      BY <3>2, <3>3 DEF CallsKept
    <3>7. QED
      BY <3>4, <3>5, <3>6 DEF Announcements
  <2>10. ASSUME p \in handles, isTerminal(state'[p]),
                announced'[p] = Append(announced[p], state'[p])
         PROVE  Announcements(p)'
    <3>1. submitCall[p] = "done"
      BY <2>10 DEF OrderInv, Announcements
    <3>2. PICK b : b = Append(announced[p], state'[p])
      OBVIOUS
    <3>3. /\ Len(b) <= 2 /\ b[Len(b)] = state'[p]
          /\ \A i \in DOMAIN b :
               (i \in DOMAIN announced[p] /\ b[i] = announced[p][i]) \/ i = Len(b)
      BY <2>1, <2>6, <2>8, <3>2, AnnouncedAppend
    <3>4. Len(b) = 2 => isTerminal(b[2])
      BY <2>10, <3>3
    <3>5. \A i \in DOMAIN b : isTerminal(b[i]) => i = Len(b)
      BY <2>7, <3>3
    <3>6. QED
      BY <2>10, <3>1, <3>2, <3>3, <3>4, <3>5 DEF Announcements, CallsKept, isTerminal
  <2>11. QED
    BY <1>2, <2>4, <2>5, <2>9, <2>10 DEF Advances
<1>3. CASE Forgotten(p)
  <2>1. submitCall[p] \notin {"none", "sent"}
    BY <1>3 DEF Forgotten, OrderInv, Submitting
  <2>2. Submitting(p)' /\ Replies(p)'
    BY <1>3, <2>1 DEF Forgotten, CallsKept, OrderInv, Submitting, Replies
  <2>3. Announcements(p)'
    BY <1>3 DEF Forgotten, CallsKept, OrderInv, Announcements
  <2>4. QED
    BY <2>2, <2>3
<1>4. QED
  BY <1>1, <1>2, <1>3

\* An order that a step does not touch keeps its invariant.
LEMMA OrderKept ==
  ASSUME FlowTypeOK, NEW p \in Orders, OrderInv(p), CallsKept(p), FeedKept(p),
         Kept(p) \/ Advances(p) \/ Forgotten(p)
  PROVE  OrderInv(p)'
<1>1. FeedTrue(p)' /\ Counted(p)'
  BY DEF OrderInv, FeedTrue, Counted, CallsKept, FeedKept, Ordered
<1>2. QED
  BY <1>1, ViewKept DEF OrderInv

-----------------------------------------------------------------------------
(* The tracker.                                                            *)

\* The expiry of an order, by a message or by a timer, ends that order alone.
LEMMA ExpiredStep ==
  ASSUME FlowTypeOK, NEW o \in Orders, handleExpired(o), NEW p \in Orders
  PROVE  /\ IF p = o THEN Advances(p) ELSE Kept(p)
         /\ filledAmounts' = filledAmounts
<1>1. /\ Tracked(o) /\ canTransitionTo(state[o], "expired")
      /\ state' = [state EXCEPT ![o] = "expired"]
      /\ terminalAt' = [terminalAt EXCEPT ![o] = "fresh"]
      /\ announced' = IF o \in handles THEN [announced EXCEPT ![o] = Append(@, "expired")]
                                       ELSE announced
      /\ handles' = handles /\ filledAmounts' = filledAmounts
  BY DEF handleExpired, updateState, completeTerminal, isTerminal, TerminalStates
<1>2. CASE p = o
  BY <1>1, <1>2 DEF Advances, FlowTypeOK, TypeOK, isTerminal, TerminalStates
<1>3. CASE p # o
  BY <1>1, <1>3 DEF Kept, FlowTypeOK, TypeOK
<1>4. QED
  BY <1>1, <1>2, <1>3

\* A step of the tracker that the feed does not cause counts no fill and ends an order only
\* by its timer.
LEMMA TrackerStepKinds ==
  ASSUME FlowTypeOK, TrackerStep, NEW p \in Orders
  PROVE  CallsKept(p) /\ FeedKept(p) /\ (Kept(p) \/ Advances(p) \/ Forgotten(p))
<1> DEFINE Goal == filledAmounts' = filledAmounts /\ (Kept(p) \/ Advances(p) \/ Forgotten(p))
<1>1. ASSUME NEW o \in Orders, RegisterHandle(o) PROVE Goal
  BY <1>1 DEF RegisterHandle, registerHandle, registryVars, Kept
<1>2. ASSUME NEW o \in Orders, handleTimerFires(o) PROVE Goal
  <2>1. CASE handleExpired(o)
    BY <2>1, ExpiredStep
  <2>2. CASE UNCHANGED <<registryVars, handles, filledAmounts, announced>>
    BY <2>2 DEF registryVars, Kept
  <2>3. QED
    BY <1>2, <2>1, <2>2 DEF handleTimerFires
<1>3. ASSUME NEW o \in Orders, Age(o) PROVE Goal
  BY <1>3 DEF Age, trackerVars, Kept, FlowTypeOK, TypeOK
<1>4. ASSUME NEW o \in Orders, NEW w \in Waiters, waitForOrder(w, o) PROVE Goal
  BY <1>4 DEF waitForOrder, registryVars, Kept
<1>5. ASSUME NEW w \in Waiters, waiterTimerFires(w) PROVE Goal
  BY <1>5 DEF waiterTimerFires, registryVars, Kept
<1>6. ASSUME Cleanup PROVE Goal
  <2>1. CASE p \in Expirable
    BY <1>6, <2>1 DEF Cleanup, cleanup, Expirable, trackerVars, Forgotten
  <2>2. CASE p \notin Expirable
    BY <1>6, <2>2 DEF Cleanup, cleanup, trackerVars, Kept
  <2>3. QED
    BY <2>1, <2>2
<1>7. ASSUME dispose PROVE Goal
  BY <1>7 DEF dispose, registryVars, Kept
<1>8. Goal
  BY <1>1, <1>2, <1>3, <1>4, <1>5, <1>6, <1>7 DEF TrackerStep
<1>9. QED
  BY <1>8 DEF TrackerStep, flowVars, CallsKept, FeedKept

\* The handler of a message advances its order along the table, and counts one unit for a
\* partial fill and the order's size for the last.
LEMMA HandleSteps ==
  ASSUME FlowTypeOK, NEW o \in Orders, OrderInv(o), feed[o] # <<>>,
         NEW m, m = Head(feed[o]), Handle(o, m), NEW p \in Orders
  PROVE  /\ IF p = o THEN Advances(p) ELSE Kept(p)
         /\ filledAmounts' = [filledAmounts EXCEPT ![o] = IF m = "partial" THEN @ + 1
                                                          ELSE IF m = "filled" THEN OriginalSize[o]
                                                          ELSE @]
<1>1. m \in FeedMessage /\ (m = "cancelled" => venue[o].status = "dead")
  <2>1. feed[o] \in Seq(FeedMessage) /\ Ordered(feed[o])
    BY DEF FlowTypeOK, OrderInv, FeedTrue
  <2>2. m = feed[o][1] /\ m \in FeedMessage /\ 1 \in DOMAIN feed[o]
    BY <2>1, FeedTail, FeedElements
  <2>3. QED
    BY <2>2 DEF OrderInv, FeedTrue
<1>2. CASE m = "opened"
  <2>1. handleOpened(o)
    BY <1>2 DEF Handle
  <2>2. /\ Tracked(o) /\ canTransitionTo(state[o], "open")
        /\ state' = [state EXCEPT ![o] = "open"]
        /\ UNCHANGED <<terminalAt, announced, handles, filledAmounts>>
    BY <2>1 DEF handleOpened, updateState, isTerminal, TerminalStates, trackerVars
  <2>3. IF p = o THEN Advances(p) ELSE Kept(p)
    BY <2>2 DEF Advances, Kept, FlowTypeOK, TypeOK
  <2>4. QED
    BY <1>2, <2>2, <2>3 DEF FlowTypeOK, TypeOK
<1>3. CASE m = "partial"
  <2>1. handlePartialFill(o, 1)
    BY <1>3 DEF Handle
  <2>2. /\ Tracked(o) /\ canTransitionTo(state[o], "partially_filled")
        /\ state' = [state EXCEPT ![o] = "partially_filled"]
        /\ filledAmounts' = [filledAmounts EXCEPT ![o] = @ + 1]
        /\ UNCHANGED <<terminalAt, announced, handles>>
    BY <2>1 DEF handlePartialFill, updateState, isTerminal, TerminalStates
  <2>3. IF p = o THEN Advances(p) ELSE Kept(p)
    BY <2>2 DEF Advances, Kept, FlowTypeOK, TypeOK
  <2>4. QED
    BY <1>3, <2>2, <2>3
<1>4. CASE m = "filled"
  <2>1. handleFilled(o)
    BY <1>4 DEF Handle
  <2>2. /\ Tracked(o) /\ canTransitionTo(state[o], "filled")
        /\ state' = [state EXCEPT ![o] = "filled"]
        /\ terminalAt' = [terminalAt EXCEPT ![o] = "fresh"]
        /\ filledAmounts' = [filledAmounts EXCEPT ![o] = OriginalSize[o]]
        /\ announced' = IF o \in handles THEN [announced EXCEPT ![o] = Append(@, "filled")]
                                         ELSE announced
        /\ handles' = handles
    BY <2>1 DEF handleFilled, updateState, completeTerminal, isTerminal, TerminalStates
  <2>3. CASE p = o
    BY <1>4, <2>2, <2>3 DEF Advances, FlowTypeOK, TypeOK, isTerminal, TerminalStates
  <2>4. CASE p # o
    BY <1>4, <2>2, <2>4 DEF Kept, FlowTypeOK, TypeOK
  <2>5. QED
    BY <2>3, <2>4
<1>5. CASE m = "cancelled"
  <2>1. handleCancelled(o)
    BY <1>5 DEF Handle
  <2>2. /\ Tracked(o) /\ canTransitionTo(state[o], "cancelled")
        /\ state' = [state EXCEPT ![o] = "cancelled"]
        /\ terminalAt' = [terminalAt EXCEPT ![o] = "fresh"]
        /\ announced' = IF o \in handles THEN [announced EXCEPT ![o] = Append(@, "cancelled")]
                                         ELSE announced
        /\ handles' = handles /\ filledAmounts' = filledAmounts
    BY <2>1 DEF handleCancelled, updateState, completeTerminal, isTerminal, TerminalStates
  <2>3. CASE p = o
    BY <1>1, <1>5, <2>2, <2>3 DEF Advances, FlowTypeOK, TypeOK, isTerminal, TerminalStates
  <2>4. CASE p # o
    BY <1>5, <2>2, <2>4 DEF Kept, FlowTypeOK, TypeOK
  <2>5. QED
    BY <1>5, <2>2, <2>3, <2>4 DEF FlowTypeOK, TypeOK
<1>6. CASE m = "expired"
  <2>1. handleExpired(o)
    BY <1>6 DEF Handle
  <2>2. (IF p = o THEN Advances(p) ELSE Kept(p)) /\ filledAmounts' = filledAmounts
    BY <2>1, ExpiredStep
  <2>3. QED
    BY <1>6, <2>2 DEF FlowTypeOK, TypeOK
<1>7. QED
  BY <1>1, <1>2, <1>3, <1>4, <1>5, <1>6 DEF FeedMessage

-----------------------------------------------------------------------------
(* The feed.                                                               *)

\* A message read, whether it is handled, dropped or lost, leaves the count within the fills
\* of the exchange.
LEMMA FeedRead ==
  ASSUME FlowTypeOK, NEW o \in Orders, OrderInv(o), feed[o] # <<>>,
         feed'[o] = Tail(feed[o]), venue'[o] = venue[o],
         \/ filledAmounts'[o] = filledAmounts[o]
         \/ Head(feed[o]) = "partial" /\ filledAmounts'[o] = filledAmounts[o] + 1
         \/ Head(feed[o]) = "filled" /\ filledAmounts'[o] = OriginalSize[o]
  PROVE  FeedTrue(o)' /\ Counted(o)'
<1>1. PICK f \in Seq(FeedMessage) : f = feed[o] /\ f # <<>> /\ Ordered(f)
  BY DEF FlowTypeOK, OrderInv, FeedTrue
<1>2. PICK t \in Seq(FeedMessage) :
        /\ t = Tail(f) /\ Ordered(t)
        /\ \A i \in DOMAIN t : \E j \in DOMAIN f : t[i] = f[j]
        /\ Fills(t) = Fills(f) - (IF Head(f) = "partial" THEN 1 ELSE 0)
        /\ Head(f) \in Endings => Fills(t) = 0
        /\ Head(f) = f[1] /\ 1 \in DOMAIN f
  BY <1>1, FeedTail, FeedElements
<1>3. feed'[o] = t
  BY <1>1, <1>2
<1>4. FeedTrue(o)'
  <2>1. /\ venue[o].status = "none" => venue[o].filled = 0 /\ f = <<>>
        /\ venue[o].status = "live" => venue[o].filled < OriginalSize[o]
        /\ \A i \in DOMAIN f :
             /\ f[i] = "filled" => venue[o].status = "filled" /\ venue[o].filled = OriginalSize[o]
             /\ f[i] \in {"cancelled", "expired"} => venue[o].status = "dead"
    BY <1>1 DEF OrderInv, FeedTrue
  <2>2. \A i \in DOMAIN t :
             /\ t[i] = "filled" => venue[o].status = "filled" /\ venue[o].filled = OriginalSize[o]
             /\ t[i] \in {"cancelled", "expired"} => venue[o].status = "dead"
    BY <1>2, <2>1
  <2>3. venue[o].status # "none"
    BY <1>1, <2>1
  <2>4. QED
    BY <1>2, <1>3, <2>1, <2>2, <2>3 DEF FeedTrue, Ordered
<1>5. Counted(o)'
  <2>1. /\ Fills(f) \in Int /\ filledAmounts[o] \in Nat /\ venue[o].filled \in Nat
        /\ filledAmounts[o] + Fills(f) <= venue[o].filled
    <3>1. Fills(f) \in Int
      BY <1>1, FeedElements DEF Fills, Opening, Ending
    <3>2. QED
      BY <1>1, <3>1 DEF FlowTypeOK, TypeOK, OrderInv, Counted
  <2>2. PICK n \in Int : n = Fills(f)
    BY <2>1
  <2>3. filledAmounts'[o] + Fills(t) <= venue[o].filled
    <3>1. CASE filledAmounts'[o] = filledAmounts[o]
      BY <1>2, <2>1, <2>2, <3>1
    <3>2. CASE Head(f) = "partial" /\ filledAmounts'[o] = filledAmounts[o] + 1
      BY <1>2, <2>1, <2>2, <3>2
    <3>3. CASE Head(f) = "filled" /\ filledAmounts'[o] = OriginalSize[o]
      <4>1. Fills(t) = 0
        BY <1>2, <3>3 DEF Endings
      <4>2. venue[o].filled = OriginalSize[o]
        BY <1>1, <1>2, <3>3 DEF OrderInv, FeedTrue
      <4>3. QED
        BY <2>1, <3>3, <4>1, <4>2
    <3>4. QED
      BY <1>1, <3>1, <3>2, <3>3
  <2>4. QED
    BY <1>3, <2>3 DEF Counted, Fills, Opening, Ending
<1>6. QED
  BY <1>4, <1>5

\* A message handled, dropped because the table does not allow it now, or lost.
LEMMA ReadStep ==
  ASSUME FlowTypeOK, \A p \in Orders : OrderInv(p), NEW o \in Orders, Deliver(o) \/ Lose(o),
         NEW p \in Orders
  PROVE  OrderInv(p)'
<1>1. /\ feed[o] # <<>> /\ feed' = [feed EXCEPT ![o] = Tail(@)]
      /\ UNCHANGED <<submitCall, cancelCall, venue, lostAck>>
      /\ Handle(o, Head(feed[o])) \/ UNCHANGED vars
  BY DEF Deliver, Lose
<1>2. CallsKept(p)
  BY <1>1 DEF CallsKept
<1>3. /\ IF p = o THEN Advances(p) \/ Kept(p) ELSE Kept(p)
      /\ \/ filledAmounts' = filledAmounts
         \/ /\ Head(feed[o]) = "partial"
            /\ filledAmounts' = [filledAmounts EXCEPT ![o] = @ + 1]
         \/ /\ Head(feed[o]) = "filled"
            /\ filledAmounts' = [filledAmounts EXCEPT ![o] = OriginalSize[o]]
  <2>1. CASE UNCHANGED vars
    BY <2>1 DEF vars, registryVars, trackerVars, Kept
  <2>2. CASE Handle(o, Head(feed[o]))
    <3>1. /\ IF p = o THEN Advances(p) ELSE Kept(p)
          /\ filledAmounts' =
               [filledAmounts EXCEPT ![o] = IF Head(feed[o]) = "partial" THEN @ + 1
                                            ELSE IF Head(feed[o]) = "filled" THEN OriginalSize[o]
                                            ELSE @]
      BY <1>1, <2>2, HandleSteps
    <3>2. QED
      BY <3>1 DEF FlowTypeOK, TypeOK
  <2>3. QED
    BY <1>1, <2>1, <2>2
<1>4. CASE p # o
  <2>1. FeedKept(p) /\ Kept(p)
    BY <1>1, <1>3, <1>4 DEF FeedKept, FlowTypeOK, TypeOK
  <2>2. QED
    BY <1>2, <2>1, OrderKept
<1>5. CASE p = o
  <2>1. Submitting(p)' /\ Replies(p)' /\ Announcements(p)'
    BY <1>2, <1>3, <1>5, ViewKept
  <2>2. FeedTrue(p)' /\ Counted(p)'
    <3>1. /\ feed'[p] = Tail(feed[p]) /\ venue'[p] = venue[p]
          /\ \/ filledAmounts'[p] = filledAmounts[p]
             \/ Head(feed[p]) = "partial" /\ filledAmounts'[p] = filledAmounts[p] + 1
             \/ Head(feed[p]) = "filled" /\ filledAmounts'[p] = OriginalSize[p]
      BY <1>1, <1>3, <1>5 DEF FlowTypeOK, TypeOK
    <3>2. QED
      BY <1>1, <1>5, <3>1, FeedRead
  <2>3. QED
    BY <2>1, <2>2 DEF OrderInv
<1>6. QED
  BY <1>4, <1>5

-----------------------------------------------------------------------------
(* The coordinator and the exchange.                                       *)

Coordinator(o) == Submit(o) \/ SubmitSucceeds(o) \/ SubmitFails(o) \/ SubmitThrows(o)
                  \/ Cancel(o) \/ CancelReturns(o)

Venue(o) == VenueAccepts(o) \/ VenueRefuses(o) \/ VenueFills(o) \/ VenueEnds(o)
            \/ VenueHandlesCancel(o)

\* Neither touches an order other than the one it is about.
LEMMA OthersKept ==
  ASSUME FlowTypeOK, NEW o \in Orders, Coordinator(o) \/ Venue(o), NEW p \in Orders, p # o
  PROVE  CallsKept(p) /\ FeedKept(p) /\ Kept(p)
<1>1. CASE Submit(o)
  BY <1>1 DEF Submit, track, trackerVars, FlowTypeOK, TypeOK, CallsKept, FeedKept, Kept
<1>2. CASE SubmitSucceeds(o)
  BY <1>2 DEF SubmitSucceeds, updateState, trackerVars, FlowTypeOK, TypeOK, CallsKept, FeedKept, Kept
<1>3. CASE SubmitFails(o)
  BY <1>3 DEF SubmitFails, updateState, trackerVars, FlowTypeOK, TypeOK, CallsKept, FeedKept, Kept
<1>4. CASE SubmitThrows(o) \/ Cancel(o)
  BY <1>4 DEF SubmitThrows, Cancel, vars, registryVars, trackerVars, FlowTypeOK, TypeOK,
              CallsKept, FeedKept, Kept
<1>5. CASE CancelReturns(o)
  BY <1>5 DEF CancelReturns, updateState, trackerVars, FlowTypeOK, TypeOK, CallsKept, FeedKept, Kept
<1>6. CASE Venue(o)
  <2>1. Kept(p) /\ filledAmounts' = filledAmounts
    BY <1>6 DEF Venue, VenueAccepts, VenueRefuses, VenueFills, VenueEnds, VenueHandlesCancel,
                vars, registryVars, trackerVars, Kept
  <2>2. CASE VenueAccepts(o)
    BY <2>1, <2>2 DEF VenueAccepts, FlowTypeOK, TypeOK, CallsKept, FeedKept
  <2>3. CASE VenueRefuses(o) \/ VenueFills(o) \/ VenueEnds(o) \/ VenueHandlesCancel(o)
    BY <2>1, <2>3 DEF VenueRefuses, VenueFills, VenueEnds, VenueHandlesCancel,
                      FlowTypeOK, TypeOK, CallsKept, FeedKept
  <2>4. QED
    BY <1>6, <2>1, <2>2, <2>3 DEF Venue
<1>7. QED
  BY <1>1, <1>2, <1>3, <1>4, <1>5, <1>6 DEF Coordinator

\* The coordinator leaves the exchange's order, its feed and the count alone, so that what it
\* shows and announces is all there is to check.
LEMMA CoordinatorStep ==
  ASSUME FlowTypeOK, NEW o \in Orders, OrderInv(o), Coordinator(o)
  PROVE  OrderInv(o)'
<1>1. venue' = venue /\ lostAck' = lostAck /\ feed' = feed /\ filledAmounts' = filledAmounts
      /\ handles' = handles
  BY DEF Coordinator, Submit, SubmitSucceeds, SubmitFails, SubmitThrows, Cancel, CancelReturns,
         vars, registryVars, trackerVars
<1>2. FeedTrue(o)' /\ Counted(o)'
  BY <1>1 DEF OrderInv, FeedTrue, Counted, Ordered
<1>3. CASE Submit(o)
  <2>1. /\ state[o] = "untracked" /\ state'[o] = "created" /\ terminalAt'[o] = terminalAt[o]
        /\ submitCall'[o] = "sent" /\ cancelCall' = cancelCall /\ announced' = announced
    BY <1>3 DEF Submit, track, FlowTypeOK, TypeOK
  <2>2. submitCall[o] = "none"
    BY <2>1 DEF OrderInv, Submitting
  <2>3. QED
    BY <1>1, <1>2, <2>1, <2>2 DEF OrderInv, Submitting, Replies, Announcements
<1>4. CASE SubmitSucceeds(o)
  <2>1. /\ submitCall[o] \in PendingState /\ submitCall'[o] = "done"
        /\ state'[o] = IF Tracked(o) THEN submitCall[o] ELSE state[o]
        /\ announced'[o] = Append(announced[o], submitCall[o]) /\ cancelCall' = cancelCall
    BY <1>4 DEF SubmitSucceeds, updateState, FlowTypeOK, TypeOK
  <2>2. state[o] # "untracked" /\ announced[o] = <<>>
    BY <2>1 DEF OrderInv, Submitting, Announcements, PendingState
  <2>3. state[o] \in PendingState \cup {"removed"}
    BY <2>2 DEF FlowTypeOK, TypeOK
  <2>4. PICK a : a = announced'[o]
    OBVIOUS
  <2>5. Len(a) = 1 /\ a[1] = submitCall[o] /\ DOMAIN a = {1}
    <3>1. /\ a \in Seq(PendingState) /\ Len(a) = Len(announced[o]) + 1
          /\ a[Len(announced[o]) + 1] = submitCall[o]
      BY <2>1, <2>4, AppendProperties DEF FlowTypeOK, TypeOK
    <3>2. Len(announced[o]) = 0
      BY <2>2
    <3>3. Len(a) = 1 /\ a[1] = submitCall[o]
      BY <3>1, <3>2
    <3>4. DOMAIN a = 1..1
      BY <3>1, <3>3, LenProperties
    <3>5. QED
      BY <3>3, <3>4
  <2>6. Submitting(o)'
    BY <2>1, <2>3 DEF Submitting, Tracked, PendingState
  <2>7. Replies(o)'
    BY <1>1, <2>1 DEF Replies, OrderInv, PendingState
  <2>8. Announcements(o)'
    <3>1. isTerminal(submitCall[o]) => state'[o] \in TerminalStates \cup {"removed"}
      BY <2>1, <2>3 DEF isTerminal, Tracked
    <3>2. Len(a) <= 2 /\ Len(a) # 2
      BY <2>5
    <3>3. \A i \in DOMAIN a : isTerminal(a[i]) =>
            i = Len(a) /\ state'[o] \in TerminalStates \cup {"removed"}
      BY <2>5, <3>1
    <3>4. QED
      BY <2>1, <2>4, <3>2, <3>3 DEF Announcements
  <2>9. QED
    BY <1>2, <2>6, <2>7, <2>8 DEF OrderInv
<1>5. CASE SubmitFails(o)
  <2>1. /\ submitCall[o] = "error" /\ submitCall'[o] = "done"
        /\ state'[o] = IF Tracked(o) THEN "cancelled" ELSE state[o]
        /\ announced' = announced /\ cancelCall' = cancelCall
    BY <1>5 DEF SubmitFails, updateState, FlowTypeOK, TypeOK
  <2>2. state[o] # "untracked" /\ announced[o] = <<>>
    BY <2>1 DEF OrderInv, Submitting, Announcements
  <2>3. PICK a : a = announced'[o] /\ a = <<>> /\ Len(a) = 0 /\ DOMAIN a = {}
    BY <2>1, <2>2
  <2>4. Submitting(o)' /\ Replies(o)'
    BY <1>1, <2>1, <2>2 DEF OrderInv, Submitting, Replies
  <2>5. Announcements(o)'
    BY <2>1, <2>3 DEF Announcements
  <2>6. QED
    BY <1>2, <2>4, <2>5 DEF OrderInv
<1>6. CASE SubmitThrows(o)
  <2>1. /\ submitCall[o] = "sent" /\ submitCall'[o] = "done" /\ cancelCall' = cancelCall
        /\ UNCHANGED <<state, terminalAt, announced>>
    BY <1>6 DEF SubmitThrows, vars, registryVars, FlowTypeOK
  <2>2. QED
    BY <1>1, <1>2, <2>1 DEF OrderInv, Submitting, Replies, Announcements
<1>7. CASE Cancel(o)
  <2>1. cancelCall'[o] = "sent" /\ UNCHANGED <<submitCall, state, terminalAt, announced>>
    BY <1>7 DEF Cancel, vars, registryVars, FlowTypeOK
  <2>2. QED
    BY <1>1, <1>2, <2>1 DEF OrderInv, Submitting, Replies, Announcements
<1>8. CASE CancelReturns(o)
  <2>1. /\ cancelCall'[o] = "none" /\ UNCHANGED <<submitCall, announced>>
        /\ \/ state'[o] = state[o] /\ terminalAt'[o] = terminalAt[o]
           \/ cancelCall[o] = "ok" /\ Tracked(o) /\ state'[o] = "cancelled"
    BY <1>8 DEF CancelReturns, updateState, FlowTypeOK, TypeOK
  <2>2. CASE state'[o] = state[o] /\ terminalAt'[o] = terminalAt[o]
    BY <1>1, <1>2, <2>1, <2>2 DEF OrderInv, Submitting, Replies, Announcements
  <2>3. CASE cancelCall[o] = "ok" /\ Tracked(o) /\ state'[o] = "cancelled"
    <3>1. venue[o].status = "dead" /\ submitCall[o] \notin {"none", "sent"}
      BY <2>3 DEF OrderInv, Replies, Submitting
    <3>2. Submitting(o)' /\ Replies(o)'
      BY <1>1, <2>1, <2>3, <3>1 DEF OrderInv, Submitting, Replies
    <3>3. Announcements(o)'
      BY <1>1, <2>1, <2>3 DEF OrderInv, Announcements, TerminalStates
    <3>4. QED
      BY <1>2, <3>2, <3>3 DEF OrderInv
  <2>4. QED
    BY <2>1, <2>2, <2>3
<1>9. QED
  BY <1>3, <1>4, <1>5, <1>6, <1>7, <1>8 DEF Coordinator

\* What the exchange accepts, refuses, fills or ends it reports in the feed and in the reply.
LEMMA VenueStep ==
  ASSUME FlowTypeOK, NEW o \in Orders, OrderInv(o), Venue(o)
  PROVE  OrderInv(o)'
<1>1. UNCHANGED <<state, terminalAt, announced, handles, filledAmounts>>
  BY DEF Venue, VenueAccepts, VenueRefuses, VenueFills, VenueEnds, VenueHandlesCancel,
         vars, registryVars, trackerVars
<1>2. submitCall'[o] # "done" => announced[o] = <<>> /\ o \notin handles
  BY DEF Venue, VenueAccepts, VenueRefuses, VenueFills, VenueEnds, VenueHandlesCancel,
         OrderInv, Announcements, FlowTypeOK
<1>3. Announcements(o)'
  BY <1>1, <1>2 DEF OrderInv, Announcements
<1>4. /\ OriginalSize[o] \in Nat /\ venue[o].filled \in Nat /\ filledAmounts[o] \in Nat
      /\ venue[o].status \in {"none", "live", "filled", "dead"}
  BY SizesAssumption DEF FlowTypeOK, TypeOK
<1>5. PICK f \in Seq(FeedMessage) : f = feed[o] /\ Ordered(f) /\ Fills(f) \in Int
  <2>1. feed[o] \in Seq(FeedMessage) /\ Ordered(feed[o])
    BY DEF FlowTypeOK, OrderInv, FeedTrue
  <2>2. Fills(feed[o]) \in Int
    BY <2>1, FeedElements DEF Fills, Opening, Ending
  <2>3. QED
    BY <2>1, <2>2
<1>6. CASE VenueAccepts(o)
  <2>a. PICK q \in 0..OriginalSize[o], status \in {"LIVE", "MATCHED", "CANCELLED", "EXPIRED"} :
          /\ status = "MATCHED" <=> q = OriginalSize[o]
          /\ venue' = [venue EXCEPT ![o].filled = q,
                                    ![o].status = [LIVE |-> "live", MATCHED |-> "filled",
                                                   CANCELLED |-> "dead", EXPIRED |-> "dead"][status]]
          /\ feed' = [feed EXCEPT ![o] =
                         @ \o <<"opened">> \o Filling(q, OriginalSize[o]) \o DeathAt(status)]
          /\ \/ submitCall' = [submitCall EXCEPT ![o] = mapStatus(o, status, q)]
             \/ submitCall' = [submitCall EXCEPT ![o] = "error"] /\ lostAck' = lostAck \cup {o}
    BY <1>6 DEF VenueAccepts, Filling, DeathAt
  <2>b. PICK ending : ending = DeathAt(status)
    OBVIOUS
  <2>1. /\ ending = [LIVE |-> <<>>, MATCHED |-> <<>>,
                     CANCELLED |-> <<"cancelled">>, EXPIRED |-> <<"expired">>][status]
        /\ status = "MATCHED" <=> q = OriginalSize[o]
        /\ venue' = [venue EXCEPT ![o].filled = q,
                                  ![o].status = [LIVE |-> "live", MATCHED |-> "filled",
                                                 CANCELLED |-> "dead", EXPIRED |-> "dead"][status]]
        /\ feed' = [feed EXCEPT ![o] = @ \o <<"opened">> \o Filling(q, OriginalSize[o]) \o ending]
        /\ \/ submitCall' = [submitCall EXCEPT ![o] = mapStatus(o, status, q)]
           \/ submitCall' = [submitCall EXCEPT ![o] = "error"] /\ lostAck' = lostAck \cup {o}
    BY <2>a, <2>b DEF DeathAt
  <2>2. submitCall[o] = "sent" /\ cancelCall' = cancelCall
    BY <1>6 DEF VenueAccepts
  <2>3. /\ state[o] = "created" /\ venue[o].status = "none" /\ f = <<>> /\ venue[o].filled = 0
        /\ cancelCall[o] # "ok"
    BY <1>5, <2>2 DEF OrderInv, Submitting, FeedTrue, Replies
  <2>4. q \in Nat /\ q <= OriginalSize[o] /\ (status # "MATCHED" => q < OriginalSize[o])
    BY <1>4, <2>1
  <2>5. /\ venue'[o].filled = q
        /\ venue'[o].status = [LIVE |-> "live", MATCHED |-> "filled",
                               CANCELLED |-> "dead", EXPIRED |-> "dead"][status]
    BY <2>1 DEF FlowTypeOK
  <2>6. ending \in KillMessages /\ (q = OriginalSize[o] => ending = <<>>)
    BY <2>1 DEF KillMessages
  <2>7. PICK g : /\ g = feed'[o]
                 /\ g = AcceptedFeed(q, OriginalSize[o], ending)
    <3>1. feed'[o] = feed[o] \o <<"opened">> \o Filling(q, OriginalSize[o]) \o ending
      BY <2>1, Zenon DEF FlowTypeOK
    <3>2. feed[o] = <<>>
      BY <1>5, <2>3
    <3>3. feed'[o] = <<>> \o <<"opened">> \o Filling(q, OriginalSize[o]) \o ending
      BY <3>1, <3>2
    <3>4. QED
      BY <3>3, Zenon DEF AcceptedFeed
  <2>8. /\ g \in Seq(FeedMessage) /\ Ordered(g) /\ Fills(g) <= q
        /\ \A i \in DOMAIN g : /\ g[i] = "filled" => q = OriginalSize[o]
                               /\ g[i] \in {"cancelled", "expired"} => ending # <<>>
    BY <1>4, <2>6, <2>7, FeedAccepted
  <2>9. FeedTrue(o)'
    <3>1. ending # <<>> => venue'[o].status = "dead"
      BY <2>1, <2>5
    <3>2. q = OriginalSize[o] => venue'[o].status = "filled"
      BY <2>1, <2>5
    <3>3. venue'[o].status = "live" => venue'[o].filled < OriginalSize[o]
      BY <2>1, <2>4, <2>5
    <3>4. venue'[o].status # "none"
      BY <2>1, <2>5
    <3>5. QED
      BY <2>5, <2>7, <2>8, <3>1, <3>2, <3>3, <3>4 DEF FeedTrue, Ordered
  <2>10. Counted(o)'
    <3>1. Fills(f) = 0 - 0 - 0
      BY <2>3 DEF Fills, Opening, Ending
    <3>2. filledAmounts[o] = 0
      BY <1>4, <1>5, <2>3, <3>1 DEF OrderInv, Counted
    <3>3. Fills(g) \in Int
      BY <2>8, FeedElements DEF Fills, Opening, Ending
    <3>4. filledAmounts[o] + Fills(g) <= q
      BY <2>4, <2>8, <3>2, <3>3
    <3>5. QED
      BY <1>1, <2>5, <2>7, <3>4 DEF Counted, Fills, Opening, Ending
  <2>11. Submitting(o)' /\ Replies(o)'
    <3>1. submitCall'[o] = "error" => o \in lostAck'
      <4>1. mapStatus(o, status, q) # "error"
        BY <2>1, <2>4 DEF mapStatus
      <4>2. QED
        BY <2>1, <4>1 DEF FlowTypeOK
    <3>2. /\ submitCall'[o] \notin {"none", "sent"}
          /\ submitCall'[o] = "cancelled" => venue'[o].status = "dead"
      <4>1. /\ mapStatus(o, status, q) \notin {"none", "sent"}
            /\ mapStatus(o, status, q) = "cancelled" => status = "CANCELLED"
        BY <1>4, <2>1, <2>4 DEF mapStatus
      <4>2. QED
        BY <2>1, <2>5, <4>1 DEF FlowTypeOK
    <3>3. QED
      BY <1>1, <2>2, <2>3, <3>1, <3>2 DEF Submitting, Replies
  <2>12. QED
    BY <1>3, <2>9, <2>10, <2>11 DEF OrderInv
<1>7. CASE VenueRefuses(o)
  <2>1. /\ submitCall[o] = "sent" /\ submitCall'[o] = "error"
        /\ UNCHANGED <<cancelCall, venue, feed, lostAck>>
    BY <1>7 DEF VenueRefuses, FlowTypeOK
  <2>2. FeedTrue(o)' /\ Counted(o)'
    BY <1>1, <2>1 DEF OrderInv, FeedTrue, Counted, Ordered
  <2>3. Submitting(o)' /\ Replies(o)'
    BY <1>1, <2>1 DEF OrderInv, Submitting, Replies
  <2>4. QED
    BY <1>3, <2>2, <2>3 DEF OrderInv
\* A live order that fills by one unit or ends.
<1>8. ASSUME NEW m \in FeedMessage \ {"opened"}, venue[o].status = "live",
             feed'[o] = Append(feed[o], m), submitCall' = submitCall, lostAck' = lostAck,
             cancelCall'[o] = "ok" => m = "cancelled" \/ cancelCall[o] = "ok",
             \/ /\ m = "partial" /\ venue[o].filled + 1 # OriginalSize[o]
                /\ venue'[o].status = "live" /\ venue'[o].filled = venue[o].filled + 1
             \/ /\ m = "filled" /\ venue[o].filled + 1 = OriginalSize[o]
                /\ venue'[o].status = "filled" /\ venue'[o].filled = venue[o].filled + 1
             \/ /\ m \in {"cancelled", "expired"}
                /\ venue'[o].status = "dead" /\ venue'[o].filled = venue[o].filled
      PROVE  OrderInv(o)'
  <2>1. \A i \in DOMAIN f : f[i] \notin Endings
    BY <1>5, <1>8 DEF OrderInv, FeedTrue, Endings
  <2>2. PICK g \in Seq(FeedMessage) :
          /\ g = feed'[o] /\ Ordered(g)
          /\ \A i \in DOMAIN g : (i \in DOMAIN f /\ g[i] = f[i]) \/ g[i] = m
          /\ Fills(g) = Fills(f) + (IF m = "partial" THEN 1 ELSE 0)
    <3>1. /\ Append(f, m) \in Seq(FeedMessage) /\ Ordered(Append(f, m))
          /\ \A i \in DOMAIN Append(f, m) : \/ i \in DOMAIN f /\ Append(f, m)[i] = f[i]
                                            \/ Append(f, m)[i] = m
          /\ Fills(Append(f, m)) = Fills(f) + (IF m = "partial" THEN 1 ELSE 0)
      BY <1>5, <2>1, FeedAppend
    <3>2. Append(f, m) = feed'[o]
      BY <1>5, <1>8
    <3>3. QED
      BY <3>1, <3>2, Zenon
  <2>3. venue[o].filled < OriginalSize[o] /\ filledAmounts[o] + Fills(f) <= venue[o].filled
    BY <1>5, <1>8 DEF OrderInv, FeedTrue, Counted
  <2>4. /\ submitCall[o] \notin {"none", "sent", "cancelled"} /\ cancelCall[o] # "ok"
        /\ submitCall[o] = "error" => o \in lostAck
    BY <1>8 DEF OrderInv, Submitting, Replies
  <2>5. venue'[o].status # "none" /\ (venue'[o].status = "live" => venue'[o].filled < OriginalSize[o])
    BY <1>4, <1>8, <2>3
  <2>6. FeedTrue(o)'
    <3>1. \A i \in DOMAIN g :
            /\ g[i] = "filled" => venue'[o].status = "filled" /\ venue'[o].filled = OriginalSize[o]
            /\ g[i] \in {"cancelled", "expired"} => venue'[o].status = "dead"
      BY <1>8, <2>1, <2>2 DEF Endings
    <3>2. QED
      BY <2>2, <2>5, <3>1 DEF FeedTrue, Ordered
  <2>7. Counted(o)'
    <3>1. filledAmounts[o] + Fills(g) <= venue'[o].filled
      BY <1>4, <1>5, <1>8, <2>2, <2>3
    <3>2. QED
      BY <1>1, <2>2, <3>1 DEF Counted, Fills, Opening, Ending
  <2>8. Submitting(o)' /\ Replies(o)'
    <3>1. cancelCall'[o] = "ok" => venue'[o].status = "dead"
      BY <1>8, <2>4
    <3>2. state[o] = "cancelled" => venue[o].status # "live" \/ o \in lostAck
      BY DEF OrderInv, Replies
    <3>3. Submitting(o)'
      BY <1>1, <1>8, <2>4 DEF OrderInv, Submitting
    <3>4. QED
      BY <1>1, <1>8, <2>4, <3>1, <3>2, <3>3 DEF Replies
  <2>9. QED
    BY <1>3, <2>6, <2>7, <2>8 DEF OrderInv
<1>9. CASE VenueFills(o)
  <2>1. PICK m \in {"filled", "partial"} :
          /\ feed'[o] = Append(feed[o], m)
          /\ m = "filled" <=> venue[o].filled + 1 = OriginalSize[o]
          /\ venue'[o].filled = venue[o].filled + 1
          /\ venue'[o].status = IF m = "filled" THEN "filled" ELSE "live"
    BY <1>9 DEF VenueFills, FlowTypeOK
  <2>2. m \in FeedMessage \ {"opened"}
    BY DEF FeedMessage
  <2>3. QED
    BY <1>8, <1>9, <2>1, <2>2 DEF VenueFills
<1>10. CASE VenueEnds(o)
  <2>1. PICK m \in {"cancelled", "expired"} : feed'[o] = Append(feed[o], m)
    BY <1>10 DEF VenueEnds, FlowTypeOK
  <2>2. m \in FeedMessage \ {"opened"}
    BY DEF FeedMessage
  <2>3. venue'[o].status = "dead" /\ venue'[o].filled = venue[o].filled
    BY <1>10 DEF VenueEnds, FlowTypeOK
  <2>4. QED
    BY <1>8, <1>10, <2>1, <2>2, <2>3 DEF VenueEnds
<1>11. CASE VenueHandlesCancel(o)
  <2>1. CASE /\ venue[o].status = "live" /\ venue' = [venue EXCEPT ![o].status = "dead"]
             /\ feed' = [feed EXCEPT ![o] = Append(@, "cancelled")]
    <3>1. "cancelled" \in FeedMessage \ {"opened"}
      BY DEF FeedMessage
    <3>2. /\ venue'[o].status = "dead" /\ venue'[o].filled = venue[o].filled
          /\ feed'[o] = Append(feed[o], "cancelled")
      BY <2>1 DEF FlowTypeOK
    <3>3. QED
      BY <1>8, <1>11, <2>1, <3>1, <3>2 DEF VenueHandlesCancel
  <2>2. CASE /\ cancelCall' = [cancelCall EXCEPT ![o] = IF KnowsIds THEN "error" ELSE "unknown"]
             /\ UNCHANGED <<venue, feed>>
    <3>1. cancelCall'[o] # "ok" /\ UNCHANGED <<submitCall, venue, feed, lostAck>>
      BY <1>11, <2>2 DEF VenueHandlesCancel, FlowTypeOK
    <3>2. FeedTrue(o)' /\ Counted(o)'
      BY <1>1, <3>1 DEF OrderInv, FeedTrue, Counted, Ordered
    <3>3. Submitting(o)' /\ Replies(o)'
      BY <1>1, <3>1 DEF OrderInv, Submitting, Replies
    <3>4. QED
      BY <1>3, <3>2, <3>3 DEF OrderInv
  <2>3. QED
    BY <1>11, <2>1, <2>2 DEF VenueHandlesCancel
<1>12. QED
  BY <1>6, <1>7, <1>9, <1>10, <1>11 DEF Venue

-----------------------------------------------------------------------------
(* Type correctness.                                                       *)

\* The steps of the registry and the tracker are those of OrderTracker, and the coordinator's
\* updates keep the registry's shape.
LEMMA RegistryTypeStep ==
  ASSUME FlowTypeOK,
         \/ \E o \in Orders : Coordinator(o) \/ Venue(o) \/ Deliver(o) \/ Lose(o)
         \/ TrackerStep
  PROVE  TypeOK'
<1>1. TypeOK
  BY DEF FlowTypeOK
<1>2. ASSUME NEW o \in Orders, Submit(o) PROVE TypeOK'
  <2>1. Track(o)
    BY <1>2 DEF Submit, Track
  <2>2. QED
    BY <1>1, <2>1, TypeStep DEF Steps
<1>3. ASSUME NEW o \in Orders, SubmitSucceeds(o) PROVE TypeOK'
  <2>1. state' \in [Orders -> PendingState \cup {"untracked", "removed"}]
    BY <1>1, <1>3 DEF SubmitSucceeds, updateState, TypeOK
  <2>2. terminalAt' \in [Orders -> {"none", "fresh", "old"}]
    BY <1>1, <1>3 DEF SubmitSucceeds, updateState, TypeOK
  <2>3. announced' \in [Orders -> Seq(PendingState)]
    <3>1. Append(announced[o], submitCall[o]) \in Seq(PendingState)
      BY <1>1, <1>3, AppendProperties DEF SubmitSucceeds, TypeOK
    <3>2. QED
      BY <1>1, <1>3, <3>1 DEF SubmitSucceeds, TypeOK
  <2>4. QED
    BY <1>1, <1>3, <2>1, <2>2, <2>3 DEF SubmitSucceeds, trackerVars, TypeOK
<1>4. ASSUME NEW o \in Orders, SubmitFails(o) \/ CancelReturns(o) PROVE TypeOK'
  <2>1. /\ state' \in [Orders -> PendingState \cup {"untracked", "removed"}]
        /\ terminalAt' \in [Orders -> {"none", "fresh", "old"}]
    BY <1>1, <1>4 DEF SubmitFails, CancelReturns, updateState, TypeOK, PendingState
  <2>2. QED
    BY <1>1, <1>4, <2>1 DEF SubmitFails, CancelReturns, trackerVars, TypeOK
<1>5. ASSUME UNCHANGED vars PROVE TypeOK'
  BY <1>1, <1>5, TypeStep DEF Steps
<1>6. ASSUME NEW o \in Orders, SubmitThrows(o) \/ Cancel(o) \/ Venue(o) \/ Lose(o) PROVE TypeOK'
  BY <1>5, <1>6 DEF SubmitThrows, Cancel, Venue, VenueAccepts, VenueRefuses, VenueFills, VenueEnds,
                    VenueHandlesCancel, Lose
<1>7. ASSUME NEW o \in Orders, Handler(o) \/ handleTimerFires(o) PROVE TypeOK'
  BY <1>1, <1>7, MovesOrEnds, TypeStep DEF Steps
<1>8. ASSUME NEW o \in Orders, Deliver(o) PROVE TypeOK'
  <2>1. ASSUME NEW m \in FeedMessage, Handle(o, m) PROVE Handler(o)
    BY <2>1 DEF Handle, Handler, FeedMessage
  <2>2. feed[o] # <<>> => Head(feed[o]) \in FeedMessage
    <3>1. feed[o] \in Seq(FeedMessage)
      BY DEF FlowTypeOK
    <3>2. QED
      BY <3>1, HeadTailProperties
  <2>3. QED
    BY <1>5, <1>7, <1>8, <2>1, <2>2 DEF Deliver
<1>9. ASSUME TrackerStep PROVE TypeOK'
  <2>1. ASSUME NEW o \in Orders, RegisterHandle(o) PROVE Steps
    BY <2>1 DEF RegisterHandle, Steps
  <2>2. QED
    BY <1>1, <1>7, <1>9, <2>1, TypeStep DEF TrackerStep, Steps
<1>10. QED
  BY <1>2, <1>3, <1>4, <1>6, <1>8, <1>9 DEF Coordinator

\* What the exchange makes of an order keeps its shape.
LEMMA FlowTypeStep ==
  ASSUME FlowTypeOK, \A p \in Orders : OrderInv(p), \A p \in Orders : OrderInv(p)',
         \/ \E o \in Orders : Coordinator(o) \/ Venue(o) \/ Deliver(o) \/ Lose(o)
         \/ TrackerStep
  PROVE  FlowTypeOK'
<1>1. TypeOK'
  BY RegistryTypeStep
<1>2. /\ \A p \in Orders : Len(announced'[p]) <= 2
      /\ \A p \in Orders : feed'[p] \in Seq(FeedMessage)
  BY DEF OrderInv, Announcements, FeedTrue
<1>3. ASSUME NEW o \in Orders, Coordinator(o) PROVE FlowTypeOK'
  <2>1. /\ submitCall' \in [Orders -> {"none", "sent", "error", "done"} \cup PendingState]
        /\ cancelCall' \in [Orders -> {"none", "sent", "ok", "error", "unknown"}]
        /\ UNCHANGED <<venue, feed, lostAck>>
    BY <1>3 DEF Coordinator, Submit, SubmitSucceeds, SubmitFails, SubmitThrows, Cancel,
                CancelReturns, FlowTypeOK
  <2>2. QED
    BY <1>1, <1>2, <2>1 DEF FlowTypeOK
<1>4. ASSUME NEW o \in Orders, Deliver(o) \/ Lose(o) PROVE FlowTypeOK'
  <2>1. /\ UNCHANGED <<submitCall, cancelCall, venue, lostAck>>
        /\ feed' = [feed EXCEPT ![o] = Tail(@)]
    BY <1>4 DEF Deliver, Lose
  <2>2. feed' \in [Orders -> Seq(FeedMessage)]
    BY <1>2, <2>1 DEF FlowTypeOK
  <2>3. QED
    BY <1>1, <1>2, <2>1, <2>2 DEF FlowTypeOK
<1>5. ASSUME TrackerStep PROVE FlowTypeOK'
  BY <1>1, <1>2, <1>5 DEF TrackerStep, flowVars, FlowTypeOK
<1>6. ASSUME NEW o \in Orders, Venue(o) PROVE FlowTypeOK'
  <2> DEFINE Order == [status : {"none", "live", "filled", "dead"}, filled : Nat]
  <2>0. OrderInv(o)
    OBVIOUS
  <2>1. OriginalSize[o] \in Nat /\ venue[o] \in Order /\ venue[o].filled <= OriginalSize[o]
    BY SizesAssumption DEF FlowTypeOK
  <2>2. /\ venue' \in [Orders -> Order] /\ \A p \in Orders : venue'[p].filled <= OriginalSize[p]
    <3>1. ASSUME NEW status \in {"live", "filled", "dead"}, NEW q \in Nat, q <= OriginalSize[o],
                 venue' = [venue EXCEPT ![o].filled = q, ![o].status = status]
          PROVE  /\ venue' \in [Orders -> Order]
                 /\ \A p \in Orders : venue'[p].filled <= OriginalSize[p]
      BY <3>1 DEF FlowTypeOK
    <3>2. CASE VenueAccepts(o)
      <4>1. PICK q \in 0..OriginalSize[o], status \in {"LIVE", "MATCHED", "CANCELLED", "EXPIRED"} :
              venue' = [venue EXCEPT ![o].filled = q,
                                     ![o].status = [LIVE |-> "live", MATCHED |-> "filled",
                                                    CANCELLED |-> "dead", EXPIRED |-> "dead"][status]]
        BY <3>2 DEF VenueAccepts
      <4>2. PICK word \in {"live", "filled", "dead"} :
              word = [LIVE |-> "live", MATCHED |-> "filled",
                      CANCELLED |-> "dead", EXPIRED |-> "dead"][status]
        OBVIOUS
      <4>3. q \in Nat /\ q <= OriginalSize[o]
        BY <2>1
      <4>4. QED
        BY <3>1, <4>1, <4>2, <4>3
    <3>3. CASE VenueFills(o)
      <4>1. PICK word \in {"filled", "live"} :
              venue' = [venue EXCEPT ![o].filled = @ + 1, ![o].status = word]
        BY <3>3 DEF VenueFills
      <4>2. venue[o].filled + 1 \in Nat /\ venue[o].filled + 1 <= OriginalSize[o]
        BY <2>1, <2>0, <3>3 DEF VenueFills, OrderInv, FeedTrue
      <4>3. QED
        BY <3>1, <4>1, <4>2
    <3>4. CASE venue' = [venue EXCEPT ![o].status = "dead"]
      BY <2>1, <3>4 DEF FlowTypeOK
    <3>5. CASE venue' = venue
      BY <3>5 DEF FlowTypeOK
    <3>6. QED
      BY <1>6, <3>2, <3>3, <3>4, <3>5
         DEF Venue, VenueRefuses, VenueEnds, VenueHandlesCancel
  <2>3. feed' \in [Orders -> Seq(FeedMessage)]
    <3>1. feed' = feed \/ \E g : feed' = [feed EXCEPT ![o] = g]
      BY <1>6 DEF Venue, VenueAccepts, VenueRefuses, VenueFills, VenueEnds, VenueHandlesCancel
    <3>2. QED
      BY <1>2, <3>1 DEF FlowTypeOK
  <2>4. submitCall' \in [Orders -> {"none", "sent", "error", "done"} \cup PendingState]
    <3>1. CASE VenueAccepts(o)
      <4>1. \A q \in 0..OriginalSize[o], status \in {"LIVE", "MATCHED", "CANCELLED", "EXPIRED"} :
              (status = "MATCHED" <=> q = OriginalSize[o]) => mapStatus(o, status, q) \in PendingState
        BY <2>1 DEF mapStatus, PendingState
      <4>2. PICK reply \in PendingState \cup {"error"} : submitCall' = [submitCall EXCEPT ![o] = reply]
        BY <3>1, <4>1 DEF VenueAccepts
      <4>3. QED
        BY <4>2 DEF FlowTypeOK
    <3>2. CASE ~VenueAccepts(o)
      BY <1>6, <3>2 DEF Venue, VenueRefuses, VenueFills, VenueEnds, VenueHandlesCancel, FlowTypeOK
    <3>3. QED
      BY <3>1, <3>2
  <2>5. cancelCall' \in [Orders -> {"none", "sent", "ok", "error", "unknown"}]
    BY <1>6 DEF Venue, VenueAccepts, VenueRefuses, VenueFills, VenueEnds, VenueHandlesCancel,
                FlowTypeOK
  <2>6. lostAck' \in SUBSET Orders
    BY <1>6 DEF Venue, VenueAccepts, VenueRefuses, VenueFills, VenueEnds, VenueHandlesCancel,
                FlowTypeOK
  <2>7. QED
    BY <1>1, <1>2, <2>2, <2>3, <2>4, <2>5, <2>6 DEF FlowTypeOK
<1>7. QED
  BY <1>3, <1>4, <1>5, <1>6

-----------------------------------------------------------------------------
(* The theorems.                                                           *)

\* Every reachable state agrees, order by order: the calls under way with the registry and the
\* exchange, the feed with what became of the order at the exchange, the count with the fills
\* still to be reported, and the announcements with the state shown.
THEOREM FlowInductive == FlowSpec => []FlowInv
<1>1. FlowInit => FlowInv
  <2> SUFFICES ASSUME FlowInit PROVE FlowInv
    OBVIOUS
  <2>1. TypeOK
    BY DEF FlowInit, Init, TypeOK, Promise, PendingState
  <2>2. /\ submitCall \in [Orders -> {"none", "sent", "error", "done"} \cup PendingState]
        /\ cancelCall \in [Orders -> {"none", "sent", "ok", "error", "unknown"}]
        /\ venue \in [Orders -> [status : {"none", "live", "filled", "dead"}, filled : Nat]]
        /\ \A o \in Orders : venue[o].filled <= OriginalSize[o]
        /\ feed \in [Orders -> Seq(FeedMessage)] /\ lostAck \in SUBSET Orders
    BY SizesAssumption DEF FlowInit
  <2>3. \A o \in Orders : Len(announced[o]) = 0 /\ announced[o] = <<>> /\ feed[o] = <<>>
    BY DEF FlowInit, Init
  <2>4. ASSUME NEW o \in Orders PROVE OrderInv(o)
    <3>1. /\ state[o] = "untracked" /\ terminalAt[o] = "none" /\ filledAmounts[o] = 0
          /\ handles = {} /\ submitCall[o] = "none" /\ cancelCall[o] = "none"
          /\ venue[o].status = "none" /\ venue[o].filled = 0
      <4>1. Init /\ venue[o] = [status |-> "none", filled |-> 0]
        BY DEF FlowInit
      <4>2. submitCall[o] = "none" /\ cancelCall[o] = "none"
        BY DEF FlowInit
      <4>3. QED
        BY <4>1, <4>2 DEF Init
    <3>2. PICK f \in Seq(FeedMessage) : f = feed[o] /\ f = <<>> /\ Len(f) = 0 /\ DOMAIN f = {}
      <4>1. <<>> \in Seq(FeedMessage) /\ Len(<<>>) = 0 /\ DOMAIN <<>> = {}
        OBVIOUS
      <4>2. QED
        BY <2>3, <4>1, Zenon
    <3>3. Ordered(f) /\ Fills(f) = 0 - 0 - 0
      BY <3>2 DEF Ordered, Fills, Opening, Ending
    <3>4. FeedTrue(o) /\ Counted(o)
      BY <3>1, <3>2, <3>3 DEF FeedTrue, Counted
    <3>5. Submitting(o) /\ Replies(o)
      BY <3>1 DEF Submitting, Replies
    <3>6. PICK a : a = announced[o] /\ a = <<>> /\ Len(a) = 0 /\ DOMAIN a = {}
      BY <2>3
    <3>7. Announcements(o)
      BY <3>1, <3>6 DEF Announcements
    <3>8. QED
      BY <3>4, <3>5, <3>7 DEF OrderInv
  <2>5. \A o \in Orders : Len(announced[o]) <= 2
    BY <2>3
  <2>6. QED
    BY <2>1, <2>2, <2>4, <2>5 DEF FlowInv, FlowTypeOK
<1>2. FlowInv /\ [FlowNext]_allVars => FlowInv'
  <2> SUFFICES ASSUME FlowInv, [FlowNext]_allVars PROVE FlowInv'
    OBVIOUS
  <2>1. FlowTypeOK /\ \A p \in Orders : OrderInv(p)
    BY DEF FlowInv
  <2>2. CASE UNCHANGED allVars
    BY <2>2 DEF allVars, vars, registryVars, trackerVars, flowVars, FlowInv, FlowTypeOK, TypeOK,
                OrderInv, Submitting, FeedTrue, Counted, Replies, Announcements
  <2>3. CASE FlowNext
    <3>1. \/ \E o \in Orders : Coordinator(o) \/ Venue(o) \/ Deliver(o) \/ Lose(o)
          \/ TrackerStep
      BY <2>3 DEF FlowNext, Coordinator, Venue
    <3>2. ASSUME NEW p \in Orders PROVE OrderInv(p)'
      <4>1. ASSUME NEW o \in Orders, Coordinator(o) \/ Venue(o) PROVE OrderInv(p)'
        BY <2>1, <4>1, CoordinatorStep, VenueStep, OthersKept, OrderKept
      <4>2. ASSUME NEW o \in Orders, Deliver(o) \/ Lose(o) PROVE OrderInv(p)'
        BY <2>1, <4>2, ReadStep
      <4>3. ASSUME TrackerStep PROVE OrderInv(p)'
        BY <2>1, <4>3, TrackerStepKinds, OrderKept
      <4>4. QED
        BY <3>1, <4>1, <4>2, <4>3
    <3>3. FlowTypeOK'
      BY <2>1, <3>1, <3>2, FlowTypeStep
    <3>4. QED
      BY <3>2, <3>3 DEF FlowInv
  <2>4. QED
    BY <2>2, <2>3
<1>3. QED
  BY <1>1, <1>2, PTL DEF FlowSpec

\* The size the tracker reports as filled is never more than the exchange has filled, whatever
\* messages are lost and whenever the replies come: a fill not yet counted is still in the feed.
THEOREM FillsNeverOverstated == FlowSpec => []FilledNeverOverstated
<1>1. FlowInv => FilledNeverOverstated
  <2> SUFFICES ASSUME FlowInv, NEW o \in Orders
               PROVE  filledAmounts[o] <= venue[o].filled
    BY DEF FlowInv, FilledNeverOverstated
  <2>1. FlowTypeOK /\ OrderInv(o)
    BY DEF FlowInv
  <2>2. feed[o] \in Seq(FeedMessage) /\ Ordered(feed[o])
    BY <2>1 DEF OrderInv, FeedTrue
  <2>3. Fills(feed[o]) \in Nat
    BY <2>2, FillsCounted
  <2>4. QED
    BY <2>1, <2>3 DEF FlowTypeOK, TypeOK, OrderInv, Counted
<1>2. QED
  BY <1>1, FlowInductive, PTL

\* An order shown as cancelled is dead at the exchange, or the acknowledgement of its submission
\* was lost: neither a cancel that races a fill nor the late reply of submit hides a live order.
THEOREM CancelledOrdersAreDead == FlowSpec => []CancelledIsDead
<1>1. FlowInv => CancelledIsDead
  BY DEF FlowInv, OrderInv, Replies, CancelledIsDead
<1>2. QED
  BY <1>1, FlowInductive, PTL

\* Between them the coordinator and the tracker call onComplete for the end of an order at most
\* once, and for nothing after it.
THEOREM EndsReportedOnce == FlowSpec => []EndReportedOnce
<1>1. FlowInv => EndReportedOnce
  BY DEF FlowInv, OrderInv, Announcements, EndReportedOnce
<1>2. QED
  BY <1>1, FlowInductive, PTL
=============================================================================
