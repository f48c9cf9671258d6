------------------------------ MODULE Strategy ------------------------------
(***************************************************************************)
(* The tick loop of BuiltStrategy (src/strategy/built-strategy.ts) with the *)
(* lifecycle state machine, the connectivity watchdog and the book of open  *)
(* positions it drives.                                                    *)
(*                                                                         *)
(* A call of tick() runs without interruption from one await to the next,   *)
(* so an action is one such segment, and pc names the await a call is        *)
(* suspended at.  While it is, other calls of tick() arrive, the operator    *)
(* changes the lifecycle state, and time passes.                            *)
(*                                                                         *)
(* Every order is for one lot of LotSize.  Prices, fees, slippage warnings,  *)
(* events and what the journal records are left out; three consecutive       *)
(* journal writes with no state change between them are one await.          *)
(***************************************************************************)
EXTENDS Integers, FiniteSets, StrategyStateMachine

CONSTANTS Ticks,        \* concurrent calls of tick()
          Markets,      \* condition ids
          WarmupTicks,  \* ticks in warming_up before trading
          MaxPositions, \* limit of the MaxPositionsGuard in the guard pipeline
          LotSize,      \* units in an order
          MaxHolding,   \* bound: no entry fill takes the account beyond it
          Fills,        \* units the executor may report of an accepted order
          NoMarket

ASSUME TickAssumption == /\ WarmupTicks \in Nat
                         /\ MaxPositions \in Nat
                         /\ LotSize \in Nat \ {0}
                         /\ MaxHolding \in Nat
                         /\ Fills \subseteq 0..LotSize
                         /\ NoMarket \notin Markets

VARIABLES
  strategyState,  \* stateMachine
  tickCount,      \* tickCount: ticks counted in warming_up
  watchdog,       \* status of the watchdog: time since the last tick touched it
  tickInProgress, \* the re-entrancy flag
  positions,      \* positionManager: markets with an open position, of one lot each
  pc,             \* where each call is suspended
  todo,           \* positions of the call's snapshot not yet examined for exit
  market,         \* market of the call's exit or entry
  dataStale,      \* whether the call found the data stale as it began
  ctxCount,       \* open positions in the context the call was made with
  holding,        \* history: units of each market on the account
  reported        \* history: units reported by POSITION_OPEN_FAILED

shared == <<strategyState, tickCount, watchdog, tickInProgress>>
locals == <<pc, todo, market, dataStale, ctxCount>>
account == <<holding, reported>>
vars == <<shared, locals, account, positions>>

Awaits == {"exit_journal", "exit_submit", "exit_done", "exits_over",
           "block_journal", "entry_submit", "entry_journal"}

TypeOK ==
  /\ strategyState \in StrategyState
  /\ tickCount \in 0..WarmupTicks
  /\ watchdog \in {"healthy", "degraded", "critical"}
  /\ tickInProgress \in BOOLEAN
  /\ positions \in SUBSET Markets
  /\ pc \in [Ticks -> Awaits \cup {"idle"}]
  /\ todo \in [Ticks -> SUBSET Markets]
  /\ market \in [Ticks -> Markets \cup {NoMarket}]
  /\ dataStale \in [Ticks -> BOOLEAN]
  /\ ctxCount \in [Ticks -> Nat]
  /\ holding \in [Markets -> Nat]
  /\ reported \in [Markets -> Nat]

Init ==
  /\ strategyState = "initializing"
  /\ tickCount = 0
  /\ watchdog = "healthy"
  /\ tickInProgress = FALSE
  /\ positions = {}
  /\ pc = [t \in Ticks |-> "idle"]
  /\ todo = [t \in Ticks |-> {}]
  /\ market = [t \in Ticks |-> NoMarket]
  /\ dataStale = [t \in Ticks |-> FALSE]
  /\ ctxCount = [t \in Ticks |-> 0]
  /\ holding = [m \in Markets |-> 0]
  /\ reported = [m \in Markets |-> 0]

-----------------------------------------------------------------------------
(* Segments of tick().                                                     *)

\* The finally block: every way out of a call clears the flag.
Return(t) ==
  /\ pc' = [pc EXCEPT ![t] = "idle"]
  /\ todo' = [todo EXCEPT ![t] = {}]
  /\ market' = [market EXCEPT ![t] = NoMarket]
  /\ dataStale' = [dataStale EXCEPT ![t] = FALSE]
  /\ ctxCount' = [ctxCount EXCEPT ![t] = 0]
  /\ tickInProgress' = FALSE

AwaitAt(t, at, m, rest) ==
  /\ pc' = [pc EXCEPT ![t] = at]
  /\ todo' = [todo EXCEPT ![t] = rest]
  /\ market' = [market EXCEPT ![t] = m]
  /\ tickInProgress' = TRUE

\* What a call keeps from one await to the next.
Kept == UNCHANGED <<dataStale, ctxCount>>

\* MaxPositionsGuard asks the context, which counts the open positions as the call is made or
\* as the guard asks.
PositionsGuardPasses(t) ==
  \E count \in {ctxCount[t], Cardinality(positions)} : count < MaxPositions

\* Phase 1 continues over the rest of the snapshot: some positions have no exit signal or
\* their exit policy throws, the next one that has a signal is journaled.
Exits(t, rest) ==
  \/ \E m \in rest : \E later \in SUBSET (rest \ {m}) : AwaitAt(t, "exit_journal", m, later)
  \/ AwaitAt(t, "exits_over", NoMarket, {})

\* Mutant: update_warmup is counted again after the warm-up is over.
advanceLifecycleOffByOne ==
  LET started == IF strategyState = "initializing" THEN "warming_up" ELSE strategyState
      count == IF started = "warming_up" /\ WarmupTicks > 0 THEN tickCount + 1 ELSE tickCount
  IN  <<IF started = "warming_up" /\ count > WarmupTicks THEN "active" ELSE started, count>>

\* initialize, then the warm-up count, then warmup_complete, in one tick when they apply.
advanceLifecycle ==
  LET started == IF strategyState = "initializing"
                 THEN transition(strategyState, "initialize") ELSE strategyState
      warming == started = "warming_up"
      count == IF warming /\ WarmupTicks > 0 THEN tickCount + 1 ELSE tickCount
  IN  <<IF warming /\ (WarmupTicks > 0 => count >= WarmupTicks)
        THEN transition(started, "warmup_complete") ELSE started,
        count>>

\* Mutant: the re-entrancy check is missing.
BeginUnguarded(t) ==
  /\ pc[t] = "idle"
  /\ watchdog' = "healthy"
  /\ strategyState' = advanceLifecycle[1]
  /\ tickCount' = advanceLifecycle[2]
  /\ IF canClose(strategyState')
     THEN /\ dataStale' = [dataStale EXCEPT ![t] = watchdog # "healthy"]
          /\ ctxCount' = [ctxCount EXCEPT ![t] = Cardinality(positions)]
          /\ Exits(t, positions)
     ELSE Return(t)
  /\ UNCHANGED <<positions, account>>

\* A call made while another runs is dropped, which changes nothing.  The context it was
\* made with shows the open positions as of the call.
Begin(t) ==
  /\ pc[t] = "idle" /\ ~tickInProgress
  /\ watchdog' = "healthy"
  /\ strategyState' = advanceLifecycle[1]
  /\ tickCount' = advanceLifecycle[2]
  /\ IF canClose(strategyState')
     THEN /\ dataStale' = [dataStale EXCEPT ![t] = watchdog # "healthy"]
          /\ ctxCount' = [ctxCount EXCEPT ![t] = Cardinality(positions)]
          /\ Exits(t, positions)
     ELSE Return(t)
  /\ UNCHANGED <<positions, account>>

Quiet == UNCHANGED <<strategyState, tickCount, watchdog>>

SubmitExit(t) ==
  /\ pc[t] = "exit_journal"
  /\ Quiet /\ Kept /\ UNCHANGED <<positions, account>>
  /\ AwaitAt(t, "exit_submit", market[t], todo[t])

\* The error is journaled and the position kept.
ExitRefused(t) ==
  /\ pc[t] = "exit_submit"
  /\ Quiet /\ Kept /\ UNCHANGED <<positions, account>>
  /\ AwaitAt(t, "exit_done", market[t], todo[t])

\* The executor's promise rejects: caught, and the loop goes on at once.
ExitThrows(t) ==
  /\ pc[t] = "exit_submit"
  /\ Quiet /\ Kept /\ UNCHANGED <<positions, account>>
  /\ Exits(t, todo[t])

\* The position is closed whatever part of the order was filled.
ExitAccepted(t) ==
  /\ pc[t] = "exit_submit"
  /\ Quiet /\ Kept /\ UNCHANGED reported
  /\ \E q \in Fills : /\ q <= holding[market[t]]
                      /\ holding' = [holding EXCEPT ![market[t]] = @ - q]
  /\ positions' = positions \ {market[t]}
  /\ \/ market[t] \in positions /\ AwaitAt(t, "exit_done", market[t], todo[t])
     \/ market[t] \notin positions /\ Exits(t, todo[t])

ExitDone(t) ==
  /\ pc[t] = "exit_done"
  /\ Quiet /\ Kept /\ UNCHANGED <<positions, account>>
  /\ Exits(t, todo[t])

\* Mutant: the lifecycle state is judged as the tick begins only.
EntryUnchecked(t) ==
  /\ pc[t] = "exits_over"
  /\ Quiet /\ UNCHANGED <<positions, account>>
  /\ IF dataStale[t]
     THEN Return(t)
     ELSE \/ Return(t)
          \/ Kept /\ AwaitAt(t, "block_journal", NoMarket, {})
          \/ /\ Kept /\ PositionsGuardPasses(t)
             /\ \E m \in Markets : AwaitAt(t, "entry_submit", m, {})

\* Phase 2.  The tick also ends when a guard or the detector throws, when there is no signal
\* and when the order's size or price is invalid.
Entry(t) ==
  /\ pc[t] = "exits_over"
  /\ Quiet /\ UNCHANGED <<positions, account>>
  /\ IF ~canOpen(strategyState) \/ dataStale[t]
     THEN Return(t)
     ELSE \/ Return(t)
          \/ Kept /\ AwaitAt(t, "block_journal", NoMarket, {})
          \/ /\ Kept /\ PositionsGuardPasses(t)
             /\ \E m \in Markets : AwaitAt(t, "entry_submit", m, {})

\* Mutant: the position is opened although the order was refused.
EntryRefusedOpens(t) ==
  /\ pc[t] = "entry_submit"
  /\ Quiet /\ Kept /\ UNCHANGED account
  /\ positions' = positions \cup {market[t]}
  /\ AwaitAt(t, "entry_journal", market[t], {})

EntryRefused(t) ==
  /\ pc[t] = "entry_submit"
  /\ Quiet /\ Kept /\ UNCHANGED <<positions, account>>
  /\ AwaitAt(t, "entry_journal", market[t], {})

\* Mutant: the flag is cleared on the normal path only.
EntryThrowsKeepsFlag(t) ==
  /\ pc[t] = "entry_submit"
  /\ Quiet /\ UNCHANGED <<positions, account, tickInProgress>>
  /\ pc' = [pc EXCEPT ![t] = "idle"]
  /\ todo' = [todo EXCEPT ![t] = {}]
  /\ market' = [market EXCEPT ![t] = NoMarket]
  /\ Kept

EntryThrows(t) ==
  /\ pc[t] = "entry_submit"
  /\ Quiet /\ UNCHANGED <<positions, account>>
  /\ Return(t)

\* A position of the whole lot is opened whatever part of the order was filled, unless the
\* market has one: then the fill is only reported.
EntryAccepted(t) ==
  LET m == market[t] IN
  /\ pc[t] = "entry_submit"
  /\ Quiet
  /\ \E q \in Fills :
       /\ holding[m] + q <= MaxHolding
       /\ holding' = [holding EXCEPT ![m] = @ + q]
       /\ \/ /\ m \in positions
             /\ reported' = [reported EXCEPT ![m] = @ + q]
             /\ Return(t)
             /\ UNCHANGED positions
          \/ /\ m \notin positions
             /\ positions' = positions \cup {m}
             /\ AwaitAt(t, "entry_journal", m, {})
             /\ Kept /\ UNCHANGED reported

EntryDone(t) ==
  /\ pc[t] \in {"entry_journal", "block_journal"}
  /\ Quiet /\ UNCHANGED <<positions, account>>
  /\ Return(t)

Resume(t) == \/ SubmitExit(t) \/ ExitRefused(t) \/ ExitThrows(t) \/ ExitAccepted(t)
             \/ ExitDone(t) \/ Entry(t) \/ EntryRefused(t) \/ EntryThrows(t) \/ EntryAccepted(t)
             \/ EntryDone(t)

-----------------------------------------------------------------------------
(* The operator and the clock.                                             *)

Operate ==
  /\ \E type \in {"pause", "resume", "enter_closing_only", "halt", "shutdown"} :
       /\ strategyState \in From[type]
       /\ strategyState' = transition(strategyState, type)
  /\ UNCHANGED <<tickCount, watchdog, tickInProgress, locals, account, positions>>

Silence ==
  /\ watchdog' = [healthy |-> "degraded", degraded |-> "critical", critical |-> "critical"][watchdog]
  /\ UNCHANGED <<strategyState, tickCount, tickInProgress, locals, account, positions>>

Next == \/ \E t \in Ticks : Begin(t) \/ Resume(t)
        \/ Operate
        \/ Silence

\* Journal writes and executor calls settle.
Fairness == \A t \in Ticks : WF_vars(Resume(t))

Spec == Init /\ [][Next]_vars
FairSpec == Spec /\ Fairness

-----------------------------------------------------------------------------
(* Properties.                                                             *)

\* A call exits only positions that are still open: the snapshot it took before its awaits
\* stays current until it has worked it off, so POSITION_CLOSE_FAILED is never reported.
SnapshotCurrent ==
  \A t \in Ticks :
    /\ todo[t] \subseteq positions
    /\ pc[t] \in {"exit_journal", "exit_submit"} => market[t] \in positions

\* The book never exceeds the limit of MaxPositionsGuard, although the guard judges the
\* count of a context taken before the tick's exits and its entry is entered after an await.
MaxPositionsRespected == Cardinality(positions) <= MaxPositions

\* With an executor that fills every accepted order, each unit on the account belongs to
\* an open position or was reported as a fill that could not be tracked, whatever orders
\* are refused, fail or find the market taken.
EveryFillAccounted ==
  \A m \in Markets :
    holding[m] = reported[m] + IF m \in positions THEN LotSize ELSE 0

\* An entry is submitted only while the strategy is active and its data was fresh as the
\* tick began, also when the state changed during the awaits of the tick's exits.
EntryOnlyWhileActive ==
  [][\A t \in Ticks : pc[t] # "entry_submit" /\ pc'[t] = "entry_submit" =>
       strategyState' = "active" /\ ~dataStale'[t]]_vars

\* No call leaves the strategy locked: every tick ends and clears the flag, on the normal
\* path and on every early return, refusal and exception.
TickEnds == tickInProgress ~> ~tickInProgress

\* "Fatal error - only shutdown allowed, no trading whatsoever" (lifecycle/types.ts:21):
\* once halted, or shut down, the strategy sends no order.
NoTradingWhenHalted ==
  [][\A t \in Ticks : \A at \in {"exit_submit", "entry_submit"} :
       pc[t] # at /\ pc'[t] = at => strategyState \notin {"halted", "shutdown"}]_vars

\* "Position open failed after fill" (built-strategy.ts:413): a position is opened or
\* closed after the fill it stands for, so the account holds the size of each position.
PositionsBackedByFills ==
  \A m \in positions : holding[m] >= LotSize
=============================================================================
