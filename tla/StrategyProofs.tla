--------------------------- MODULE StrategyProofs ---------------------------
(***************************************************************************)
(* Proofs about Strategy, for any set of markets, any number of calls of    *)
(* tick() and any warm-up and position limit.  The invariant says that at    *)
(* most one call is between its awaits (OneCall), what that call still       *)
(* knows of the book (CallOK), and that the warm-up count has not run out   *)
(* before the strategy is active (WarmupLeft).                             *)
(***************************************************************************)
EXTENDS Strategy, FiniteSetTheorems, TLAPS

OneCall == \A t \in Ticks : pc[t] # "idle" =>
             tickInProgress /\ \A u \in Ticks : pc[u] # "idle" => u = t

WarmupLeft == strategyState \in {"initializing", "warming_up"} /\ WarmupTicks > 0
                => tickCount < WarmupTicks

Exiting == {"exit_journal", "exit_submit", "exit_done"}

\* The call's view of the book: the rest of its snapshot is open, the position it is about
\* to exit is open and not examined again, the count of its context is not too low, and
\* an entry on its way has room.
CallOK(t) ==
  /\ pc[t] \notin Exiting => todo[t] = {}
  /\ todo[t] \subseteq positions
  /\ pc[t] \in {"exit_journal", "exit_submit"} => market[t] \in positions \ todo[t]
  /\ pc[t] \in Exiting \cup {"exits_over"} => Cardinality(positions) <= ctxCount[t]
  /\ pc[t] = "entry_submit" => market[t] \in Markets /\ Cardinality(positions) < MaxPositions

BookOK == IsFiniteSet(positions) /\ Cardinality(positions) <= MaxPositions

IInv == TypeOK /\ OneCall /\ WarmupLeft /\ BookOK /\ \A t \in Ticks : CallOK(t)

-----------------------------------------------------------------------------
(* Lifecycle.                                                              *)

\* A transition leads to a state of the strategy, and only initialize leads back into the
\* warm-up.
LEMMA TransitionType ==
  ASSUME NEW s \in StrategyState, NEW type \in DOMAIN From
  PROVE  /\ transition(s, type) \in StrategyState
         /\ type \in {"pause", "resume", "enter_closing_only", "halt", "shutdown"} /\ s \in From[type]
              => transition(s, type) \notin {"initializing", "warming_up"}
BY DEF StrategyState, From, To, transition

\* The lifecycle part of a tick keeps the warm-up count within its bound.
LEMMA AdvanceType ==
  ASSUME TypeOK, WarmupLeft
  PROVE  /\ advanceLifecycle[1] \in StrategyState
         /\ advanceLifecycle[2] \in 0..WarmupTicks
         /\ advanceLifecycle[1] \in {"initializing", "warming_up"} /\ WarmupTicks > 0
              => advanceLifecycle[2] < WarmupTicks
<1>1. CASE strategyState \in {"initializing", "warming_up"}
  <2>1. advanceLifecycle = LET count == IF WarmupTicks > 0 THEN tickCount + 1 ELSE tickCount
                           IN  <<IF WarmupTicks > 0 => count >= WarmupTicks
                                 THEN "active" ELSE "warming_up", count>>
    BY <1>1 DEF advanceLifecycle, transition, From, To
  <2>2. QED
    BY <1>1, <2>1, TickAssumption DEF TypeOK, WarmupLeft, StrategyState
<1>2. CASE strategyState \notin {"initializing", "warming_up"}
  <2>1. advanceLifecycle = <<strategyState, tickCount>>
    BY <1>2 DEF advanceLifecycle
  <2>2. QED
    BY <1>2, <2>1 DEF TypeOK
<1>3. QED
  BY <1>1, <1>2

-----------------------------------------------------------------------------
(* Calls.                                                                  *)

\* What a segment of call t leaves behind: a well-formed call, the flag set while the call
\* is suspended, and the other calls where they were.
LocalsOK(t) ==
  /\ pc' \in [Ticks -> Awaits \cup {"idle"}]
  /\ todo' \in [Ticks -> SUBSET Markets]
  /\ market' \in [Ticks -> Markets \cup {NoMarket}]
  /\ tickInProgress' \in BOOLEAN
  /\ pc'[t] # "idle" => tickInProgress'
  /\ \A u \in Ticks \ {t} : pc'[u] = pc[u] /\ todo'[u] = todo[u]

\* A call suspended with a snapshot of open positions satisfies what is asked of it.
LEMMA SuspendOK ==
  ASSUME TypeOK, NEW t \in Ticks, NEW at \in Awaits, NEW m \in Markets \cup {NoMarket},
         NEW rest \in SUBSET Markets, AwaitAt(t, at, m, rest)
  PROVE  LocalsOK(t) /\ pc'[t] = at /\ todo'[t] = rest /\ market'[t] = m
BY DEF AwaitAt, TypeOK, LocalsOK

\* A call that returned satisfies whatever is asked of a suspended one.
LEMMA ReturnOK ==
  ASSUME TypeOK, NEW t \in Ticks, Return(t)
  PROVE  /\ LocalsOK(t) /\ CallOK(t)'
         /\ dataStale' \in [Ticks -> BOOLEAN] /\ ctxCount' \in [Ticks -> Nat]
<1>1. LocalsOK(t) /\ pc'[t] = "idle" /\ todo'[t] = {}
  BY DEF Return, TypeOK, LocalsOK
<1>2. dataStale' \in [Ticks -> BOOLEAN] /\ ctxCount' \in [Ticks -> Nat]
  BY DEF Return, TypeOK
<1>3. CallOK(t)'
  BY <1>1 DEF CallOK, Exiting
<1>4. QED
  BY <1>1, <1>2, <1>3

\* The exit loop keeps the call's view of the book, if what remains of the snapshot is
\* open and the count of the context is not too low.
LEMMA ExitsOK ==
  ASSUME TypeOK, NEW t \in Ticks, NEW rest \in SUBSET Markets, Exits(t, rest),
         rest \subseteq positions', Cardinality(positions') <= ctxCount'[t]
  PROVE  LocalsOK(t) /\ CallOK(t)'
<1>1. ASSUME NEW m \in rest, NEW later \in SUBSET (rest \ {m}),
             AwaitAt(t, "exit_journal", m, later)
      PROVE  LocalsOK(t) /\ CallOK(t)'
  <2>1. /\ LocalsOK(t) /\ pc'[t] = "exit_journal" /\ todo'[t] = later /\ market'[t] = m
    BY <1>1, SuspendOK DEF Awaits
  <2>2. QED
    BY <2>1 DEF CallOK, Exiting
<1>2. ASSUME AwaitAt(t, "exits_over", NoMarket, {})
      PROVE  LocalsOK(t) /\ CallOK(t)'
  <2>1. LocalsOK(t) /\ pc'[t] = "exits_over" /\ todo'[t] = {}
    BY <1>2, SuspendOK DEF Awaits
  <2>2. QED
    BY <2>1 DEF CallOK, Exiting
<1>3. QED
  BY <1>1, <1>2 DEF Exits

\* A segment that leaves the lifecycle and the clock alone preserves the invariant, if it
\* leaves its own call and the book in order.
LEMMA SegmentOK ==
  ASSUME IInv, NEW t \in Ticks,
         pc[t] # "idle" \/ ~tickInProgress,
         LocalsOK(t), CallOK(t)', BookOK', positions' \in SUBSET Markets,
         dataStale' \in [Ticks -> BOOLEAN], ctxCount' \in [Ticks -> Nat],
         holding' \in [Markets -> Nat], reported' \in [Markets -> Nat],
         strategyState' \in StrategyState, tickCount' \in 0..WarmupTicks, WarmupLeft',
         watchdog' \in {"healthy", "degraded", "critical"}
  PROVE  IInv'
<1>1. \A u \in Ticks \ {t} : pc'[u] = "idle" /\ todo'[u] = {}
  BY DEF IInv, OneCall, LocalsOK, CallOK, Exiting
<1>2. \A u \in Ticks \ {t} : CallOK(u)'
  BY <1>1 DEF CallOK, Exiting
<1>3. OneCall'
  BY <1>1 DEF OneCall, LocalsOK
<1>4. TypeOK'
  BY DEF TypeOK, LocalsOK
<1>5. QED
  BY <1>2, <1>3, <1>4 DEF IInv

\* A call begins only when no other is suspended.
LEMMA BeginStep ==
  ASSUME IInv, NEW t \in Ticks, Begin(t)
  PROVE  IInv'
<1>1. TypeOK /\ BookOK /\ WarmupLeft
  BY DEF IInv
<1>2. /\ strategyState' \in StrategyState /\ tickCount' \in 0..WarmupTicks /\ WarmupLeft'
      /\ watchdog' = "healthy"
  BY <1>1, AdvanceType DEF Begin, WarmupLeft
<1>3. positions' = positions /\ holding' = holding /\ reported' = reported /\ BookOK'
  BY <1>1 DEF Begin, account, BookOK
<1>4. /\ LocalsOK(t) /\ CallOK(t)'
      /\ dataStale' \in [Ticks -> BOOLEAN] /\ ctxCount' \in [Ticks -> Nat]
  <2>1. CASE Return(t)
    BY <1>1, <2>1, ReturnOK
  <2>2. CASE /\ Exits(t, positions)
             /\ dataStale' = [dataStale EXCEPT ![t] = watchdog # "healthy"]
             /\ ctxCount' = [ctxCount EXCEPT ![t] = Cardinality(positions)]
    <3>1. Cardinality(positions) \in Nat
      BY <1>1, FS_CardinalityType DEF BookOK
    <3>2. /\ dataStale' \in [Ticks -> BOOLEAN] /\ ctxCount' \in [Ticks -> Nat]
          /\ Cardinality(positions') <= ctxCount'[t]
      BY <1>1, <1>3, <2>2, <3>1 DEF TypeOK
    <3>3. LocalsOK(t) /\ CallOK(t)'
      BY <1>1, <1>3, <2>2, <3>2, ExitsOK DEF TypeOK
    <3>4. QED
      BY <3>2, <3>3
  <2>3. QED
    BY <2>1, <2>2 DEF Begin
<1>5. QED
  BY <1>1, <1>2, <1>3, <1>4, SegmentOK DEF Begin, TypeOK

\* A resumed call never changes the lifecycle or the clock.
LEMMA QuietSegmentOK ==
  ASSUME IInv, NEW t \in Ticks, pc[t] # "idle", Quiet,
         LocalsOK(t), CallOK(t)', BookOK', positions' \in SUBSET Markets,
         dataStale' \in [Ticks -> BOOLEAN], ctxCount' \in [Ticks -> Nat],
         holding' \in [Markets -> Nat], reported' \in [Markets -> Nat]
  PROVE  IInv'
<1>1. TypeOK /\ WarmupLeft
  BY DEF IInv
<1>2. QED
  BY <1>1, SegmentOK DEF Quiet, TypeOK, WarmupLeft

\* The segments of the exit loop.
LEMMA ExitStep ==
  ASSUME IInv, NEW t \in Ticks,
         \/ SubmitExit(t) \/ ExitRefused(t) \/ ExitThrows(t) \/ ExitAccepted(t) \/ ExitDone(t)
  PROVE  IInv'
<1> DEFINE SameBook == positions' = positions /\ holding' = holding /\ reported' = reported
<1>1. TypeOK /\ BookOK /\ CallOK(t)
  BY DEF IInv
<1>2. pc[t] \in Exiting /\ Quiet /\ Kept
  BY DEF SubmitExit, ExitRefused, ExitThrows, ExitAccepted, ExitDone, Exiting
<1>3. /\ todo[t] \subseteq positions /\ todo[t] \in SUBSET Markets
      /\ Cardinality(positions) <= ctxCount[t]
      /\ dataStale' \in [Ticks -> BOOLEAN] /\ ctxCount' \in [Ticks -> Nat] /\ ctxCount' = ctxCount
      /\ market[t] \in Markets \cup {NoMarket}
  BY <1>1, <1>2 DEF CallOK, Kept, TypeOK
<1>4. ASSUME SameBook, LocalsOK(t), CallOK(t)' PROVE IInv'
  <2>1. BookOK' /\ positions' \in SUBSET Markets /\ holding' \in [Markets -> Nat]
        /\ reported' \in [Markets -> Nat]
    BY <1>1, <1>4 DEF BookOK, TypeOK
  <2>2. pc[t] # "idle"
    BY <1>2 DEF Exiting
  <2>3. QED
    BY <1>2, <1>3, <1>4, <2>1, <2>2, QuietSegmentOK
<1>5. CASE SubmitExit(t)
  <2>1. LocalsOK(t) /\ pc'[t] = "exit_submit" /\ todo'[t] = todo[t] /\ market'[t] = market[t]
    BY <1>1, <1>3, <1>5, SuspendOK DEF SubmitExit, Awaits
  <2>2. SameBook /\ pc[t] = "exit_journal"
    BY <1>5 DEF SubmitExit, account
  <2>3. CallOK(t)'
    BY <1>1, <1>3, <2>1, <2>2 DEF CallOK, Exiting
  <2>4. QED
    BY <1>4, <2>1, <2>2, <2>3
<1>6. CASE ExitRefused(t)
  <2>1. LocalsOK(t) /\ pc'[t] = "exit_done" /\ todo'[t] = todo[t]
    BY <1>1, <1>3, <1>6, SuspendOK DEF ExitRefused, Awaits
  <2>2. SameBook
    BY <1>6 DEF ExitRefused, account
  <2>3. CallOK(t)'
    BY <1>1, <1>3, <2>1, <2>2 DEF CallOK, Exiting
  <2>4. QED
    BY <1>4, <2>1, <2>2, <2>3
<1>7. CASE ExitThrows(t) \/ ExitDone(t)
  <2>1. SameBook /\ Exits(t, todo[t])
    BY <1>7 DEF ExitThrows, ExitDone, account
  <2>2. LocalsOK(t) /\ CallOK(t)'
    BY <1>1, <1>3, <2>1, ExitsOK
  <2>3. QED
    BY <1>4, <2>1, <2>2
<1>8. CASE ExitAccepted(t)
  <2>1. market[t] \in positions \ todo[t] /\ positions' = positions \ {market[t]}
        /\ reported' = reported
    BY <1>1, <1>8 DEF ExitAccepted, CallOK
  <2>2. holding' \in [Markets -> Nat]
    <3>1. PICK q \in Fills : /\ q <= holding[market[t]]
                             /\ holding' = [holding EXCEPT ![market[t]] = @ - q]
      BY <1>8 DEF ExitAccepted
    <3>2. q \in Nat /\ holding[market[t]] \in Nat
      BY <1>1, <2>1, TickAssumption DEF TypeOK
    <3>3. holding[market[t]] - q \in Nat
      BY <3>1, <3>2
    <3>4. QED
      BY <1>1, <3>1, <3>3 DEF TypeOK
  <2>3. /\ IsFiniteSet(positions') /\ Cardinality(positions') = Cardinality(positions) - 1
        /\ Cardinality(positions) \in Nat
    BY <1>1, <2>1, FS_RemoveElement, FS_CardinalityType DEF BookOK
  <2>4. BookOK' /\ positions' \in SUBSET Markets
    BY <1>1, <2>1, <2>3, TickAssumption DEF BookOK, TypeOK
  <2>5. todo[t] \subseteq positions' /\ Cardinality(positions') <= ctxCount'[t]
    BY <1>1, <1>3, <2>1, <2>3 DEF TypeOK
  <2>6. LocalsOK(t) /\ CallOK(t)'
    <3>1. CASE Exits(t, todo[t])
      BY <1>1, <1>3, <2>5, <3>1, ExitsOK
    <3>2. CASE AwaitAt(t, "exit_done", market[t], todo[t])
      <4>1. LocalsOK(t) /\ pc'[t] = "exit_done" /\ todo'[t] = todo[t]
        BY <1>1, <1>3, <3>2, SuspendOK DEF Awaits
      <4>2. QED
        BY <2>5, <4>1 DEF CallOK, Exiting
    <3>3. QED
      BY <1>8, <3>1, <3>2 DEF ExitAccepted
  <2>7. pc[t] # "idle" /\ reported' \in [Markets -> Nat]
    BY <1>1, <1>2, <2>1 DEF Exiting, TypeOK
  <2>8. QED
    BY <1>2, <1>3, <2>2, <2>4, <2>6, <2>7, QuietSegmentOK
<1>9. QED
  BY <1>5, <1>6, <1>7, <1>8

\* The segments of the entry.
LEMMA EntryStep ==
  ASSUME IInv, NEW t \in Ticks,
         Entry(t) \/ EntryRefused(t) \/ EntryThrows(t) \/ EntryAccepted(t) \/ EntryDone(t)
  PROVE  IInv'
<1> DEFINE SameBook == positions' = positions /\ holding' = holding /\ reported' = reported
           Ended == dataStale' \in [Ticks -> BOOLEAN] /\ ctxCount' \in [Ticks -> Nat]
<1>1. TypeOK /\ BookOK /\ CallOK(t)
  BY DEF IInv
<1>2. pc[t] # "idle" /\ Quiet
  BY DEF Entry, EntryRefused, EntryThrows, EntryAccepted, EntryDone
<1>3. Kept => Ended
  BY <1>1 DEF Kept, TypeOK
<1>4. ASSUME SameBook, LocalsOK(t), CallOK(t)', Ended PROVE IInv'
  <2>1. BookOK' /\ positions' \in SUBSET Markets /\ holding' \in [Markets -> Nat]
        /\ reported' \in [Markets -> Nat]
    BY <1>1, <1>4 DEF BookOK, TypeOK
  <2>2. QED
    BY <1>2, <1>4, <2>1, QuietSegmentOK
<1>5. Return(t) => LocalsOK(t) /\ CallOK(t)' /\ Ended
  BY <1>1, ReturnOK
<1>6. CASE Entry(t)
  <2>1. SameBook /\ pc[t] = "exits_over"
    BY <1>6 DEF Entry, account
  <2>2. CASE Return(t)
    BY <1>4, <1>5, <2>1, <2>2
  <2>3. CASE Kept /\ AwaitAt(t, "block_journal", NoMarket, {})
    <3>1. LocalsOK(t) /\ pc'[t] = "block_journal" /\ todo'[t] = {}
      BY <1>1, <2>3, SuspendOK DEF Awaits
    <3>2. CallOK(t)'
      BY <3>1 DEF CallOK, Exiting
    <3>3. QED
      BY <1>3, <1>4, <2>1, <2>3, <3>1, <3>2
  <2>4. ASSUME NEW m \in Markets, Kept, PositionsGuardPasses(t),
               AwaitAt(t, "entry_submit", m, {})
        PROVE  IInv'
    <3>1. LocalsOK(t) /\ pc'[t] = "entry_submit" /\ todo'[t] = {} /\ market'[t] = m
      BY <1>1, <2>4, SuspendOK DEF Awaits
    <3>2. Cardinality(positions) < MaxPositions
      <4>1. Cardinality(positions) <= ctxCount[t] /\ ctxCount[t] \in Nat
        BY <1>1, <2>1 DEF CallOK, TypeOK
      <4>2. Cardinality(positions) \in Nat
        BY <1>1, FS_CardinalityType DEF BookOK
      <4>3. QED
        BY <2>4, <4>1, <4>2, TickAssumption DEF PositionsGuardPasses
    <3>3. CallOK(t)'
      BY <2>1, <3>1, <3>2 DEF CallOK, Exiting
    <3>4. QED
      BY <1>3, <1>4, <2>1, <2>4, <3>1, <3>3
  <2>5. QED
    BY <1>6, <2>2, <2>3, <2>4 DEF Entry
<1>7. CASE EntryRefused(t)
  <2>1. SameBook /\ Kept
    BY <1>7 DEF EntryRefused, account
  <2>2. LocalsOK(t) /\ pc'[t] = "entry_journal" /\ todo'[t] = {}
    <3>1. market[t] \in Markets \cup {NoMarket} /\ {} \in SUBSET Markets
      BY <1>1 DEF TypeOK
    <3>2. AwaitAt(t, "entry_journal", market[t], {}) /\ "entry_journal" \in Awaits
      BY <1>7 DEF EntryRefused, Awaits
    <3>3. QED
      BY <1>1, <3>1, <3>2, SuspendOK
  <2>3. CallOK(t)'
    BY <2>2 DEF CallOK, Exiting
  <2>4. QED
    BY <1>3, <1>4, <2>1, <2>2, <2>3
<1>8. CASE EntryThrows(t) \/ EntryDone(t)
  <2>1. SameBook /\ Return(t)
    BY <1>8 DEF EntryThrows, EntryDone, account
  <2>2. QED
    BY <1>4, <1>5, <2>1
<1>9. CASE EntryAccepted(t)
  <2>1. market[t] \in Markets /\ Cardinality(positions) < MaxPositions
    BY <1>1, <1>9 DEF EntryAccepted, CallOK
  <2>2. PICK q \in Fills :
          /\ holding' = [holding EXCEPT ![market[t]] = @ + q]
          /\ \/ /\ market[t] \in positions
                /\ reported' = [reported EXCEPT ![market[t]] = @ + q]
                /\ Return(t)
                /\ UNCHANGED positions
             \/ /\ market[t] \notin positions
                /\ positions' = positions \cup {market[t]}
                /\ AwaitAt(t, "entry_journal", market[t], {})
                /\ Kept /\ UNCHANGED reported
    BY <1>9 DEF EntryAccepted
  <2>3. q \in Nat
    BY TickAssumption
  <2>4. holding' \in [Markets -> Nat] /\ reported' \in [Markets -> Nat]
    BY <1>1, <2>1, <2>2, <2>3 DEF TypeOK
  <2>5. LocalsOK(t) /\ CallOK(t)' /\ Ended
    <3>1. CASE Return(t)
      BY <1>5, <3>1
    <3>2. CASE Kept /\ AwaitAt(t, "entry_journal", market[t], {})
      <4>1. LocalsOK(t) /\ pc'[t] = "entry_journal" /\ todo'[t] = {}
        BY <1>1, <2>1, <3>2, SuspendOK DEF Awaits
      <4>2. QED
        BY <1>3, <3>2, <4>1 DEF CallOK, Exiting
    <3>3. QED
      BY <2>2, <3>1, <3>2
  <2>6. BookOK' /\ positions' \in SUBSET Markets
    <3>1. CASE positions' = positions
      BY <1>1, <3>1 DEF BookOK, TypeOK
    <3>2. CASE positions' = positions \cup {market[t]} /\ market[t] \notin positions
      <4>1. /\ IsFiniteSet(positions') /\ Cardinality(positions') = Cardinality(positions) + 1
            /\ Cardinality(positions) \in Nat
        BY <1>1, <3>2, FS_AddElement, FS_CardinalityType DEF BookOK
      <4>2. QED
        BY <1>1, <2>1, <3>2, <4>1, TickAssumption DEF BookOK, TypeOK
    <3>3. QED
      BY <2>2, <3>1, <3>2
  <2>7. QED
    BY <1>2, <2>4, <2>5, <2>6, QuietSegmentOK
<1>10. QED
  BY <1>6, <1>7, <1>8, <1>9

\* The operator and the clock run between the segments and touch no call.
LEMMA EnvironmentStep ==
  ASSUME IInv, Operate \/ Silence \/ UNCHANGED vars
  PROVE  IInv'
<1>1. TypeOK /\ WarmupLeft /\ BookOK
  BY DEF IInv
<1>2. UNCHANGED <<tickCount, tickInProgress, locals, account, positions>>
  BY DEF Operate, Silence, vars, shared
<1>3. strategyState' \in StrategyState /\ WarmupLeft'
  <2>1. CASE Operate
    <3>1. PICK type \in {"pause", "resume", "enter_closing_only", "halt", "shutdown"} :
            strategyState \in From[type] /\ strategyState' = transition(strategyState, type)
      BY <2>1 DEF Operate
    <3>2. type \in DOMAIN From
      BY DEF From
    <3>3. QED
      BY <1>1, <3>1, <3>2, TransitionType DEF WarmupLeft, TypeOK
  <2>2. CASE strategyState' = strategyState
    BY <1>1, <1>2, <2>2 DEF WarmupLeft, TypeOK
  <2>3. QED
    BY <2>1, <2>2 DEF Silence, vars, shared
<1>4. watchdog' \in {"healthy", "degraded", "critical"}
  BY <1>1 DEF Operate, Silence, vars, shared, TypeOK
<1>5. TypeOK'
  BY <1>1, <1>2, <1>3, <1>4 DEF TypeOK, locals, account
<1>6. OneCall' /\ BookOK' /\ \A t \in Ticks : CallOK(t)'
  BY <1>2 DEF IInv, OneCall, BookOK, CallOK, locals
<1>7. QED
  BY <1>3, <1>5, <1>6 DEF IInv

-----------------------------------------------------------------------------
(* The inductive invariant and what follows from it.                       *)

\* Every action, of a call or of its environment, preserves the invariant.
LEMMA IInvStep ==
  ASSUME IInv, [Next]_vars
  PROVE  IInv'
BY BeginStep, ExitStep, EntryStep, EnvironmentStep DEF Next, Resume

\* At most one call is suspended, and it finds the book as it left it.
THEOREM InductiveInvariant == Spec => []IInv
<1>1. Init => IInv
  <2> SUFFICES ASSUME Init PROVE IInv
    OBVIOUS
  <2>1. IsFiniteSet({}) /\ Cardinality({}) = 0
    BY FS_EmptySet
  <2>2. TypeOK
    <3>1. tickCount \in 0..WarmupTicks
      BY TickAssumption DEF Init
    <3>2. /\ positions \in SUBSET Markets /\ todo \in [Ticks -> SUBSET Markets]
          /\ dataStale \in [Ticks -> BOOLEAN] /\ tickInProgress \in BOOLEAN
      BY DEF Init
    <3>3. QED
      BY <3>1, <3>2 DEF Init, TypeOK, StrategyState
  <2>3. OneCall /\ WarmupLeft
    BY DEF Init, OneCall, WarmupLeft
  <2>4. BookOK
    BY <2>1, TickAssumption DEF Init, BookOK
  <2>5. \A t \in Ticks : CallOK(t)
    BY DEF Init, CallOK, Exiting
  <2>6. QED
    BY <2>2, <2>3, <2>4, <2>5 DEF IInv
<1>2. IInv /\ [Next]_vars => IInv'
  BY IInvStep
<1>3. QED
  BY <1>1, <1>2, PTL DEF Spec

\* Every reachable state has the declared shape; the warm-up count never exceeds its target.
THEOREM TypeCorrect == Spec => []TypeOK
<1>1. IInv => TypeOK
  BY DEF IInv
<1>2. QED
  BY <1>1, InductiveInvariant, PTL

\* A call never acts on a position that was closed while it was suspended.
THEOREM SnapshotStaysCurrent == Spec => []SnapshotCurrent
<1>1. IInv => SnapshotCurrent
  BY DEF IInv, CallOK, SnapshotCurrent
<1>2. QED
  BY <1>1, InductiveInvariant, PTL

\* The book keeps to the limit of MaxPositionsGuard for any number of markets and calls.
THEOREM LimitIsRespected == Spec => []MaxPositionsRespected
<1>1. IInv => MaxPositionsRespected
  BY DEF IInv, BookOK, MaxPositionsRespected
<1>2. QED
  BY <1>1, InductiveInvariant, PTL

\* An entry is sent only by an active strategy whose data was fresh as the tick began.
THEOREM EntriesAreChecked == Spec => EntryOnlyWhileActive
<1> DEFINE Checked == \A t \in Ticks : pc[t] # "entry_submit" /\ pc'[t] = "entry_submit" =>
                                         strategyState' = "active" /\ ~dataStale'[t]
<1>1. ASSUME IInv, Next, NEW t \in Ticks, pc[t] # "entry_submit", pc'[t] = "entry_submit"
      PROVE  strategyState' = "active" /\ ~dataStale'[t]
  <2>1. pc \in [Ticks -> Awaits \cup {"idle"}]
    BY <1>1 DEF IInv, TypeOK
  <2>2. ASSUME NEW u \in Ticks, Entry(u) PROVE strategyState' = "active" /\ ~dataStale'[t]
    BY <1>1, <2>1, <2>2 DEF Entry, AwaitAt, Return, Quiet, Kept, canOpen
  <2>3. ASSUME NEW u \in Ticks, Begin(u) \/ (Resume(u) /\ ~Entry(u)) PROVE pc'[t] # "entry_submit"
    BY <1>1, <2>1, <2>3 DEF Begin, Resume, SubmitExit, ExitRefused, ExitThrows, ExitAccepted, ExitDone,
       EntryRefused, EntryThrows, EntryAccepted, EntryDone, Exits, AwaitAt, Return
  <2>4. ASSUME Operate \/ Silence PROVE pc' = pc
    BY <2>4 DEF Operate, Silence, locals
  <2>5. QED
    BY <1>1, <2>2, <2>3, <2>4 DEF Next, Resume
<1>2. IInv /\ [Next]_vars => [Checked]_vars
  BY <1>1
<1>3. QED
  BY <1>2, InductiveInvariant, PTL DEF Spec, EntryOnlyWhileActive

\* With an executor that fills every accepted order, no fill is lost: each unit on the
\* account stands for an open position or was reported as untracked.
THEOREM FillsAreAccounted ==
  ASSUME Fills = {LotSize}
  PROVE  Spec => []EveryFillAccounted
<1> DEFINE Units(m) == reported[m] + IF m \in positions THEN LotSize ELSE 0
<1>1. Init => EveryFillAccounted
  BY DEF Init, EveryFillAccounted
<1>2. ASSUME IInv, EveryFillAccounted, [Next]_vars PROVE EveryFillAccounted'
  <2> SUFFICES ASSUME NEW m \in Markets PROVE holding'[m] = Units(m)'
    BY DEF EveryFillAccounted
  <2>1. /\ holding[m] = Units(m) /\ holding[m] \in Nat /\ reported[m] \in Nat
        /\ LotSize \in Nat /\ positions \subseteq Markets
        /\ holding \in [Markets -> Nat] /\ reported \in [Markets -> Nat]
    BY <1>2, TickAssumption DEF IInv, TypeOK, EveryFillAccounted
  <2>2. ASSUME UNCHANGED <<positions, account>> PROVE holding'[m] = Units(m)'
    BY <2>1, <2>2 DEF account
  <2>3. ASSUME NEW t \in Ticks, ExitAccepted(t) PROVE holding'[m] = Units(m)'
    <3>1. market[t] \in positions
      BY <1>2, <2>3 DEF IInv, CallOK, ExitAccepted
    <3>2. /\ holding' = [holding EXCEPT ![market[t]] = @ - LotSize]
          /\ positions' = positions \ {market[t]} /\ reported' = reported
      BY <2>3 DEF ExitAccepted
    <3>3. CASE m = market[t]
      BY <2>1, <3>1, <3>2, <3>3
    <3>4. CASE m # market[t]
      BY <2>1, <3>2, <3>4
    <3>5. QED
      BY <3>3, <3>4
  <2>4. ASSUME NEW t \in Ticks, EntryAccepted(t) PROVE holding'[m] = Units(m)'
    <3>1. /\ holding' = [holding EXCEPT ![market[t]] = @ + LotSize]
          /\ \/ /\ market[t] \in positions /\ positions' = positions
                /\ reported' = [reported EXCEPT ![market[t]] = @ + LotSize]
             \/ /\ market[t] \notin positions /\ positions' = positions \cup {market[t]}
                /\ reported' = reported
      BY <2>4 DEF EntryAccepted
    <3>2. CASE m = market[t]
      BY <2>1, <3>1, <3>2
    <3>3. CASE m # market[t]
      BY <2>1, <3>1, <3>3
    <3>4. QED
      BY <3>2, <3>3
  <2>5. \/ UNCHANGED <<positions, account>>
        \/ \E t \in Ticks : ExitAccepted(t) \/ EntryAccepted(t)
    BY <1>2 DEF Next, Begin, Resume, SubmitExit, ExitRefused, ExitThrows, ExitDone, Entry,
                EntryRefused, EntryThrows, EntryDone, Operate, Silence, vars
  <2>6. QED
    BY <2>2, <2>3, <2>4, <2>5
<1>3. IInv /\ EveryFillAccounted /\ [Next]_vars => EveryFillAccounted'
  BY <1>2
<1>4. QED
  BY <1>1, <1>3, InductiveInvariant, PTL DEF Spec
=============================================================================
