-------------------------- MODULE ArbitrageExecutor --------------------------
(***************************************************************************)
(* Executing an arbitrage (src/market/arbitrage-executor.ts): the legs are    *)
(* submitted one after the other to an Executor, and when one fails those     *)
(* submitted before it are cancelled.  The executor is the ClobExecutor, with *)
(* the exchange behind it, or the PaperExecutor.  Each call of execute() is    *)
(* suspended at every await of the executor.                               *)
(*                                                                         *)
(* The exchange is the environment: it may refuse an order, keep silent until *)
(* the timeout and have taken it nevertheless, and fill it at any time.        *)
(***************************************************************************)
EXTENDS Opportunity, PaperExecutor

CONSTANTS Calls,   \* calls of execute(), each made once
          Configs, \* configurations given to create()
          Quotes,  \* the best prices a caller may see
          MaxTime  \* bound of the clock of the paper executor

Config == [feeRate : Int, safetyPct : Int, minNetProfit : Int, maxExposure : Int,
           availableBalance : Int]

ASSUME ArbAssumption == Configs \subseteq Config /\ Quotes \subseteq Quote /\ MaxTime \in Nat

VARIABLES
  config, \* the configuration create() accepted
  onPaper, \* whether the executor is the PaperExecutor
  paper,  \* its state
  now,    \* its clock
  call,   \* each call: where it is, its opportunity, the results and what became of the rollback
  reply,  \* what the executor answers the call that waits for it
  venue,  \* each leg's order at the exchange
  lost,   \* orders whose submission timed out
  active  \* activeOrders of the ClobExecutor

arbVars == <<config, onPaper, paper, now, call, reply, venue, lost, active>>

Orders == Calls \X {1, 2}
FinalState == {"open", "partially_filled", "filled", "cancelled"}
IsOver(result) == result \in {"filled", "cancelled"}

\* create: the configurations it accepts.
create(c) ==
  /\ c.feeRate \in 0..FeeUnit
  /\ c.safetyPct > 0 /\ c.safetyPct <= 100
  /\ c.minNetProfit >= 0
  /\ c.maxExposure > 0

CallPc == {"new", "submitting", "cancelling", "ok", "failed", "refused"}
Answer == FinalState \cup {"none", "waiting", "ok", "error"}

ArbTypeOK ==
  /\ config \in Configs /\ onPaper \in BOOLEAN /\ now \in 0..MaxTime
  /\ DOMAIN call = Calls
  /\ \A c \in Calls : LET k == call[c] IN
       /\ k.pc \in CallPc /\ k.size \in Nat
       /\ Len(k.outcomes) <= Len(k.results) /\ Len(k.results) <= 2
       /\ Range(k.outcomes) \subseteq {"cancelled", "cancel_failed"}
  /\ reply \in [Calls -> Answer]
  /\ venue \in [Orders -> FinalState \cup {"none", "travelling"}]
  /\ lost \subseteq Orders /\ active \subseteq Orders

NewCall == [pc |-> "new", opportunity |-> NoOpportunity, size |-> 0, order |-> 0,
            results |-> <<>>, outcomes |-> <<>>]

ArbInit ==
  /\ config \in {c \in Configs : create(c)}
  /\ onPaper \in BOOLEAN
  /\ paper \in {NewPaper(ratio) : ratio \in FillRatio}
  /\ (~onPaper => paper.ratio = "all")
  /\ now = 0
  /\ call = [c \in Calls |-> NewCall]
  /\ reply = [c \in Calls |-> "none"]
  /\ venue = [o \in Orders |-> "none"]
  /\ lost = {}
  /\ active = {}

-----------------------------------------------------------------------------
(* The executor.                                                           *)

\* The id the executor gives the order of a leg: on paper it is a number.
NextId(c, leg) == IF onPaper THEN paper.orderCounter + 1 ELSE <<c, leg>>

\* executor.submit of a call's next leg.  Paper answers at once, the exchange later.
submits(c, leg) ==
  IF onPaper
  THEN /\ paper' = paperSubmit(paper, now)
       /\ reply' = [reply EXCEPT ![c] = ResultOf(paper.ratio)]
       /\ UNCHANGED venue
  ELSE /\ venue' = [venue EXCEPT ![<<c, leg>>] = "travelling"]
       /\ reply' = [reply EXCEPT ![c] = "waiting"]
       /\ UNCHANGED paper

\* executor.cancel of an order, which both executors refuse unless they hold it as active.
cancels(c, id) ==
  IF onPaper
  THEN /\ paper' = paperCancel(paper, id)
       /\ reply' = [reply EXCEPT ![c] = IF paperIsActive(paper, id) THEN "ok" ELSE "error"]
       /\ UNCHANGED venue
  ELSE /\ reply' = [reply EXCEPT ![c] = IF id \in active THEN "waiting" ELSE "error"]
       /\ UNCHANGED <<paper, venue>>

\* The exchange takes an order and says what became of it, or refuses it.
VenueAnswers(c, leg) ==
  /\ reply[c] = "waiting" /\ venue[<<c, leg>>] = "travelling"
  /\ \E answer \in FinalState \cup {"error"} :
       /\ reply' = [reply EXCEPT ![c] = answer]
       /\ venue' = [venue EXCEPT ![<<c, leg>>] = IF answer = "error" THEN "none" ELSE answer]
  /\ UNCHANGED <<config, onPaper, paper, now, call, lost, active>>

\* The timeout of a submission comes first, whether or not the exchange takes the order.
SubmitTimesOut(c, leg) ==
  /\ reply[c] = "waiting" /\ venue[<<c, leg>>] = "travelling"
  /\ reply' = [reply EXCEPT ![c] = "error"]
  /\ \E taken \in {"none", "open"} : venue' = [venue EXCEPT ![<<c, leg>>] = taken]
  /\ lost' = lost \cup {<<c, leg>>}
  /\ UNCHANGED <<config, onPaper, paper, now, call, active>>

\* The order that a call's rollback is cancelling.
Cancelled(c) == call[c].results[Len(call[c].outcomes) + 1].id

IsLive(o) == venue[o] \in {"open", "partially_filled"}

\* The exchange cancels a live order and says so; a timeout may hide that, any other fails.
VenueCancels(c) ==
  /\ ~onPaper /\ reply[c] = "waiting" /\ call[c].pc = "cancelling"
  /\ LET o == Cancelled(c) IN
       \/ /\ IsLive(o)
          /\ venue' = [venue EXCEPT ![o] = "cancelled"]
          /\ \E answer \in {"ok", "error"} : reply' = [reply EXCEPT ![c] = answer]
       \/ reply' = [reply EXCEPT ![c] = "error"] /\ UNCHANGED venue
  /\ UNCHANGED <<config, onPaper, paper, now, call, lost, active>>

VenueFills(o) ==
  /\ IsLive(o)
  /\ \E more \in {"partially_filled", "filled"} : venue' = [venue EXCEPT ![o] = more]
  /\ UNCHANGED <<config, onPaper, paper, now, call, reply, lost, active>>

Pass ==
  /\ onPaper /\ now < MaxTime
  /\ now' = now + 1
  /\ UNCHANGED <<config, onPaper, paper, call, reply, venue, lost, active>>

-----------------------------------------------------------------------------
(* The arbitrage.                                                          *)

LegPrice(opportunity, leg) == IF leg = 1 THEN opportunity.yes ELSE opportunity.no

\* Mutant: the rollback begins with the second result.
rollbackFromSecond(c, k) ==
  IF Len(k.results) <= 1
  THEN /\ call' = [call EXCEPT ![c] = [k EXCEPT !.pc = "failed"]]
       /\ reply' = [reply EXCEPT ![c] = "none"]
       /\ UNCHANGED <<paper, venue>>
  ELSE /\ call' = [call EXCEPT ![c] = [k EXCEPT !.pc = "cancelling"]]
       /\ cancels(c, k.results[2].id)

\* rollbackAndFail: the next order to cancel, until every result has its outcome.
rollbackAndFail(c, k) ==
  IF Len(k.outcomes) = Len(k.results)
  THEN /\ call' = [call EXCEPT ![c] = [k EXCEPT !.pc = "failed"]]
       /\ reply' = [reply EXCEPT ![c] = "none"]
       /\ UNCHANGED <<paper, venue>>
  ELSE /\ call' = [call EXCEPT ![c] = [k EXCEPT !.pc = "cancelling"]]
       /\ cancels(c, k.results[Len(k.outcomes) + 1].id)

\* The next leg, whose order has a positive price; the size is positive already.
nextLeg(c, k) ==
  LET leg == Len(k.results) + 1 IN
  IF leg > 2
  THEN /\ call' = [call EXCEPT ![c] = [k EXCEPT !.pc = "ok"]]
       /\ reply' = [reply EXCEPT ![c] = "none"]
       /\ UNCHANGED <<paper, venue>>
  ELSE IF LegPrice(k.opportunity, leg) <= 0 THEN rollbackAndFail(c, k)
  ELSE /\ call' = [call EXCEPT ![c] = [k EXCEPT !.pc = "submitting", !.order = NextId(c, leg)]]
       /\ submits(c, leg)

\* execute: nothing is submitted for an opportunity too small, or without money for it.  The
\* safety factor is in percent, so the exposure and the balance count in hundredths.
execute(c, q) ==
  LET opportunity == checkArbitrage(q, config.feeRate)
      size == calcOptimalSize(opportunity, config.maxExposure * config.safetyPct,
                              100 * config.availableBalance)
      k == [NewCall EXCEPT !.opportunity = opportunity, !.size = size] IN
  /\ call[c].pc = "new" /\ opportunity # NoOpportunity
  /\ IF opportunity.net < config.minNetProfit \/ size = 0
     THEN /\ call' = [call EXCEPT ![c] = [k EXCEPT !.pc = "refused"]]
          /\ UNCHANGED <<reply, paper, venue>>
     ELSE nextLeg(c, k)
  /\ UNCHANGED <<config, onPaper, now, lost, active>>

\* The call goes on after its submission.
legReturns(c) ==
  LET k == call[c] IN
  /\ k.pc = "submitting" /\ reply[c] \notin {"none", "waiting"}
  /\ IF reply[c] = "error"
     THEN rollbackAndFail(c, k) /\ UNCHANGED active
     ELSE /\ nextLeg(c, [k EXCEPT !.results = Append(@, [id |-> k.order, result |-> reply[c]])])
          /\ active' = IF onPaper \/ IsOver(reply[c]) THEN active ELSE active \cup {k.order}
  /\ UNCHANGED <<config, onPaper, now, lost>>

\* The call goes on after a cancellation, whatever came of it.
cancelReturns(c) ==
  LET k == call[c] IN
  /\ k.pc = "cancelling" /\ reply[c] \notin {"none", "waiting"}
  /\ rollbackAndFail(c, [k EXCEPT !.outcomes =
       Append(@, IF reply[c] = "ok" THEN "cancelled" ELSE "cancel_failed")])
  /\ active' = IF reply[c] = "ok" /\ ~onPaper THEN active \ {Cancelled(c)} ELSE active
  /\ UNCHANGED <<config, onPaper, now, lost>>

ArbNext ==
  \/ \E c \in Calls :
       \/ \E q \in Quotes : execute(c, q)
       \/ legReturns(c)
       \/ cancelReturns(c)
       \/ VenueCancels(c)
       \/ \E leg \in {1, 2} : VenueAnswers(c, leg) \/ SubmitTimesOut(c, leg)
  \/ \E o \in Orders : VenueFills(o)
  \/ Pass

ArbSpec == ArbInit /\ [][ArbNext]_arbVars

-----------------------------------------------------------------------------
(* Properties.                                                             *)

\* A failed arbitrage leaves no order working at the exchange that its rollback could have
\* cancelled: only one whose cancellation is reported as failed, or whose submission timed out.
RollbackComplete ==
  \A c \in Calls : call[c].pc = "failed" =>
    LET k == call[c] IN
    \A leg \in {1, 2} : IsLive(<<c, leg>>) =>
      \/ <<c, leg>> \in lost
      \/ leg \in DOMAIN k.outcomes /\ k.outcomes[leg] = "cancel_failed"

\* The history of the paper executor holds one result of an order and, once it is swept for
\* its age, one cancellation more: nothing is swept twice or swept although it was cancelled.
SweptOnce ==
  \A id \in 1..paper.orderCounter :
    LET records == {i \in DOMAIN paper.fills : paper.fills[i].id = id} IN
    /\ Cardinality(records) <= 2
    /\ \A i, j \in records :
         i < j => paper.fills[j].result = "cancelled" /\ ~paperIsActive(paper, id)
=============================================================================
