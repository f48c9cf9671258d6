----------------------------- MODULE OrderFlow ------------------------------
(***************************************************************************)
(* An order from submission to its end: the OrderCoordinator                *)
(* (src/order/order-coordinator.ts), the OrderTracker on the same registry, *)
(* an Executor that calls the exchange, and the exchange's user feed.       *)
(* submit and cancel suspend at their await of the executor, so the feed,   *)
(* the timers and the other call run between the request and its reply.     *)
(*                                                                         *)
(* The executor and the exchange are the environment: an order is filled in *)
(* units, the feed reports every change in the exchange's order and may     *)
(* lose a message, and a call may fail after the exchange has acted on it.  *)
(* ClobExecutor and PaperExecutor give each order an id of their own, so     *)
(* neither knows the coordinator's; an Executor of the caller's may.        *)
(***************************************************************************)
EXTENDS OrderTracker

CONSTANTS LossyFeed, \* whether the user feed may lose a message
          KnowsIds   \* whether the executor knows an order by the coordinator's id

VARIABLES
  submitCall,  \* the coordinator's submit: none, sent, or the reply it will resume with
  cancelCall,  \* the coordinator's cancel: none, sent, or the reply it will resume with
  venue,       \* the exchange's order: its status and how much of it is filled
  feed,        \* messages of the user feed not yet handled
  lostAck      \* orders the exchange accepted although the submission failed

flowVars == <<submitCall, cancelCall, venue, feed, lostAck>>
allVars == <<vars, flowVars>>

FeedMessage == {"opened", "partial", "filled", "cancelled", "expired"}

FlowTypeOK ==
  /\ TypeOK
  /\ submitCall \in [Orders -> {"none", "sent", "error", "done"} \cup PendingState]
  /\ cancelCall \in [Orders -> {"none", "sent", "ok", "error", "unknown"}]
  /\ venue \in [Orders -> [status : {"none", "live", "filled", "dead"}, filled : Nat]]
  /\ \A o \in Orders : venue[o].filled <= OriginalSize[o]
  /\ feed \in [Orders -> Seq(FeedMessage)]
  /\ lostAck \in SUBSET Orders
  /\ \A o \in Orders : Len(announced[o]) <= 2

FlowInit ==
  /\ Init
  /\ submitCall = [o \in Orders |-> "none"]
  /\ cancelCall = [o \in Orders |-> "none"]
  /\ venue = [o \in Orders |-> [status |-> "none", filled |-> 0]]
  /\ feed = [o \in Orders |-> <<>>]
  /\ lostAck = {}

-----------------------------------------------------------------------------
(* The coordinator.                                                        *)

Submit(o) ==
  /\ track(o, "created")
  /\ submitCall' = [submitCall EXCEPT ![o] = "sent"]
  /\ UNCHANGED <<trackerVars, waiter, announced, cancelCall, venue, feed, lostAck>>

\* Two updates with no await between them, to submitted and to the state the reply reports:
\* the second overwrites whatever state the order reached while submit was suspended, and
\* keeps the stamp of a terminal one.  onComplete is called with that state, final or not.
SubmitSucceeds(o) ==
  /\ submitCall[o] \in PendingState
  /\ updateState(o, submitCall[o])
  /\ announced' = [announced EXCEPT ![o] = Append(@, submitCall[o])]
  /\ submitCall' = [submitCall EXCEPT ![o] = "done"]
  /\ UNCHANGED <<exchangeId, byMarketIndex, trackerVars, waiter, cancelCall, venue, feed, lostAck>>

SubmitFails(o) ==
  /\ submitCall[o] = "error"
  /\ updateState(o, "cancelled")
  /\ submitCall' = [submitCall EXCEPT ![o] = "done"]
  /\ UNCHANGED <<exchangeId, byMarketIndex, trackerVars, waiter, announced,
                 cancelCall, venue, feed, lostAck>>

\* The executor's promise rejects, as ClobExecutor's does when it waited too long for a token
\* of its rate limiter: submit rejects too, and the order stays in the registry as created.
SubmitThrows(o) ==
  /\ submitCall[o] = "sent"
  /\ submitCall' = [submitCall EXCEPT ![o] = "done"]
  /\ UNCHANGED <<vars, cancelCall, venue, feed, lostAck>>

Cancel(o) ==
  /\ Tracked(o) /\ cancelCall[o] = "none"
  /\ cancelCall' = [cancelCall EXCEPT ![o] = "sent"]
  /\ UNCHANGED <<vars, submitCall, venue, feed, lostAck>>

\* Mutant: the order is marked cancelled whatever the executor answered.
cancelIgnoresError(o) ==
  /\ cancelCall[o] \in {"ok", "error", "unknown"}
  /\ updateState(o, "cancelled")
  /\ cancelCall' = [cancelCall EXCEPT ![o] = "none"]
  /\ UNCHANGED <<exchangeId, byMarketIndex, trackerVars, waiter, announced,
                 submitCall, venue, feed, lostAck>>

CancelReturns(o) ==
  /\ cancelCall[o] \in {"ok", "error", "unknown"}
  /\ IF cancelCall[o] = "ok" THEN updateState(o, "cancelled") ELSE UNCHANGED <<state, terminalAt>>
  /\ cancelCall' = [cancelCall EXCEPT ![o] = "none"]
  /\ UNCHANGED <<exchangeId, byMarketIndex, trackerVars, waiter, announced,
                 submitCall, venue, feed, lostAck>>

-----------------------------------------------------------------------------
(* The exchange.                                                           *)

\* What the executor makes of the exchange's status and filled size.
mapStatus(o, status, filled) ==
  CASE status = "MATCHED" \/ filled >= OriginalSize[o] -> "filled"
    [] status # "MATCHED" /\ 0 < filled /\ filled < OriginalSize[o] -> "partially_filled"
    [] OTHER -> [LIVE |-> "open", CANCELLED |-> "cancelled", EXPIRED |-> "expired"][status]

\* Accepts the order and fills some of it at once; the rest stays live, or is killed as
\* the order's time in force demands.  The reply may be lost or time out.
VenueAccepts(o) ==
  /\ submitCall[o] = "sent"
  /\ \E q \in 0..OriginalSize[o], status \in {"LIVE", "MATCHED", "CANCELLED", "EXPIRED"} :
       LET ending == [LIVE |-> <<>>, MATCHED |-> <<>>,
                      CANCELLED |-> <<"cancelled">>, EXPIRED |-> <<"expired">>][status]
       IN
       /\ status = "MATCHED" <=> q = OriginalSize[o]
       /\ venue' = [venue EXCEPT ![o].filled = q,
                                 ![o].status = [LIVE |-> "live", MATCHED |-> "filled",
                                                CANCELLED |-> "dead", EXPIRED |-> "dead"][status]]
       /\ feed' = [feed EXCEPT ![o] =
            @ \o <<"opened">>
              \o [i \in 1..q |-> IF i = OriginalSize[o] THEN "filled" ELSE "partial"] \o ending]
       /\ \/ /\ submitCall' = [submitCall EXCEPT ![o] = mapStatus(o, status, q)]
             /\ UNCHANGED lostAck
          \/ /\ submitCall' = [submitCall EXCEPT ![o] = "error"]
             /\ lostAck' = lostAck \cup {o}
  /\ UNCHANGED <<vars, cancelCall>>

VenueRefuses(o) ==
  /\ submitCall[o] = "sent"
  /\ submitCall' = [submitCall EXCEPT ![o] = "error"]
  /\ UNCHANGED <<vars, cancelCall, venue, feed, lostAck>>

VenueFills(o) ==
  /\ venue[o].status = "live"
  /\ LET last == venue[o].filled + 1 = OriginalSize[o] IN
       /\ venue' = [venue EXCEPT ![o].filled = @ + 1,
                                 ![o].status = IF last THEN "filled" ELSE "live"]
       /\ feed' = [feed EXCEPT ![o] = Append(@, IF last THEN "filled" ELSE "partial")]
  /\ UNCHANGED <<vars, submitCall, cancelCall, lostAck>>

\* The exchange ends an order by itself.
VenueEnds(o) ==
  /\ venue[o].status = "live"
  /\ venue' = [venue EXCEPT ![o].status = "dead"]
  /\ \E msg \in {"cancelled", "expired"} : feed' = [feed EXCEPT ![o] = Append(@, msg)]
  /\ UNCHANGED <<vars, submitCall, cancelCall, lostAck>>

\* An executor that does not know the id answers by itself.  A cancel that the exchange
\* handles ends a live order; an error may be its refusal, or the loss of the request or reply.
VenueHandlesCancel(o) ==
  /\ cancelCall[o] = "sent"
  /\ \/ /\ KnowsIds /\ venue[o].status = "live"
        /\ venue' = [venue EXCEPT ![o].status = "dead"]
        /\ feed' = [feed EXCEPT ![o] = Append(@, "cancelled")]
        /\ \E reply \in {"ok", "error"} : cancelCall' = [cancelCall EXCEPT ![o] = reply]
     \/ /\ cancelCall' = [cancelCall EXCEPT ![o] = IF KnowsIds THEN "error" ELSE "unknown"]
        /\ UNCHANGED <<venue, feed>>
  /\ UNCHANGED <<vars, submitCall, lostAck>>

-----------------------------------------------------------------------------
(* The user feed and the tracker.                                          *)

Handle(o, msg) == CASE msg = "opened"    -> handleOpened(o)
                    [] msg = "partial"   -> handlePartialFill(o, 1)
                    [] msg = "filled"    -> handleFilled(o)
                    [] msg = "cancelled" -> handleCancelled(o)
                    [] msg = "expired"   -> handleExpired(o)

Target == [opened |-> "open", partial |-> "partially_filled", filled |-> "filled",
           cancelled |-> "cancelled", expired |-> "expired"]

\* A message that the transition table does not allow now is dropped for good.
Deliver(o) ==
  /\ feed[o] # <<>>
  /\ \/ Handle(o, Head(feed[o]))
     \/ /\ ~(Tracked(o) /\ canTransitionTo(state[o], Target[Head(feed[o])]))
        /\ UNCHANGED vars
  /\ feed' = [feed EXCEPT ![o] = Tail(@)]
  /\ UNCHANGED <<submitCall, cancelCall, venue, lostAck>>

Lose(o) ==
  /\ LossyFeed /\ feed[o] # <<>>
  /\ feed' = [feed EXCEPT ![o] = Tail(@)]
  /\ UNCHANGED <<vars, submitCall, cancelCall, venue, lostAck>>

\* The caller has the handle once submit has returned it.
RegisterHandle(o) ==
  /\ submitCall[o] = "done" /\ announced[o] # <<>> /\ o \notin handles
  /\ \E hasTimeout \in BOOLEAN : registerHandle(o, hasTimeout)

TrackerStep ==
  /\ \/ \E o \in Orders : RegisterHandle(o) \/ handleTimerFires(o) \/ Age(o)
     \/ \E o \in Orders, w \in Waiters : waitForOrder(w, o)
     \/ \E w \in Waiters : waiterTimerFires(w)
     \/ Cleanup
     \/ dispose
  /\ UNCHANGED flowVars

FlowNext ==
  \/ \E o \in Orders :
       \/ Submit(o) \/ SubmitSucceeds(o) \/ SubmitFails(o) \/ SubmitThrows(o)
       \/ Cancel(o) \/ CancelReturns(o)
       \/ VenueAccepts(o) \/ VenueRefuses(o) \/ VenueFills(o) \/ VenueEnds(o)
       \/ VenueHandlesCancel(o)
       \/ Deliver(o) \/ Lose(o)
  \/ TrackerStep

\* setTimeout callbacks run: an armed timer fires unless it is cleared first.  The exchange
\* and the executor owe nothing.
FlowFairness ==
  /\ \A o \in Orders : WF_allVars(handleTimerFires(o) /\ UNCHANGED flowVars)
  /\ \A w \in Waiters : WF_allVars(waiterTimerFires(w) /\ UNCHANGED flowVars)

FlowSpec == FlowInit /\ [][FlowNext]_allVars
FairFlowSpec == FlowSpec /\ FlowFairness

-----------------------------------------------------------------------------
(* Properties.                                                             *)

\* The size a result reports as filled is never more than the exchange has filled, with
\* replies and feed messages handled in any order and messages lost.
FilledNeverOverstated == FlowTypeOK /\ \A o \in Orders : filledAmounts[o] <= venue[o].filled

\* An order shown as cancelled cannot fill any more, except when the submission failed
\* after the exchange had accepted the order: a cancel that raced a fill or the late
\* reply of the submission never hides a live order.
CancelledIsDead ==
  \A o \in Orders : state[o] = "cancelled" => venue[o].status # "live" \/ o \in lostAck

\* The coordinator and the tracker both call onComplete; between them they report the end
\* of an order at most once, and nothing after the end.
EndReportedOnce ==
  \A o \in Orders : \A i \in DOMAIN announced[o] :
    isTerminal(announced[o][i]) => i = Len(announced[o])

\* With a positive default timeout, a promise that is alone in awaiting its order settles: by
\* the event that ends the order, by its timer or by dispose, in whatever order these come,
\* and also when the coordinator's cancel ends the order without a word to the tracker.
\* Without a timeout the promise of an order that is never reported as ended stays pending.
SoleWaiterSettles ==
  HasTimeout => \A w \in Waiters :
    waiter[w].status = "pending" ~>
      \/ waiter[w].status # "pending"
      \/ \E v \in Waiters \ {w} : waiter[v].order = waiter[w].order

\* "Supports awaitable completion via waitForOrder" (order-tracker.ts:6), for every
\* promise it hands out: the second call for an order takes the completion slot of the
\* first, and one of the two promises may stay pending for ever.
EveryWaiterSettles ==
  \A w \in Waiters : waiter[w].status = "pending" ~> waiter[w].status # "pending"

\* "Cancels a pending order" (order-coordinator.ts:107): the executor knows the order it is
\* asked to cancel as long as the order is live.  The coordinator passes its own id on, but
\* the executor has given the order another one.
CancelReachesExchange ==
  [][\A o \in Orders :
       cancelCall[o] = "sent" /\ cancelCall'[o] = "unknown" => venue[o].status # "live"]_flowVars
=============================================================================
