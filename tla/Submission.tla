----------------------------- MODULE Submission -----------------------------
(***************************************************************************)
(* A submission: withRetry (src/execution/retry.ts) around ClobExecutor      *)
(* (src/execution/clob-executor.ts), whose requests pass the RateLimiter     *)
(* they share, race a timeout and may be repeated.                          *)
(*                                                                         *)
(* A call is suspended while it polls for a token, while its request is      *)
(* under way and during the delay before the next attempt.  Each attempt is  *)
(* a request of its own; a request the timeout gave up is still under way,   *)
(* and the exchange may yet take it.  The exchange is the environment; of    *)
(* its orders only matters whether they are live or over, and "expired" is   *)
(* as good as "cancelled".                                                *)
(***************************************************************************)
EXTENDS RateLimiter

CONSTANTS MaxAttempts, \* maxAttempts of the retry configuration
          HasTimeout   \* whether requestTimeoutMs is set

ASSUME RetryAssumption == MaxAttempts \in Nat /\ HasTimeout \in BOOLEAN

\* There is always a first attempt.
Tries == IF MaxAttempts = 0 THEN 1 ELSE MaxAttempts
Requests == Calls \X (1..Tries)

VARIABLES
  pc,           \* where each call is
  attempt,      \* requests it has sent
  answer,       \* what its caller gets
  reply,        \* each request: not sent, travelling, what its sender is about to be told,
                \* or heard; late when its sender has given it up, unheard when that is over
  venue,        \* each request: the exchange's order, if it took one
  activeOrders, \* activeOrders of the executor
  cancelCall    \* each order's cancel: none, sent, late when given up, or its reply

submissionVars == <<pc, attempt, answer, reply, venue, activeOrders, cancelCall>>
vars == <<limiterVars, submissionVars>>

\* What an accepted order's reply is mapped to, and the two classes of errors.
FinalState == {"open", "partially_filled", "filled", "cancelled"}
Error == {"retryable", "fatal"}

TypeOK ==
  /\ LimiterTypeOK
  /\ pc \in [Calls -> {"new", "polling", "sent", "delay", "answered"}]
  /\ attempt \in [Calls -> 0..Tries]
  /\ answer \in [Calls -> {"none", "order", "error", "thrown"}]
  /\ reply \in [Requests -> FinalState \cup Error
                            \cup {"none", "travelling", "heard", "late", "unheard"}]
  /\ venue \in [Requests -> {"none", "live", "over"}]
  /\ activeOrders \in SUBSET Requests
  /\ cancelCall \in [Requests -> {"none", "sent", "late", "ok", "error"}]

Init ==
  /\ LimiterInit
  /\ pc = [c \in Calls |-> "new"]
  /\ attempt = [c \in Calls |-> 0]
  /\ answer = [c \in Calls |-> "none"]
  /\ reply = [r \in Requests |-> "none"]
  /\ venue = [r \in Requests |-> "none"]
  /\ activeOrders = {}
  /\ cancelCall = [r \in Requests |-> "none"]

-----------------------------------------------------------------------------
(* The executor and its retries.                                           *)

\* The request of the call's current attempt.
Current(c) == <<c, attempt[c]>>

\* The request leaves in the turn of the event loop in which its token was taken.
Sends(c) ==
  /\ pc' = [pc EXCEPT ![c] = "sent"]
  /\ attempt' = [attempt EXCEPT ![c] = @ + 1]
  /\ reply' = [reply EXCEPT ![<<c, attempt[c] + 1>>] = "travelling"]
  /\ UNCHANGED <<answer, venue, activeOrders, cancelCall>>

Answers(c, a) == pc' = [pc EXCEPT ![c] = "answered"] /\ answer' = [answer EXCEPT ![c] = a]

\* submit: the first attempt, and the next one when its delay is over.
submit(c) ==
  /\ pc[c] \in {"new", "delay"}
  /\ \/ acquire(c) /\ Sends(c)
     \/ /\ beginsToWait(c)
        /\ pc' = [pc EXCEPT ![c] = "polling"]
        /\ UNCHANGED <<attempt, answer, reply, venue, activeOrders, cancelCall>>

\* A caller that waited too long gets an exception, which the retry loop does not catch.
poll(c) ==
  /\ pc[c] = "polling"
  /\ \/ pollAcquires(c) /\ Sends(c)
     \/ pollMisses(c) /\ UNCHANGED submissionVars
     \/ /\ pollTimesOut(c)
        /\ Answers(c, "thrown")
        /\ UNCHANGED <<attempt, reply, venue, activeOrders, cancelCall>>

\* Mutant: one attempt too many.
retriesOnceMore(c) ==
  /\ UNCHANGED <<limiterVars, attempt, venue, activeOrders, cancelCall>>
  /\ \/ attempt[c] <= MaxAttempts /\ pc' = [pc EXCEPT ![c] = "delay"] /\ UNCHANGED answer
     \/ attempt[c] > MaxAttempts /\ Answers(c, "error")

\* Another attempt after a retryable error, as long as there is one left.
retries(c) ==
  /\ UNCHANGED <<limiterVars, attempt, venue, activeOrders, cancelCall>>
  /\ \/ attempt[c] < MaxAttempts /\ pc' = [pc EXCEPT ![c] = "delay"] /\ UNCHANGED answer
     \/ attempt[c] >= MaxAttempts /\ Answers(c, "error")

\* Mutant: an order that is not filled is tried again.
returnsWhenFilled(c) ==
  LET r == Current(c) IN
  /\ pc[c] = "sent" /\ reply[r] \in FinalState \cup Error
  /\ reply' = [reply EXCEPT ![r] = IF @ \in Error THEN @ ELSE "heard"]
  /\ \/ /\ reply[r] = "filled"
        /\ Answers(c, "order")
        /\ UNCHANGED <<limiterVars, attempt, venue, activeOrders, cancelCall>>
     \/ reply[r] # "filled" /\ retries(c)

\* Mutant: an order that is partly filled is not kept as active.
returnsPartialAsOver(c) ==
  LET r == Current(c) IN
  /\ pc[c] = "sent" /\ reply[r] \in FinalState \cup Error
  /\ reply' = [reply EXCEPT ![r] = IF @ \in Error THEN @ ELSE "heard"]
  /\ \/ reply[r] = "retryable" /\ retries(c)
     \/ /\ reply[r] # "retryable"
        /\ Answers(c, IF reply[r] = "fatal" THEN "error" ELSE "order")
        /\ activeOrders' = activeOrders \cup (IF reply[r] = "open" THEN {r} ELSE {})
        /\ UNCHANGED <<limiterVars, attempt, venue, cancelCall>>

\* The reply comes before the timeout.  An order that is not over is active.
returns(c) ==
  LET r == Current(c) IN
  /\ pc[c] = "sent" /\ reply[r] \in FinalState \cup Error
  /\ reply' = [reply EXCEPT ![r] = IF @ \in Error THEN @ ELSE "heard"]
  /\ \/ reply[r] = "retryable" /\ retries(c)
     \/ /\ reply[r] # "retryable"
        /\ Answers(c, IF reply[r] = "fatal" THEN "error" ELSE "order")
        /\ activeOrders' = activeOrders \cup
                           (IF reply[r] \in {"open", "partially_filled"} THEN {r} ELSE {})
        /\ UNCHANGED <<limiterVars, attempt, venue, cancelCall>>

\* Mutant: only the first attempt has a timer.
timeoutOfFirstOnly(c) ==
  /\ HasTimeout /\ pc[c] = "sent" /\ attempt[c] = 1
  /\ reply' = [reply EXCEPT ![Current(c)] = IF @ = "travelling" THEN "late" ELSE "unheard"]
  /\ retries(c)

\* The timeout comes first: a retryable error, whatever becomes of the request.
withTimeout(c) ==
  /\ HasTimeout /\ pc[c] = "sent"
  /\ reply' = [reply EXCEPT ![Current(c)] = IF @ = "travelling" THEN "late" ELSE "unheard"]
  /\ retries(c)

\* cancel of an order that is not active changes nothing.  What a cancel that was given up
\* may still do to an order that is cancelled again is the exchange's VenueEnds.
cancel(r) ==
  /\ r \in activeOrders /\ cancelCall[r] \in {"none", "late"}
  /\ cancelCall' = [cancelCall EXCEPT ![r] = "sent"]
  /\ UNCHANGED <<limiterVars, pc, attempt, answer, reply, venue, activeOrders>>

cancelReturns(r) ==
  /\ cancelCall[r] \in {"ok", "error"}
  /\ activeOrders' = IF cancelCall[r] = "ok" THEN activeOrders \ {r} ELSE activeOrders
  /\ cancelCall' = [cancelCall EXCEPT ![r] = "none"]
  /\ UNCHANGED <<limiterVars, pc, attempt, answer, reply, venue>>

cancelTimesOut(r) ==
  /\ HasTimeout /\ cancelCall[r] = "sent"
  /\ cancelCall' = [cancelCall EXCEPT ![r] = "late"]
  /\ UNCHANGED <<limiterVars, pc, attempt, answer, reply, venue, activeOrders>>

-----------------------------------------------------------------------------
(* The exchange.                                                           *)

\* The outcomes of a request the exchange takes, and what mapStatus makes of them: an order
\* that was partly filled and then killed is reported as partially filled.
Outcomes == {<<"live", "open">>, <<"live", "partially_filled">>, <<"over", "filled">>,
             <<"over", "partially_filled">>, <<"over", "cancelled">>}

Told(r, what) ==
  reply' = [reply EXCEPT ![r] = IF @ = "late" THEN "unheard" ELSE what]

\* A reply that is lost is an error to the sender, of a class that depends on how it is lost.
VenueTakes(r) ==
  /\ reply[r] \in {"travelling", "late"}
  /\ \E outcome \in Outcomes :
       /\ venue' = [venue EXCEPT ![r] = outcome[1]]
       /\ \E what \in {outcome[2]} \cup Error : Told(r, what)
  /\ UNCHANGED <<limiterVars, pc, attempt, answer, activeOrders, cancelCall>>

VenueRefuses(r) ==
  /\ reply[r] \in {"travelling", "late"}
  /\ \E e \in Error : Told(r, e)
  /\ UNCHANGED <<limiterVars, pc, attempt, answer, venue, activeOrders, cancelCall>>

VenueEnds(r) ==
  /\ venue[r] = "live"
  /\ venue' = [venue EXCEPT ![r] = "over"]
  /\ UNCHANGED <<limiterVars, pc, attempt, answer, reply, activeOrders, cancelCall>>

\* An error may be a refusal, or the loss of the request or of its reply; nobody hears the
\* reply to a late cancel.
VenueCancels(r) ==
  /\ cancelCall[r] \in {"sent", "late"}
  /\ \E told \in {"ok", "error"} :
       /\ cancelCall' = [cancelCall EXCEPT ![r] = IF @ = "late" THEN "none" ELSE told]
       /\ \/ venue[r] = "live" /\ venue' = [venue EXCEPT ![r] = "over"]
          \/ told = "error" /\ UNCHANGED venue
  /\ UNCHANGED <<limiterVars, pc, attempt, answer, reply, activeOrders>>

-----------------------------------------------------------------------------
Time == ClockStep /\ UNCHANGED submissionVars

Next ==
  \/ Time
  \/ \E c \in Calls : submit(c) \/ poll(c) \/ returns(c) \/ withTimeout(c)
  \/ \E r \in Requests : \/ cancel(r) \/ cancelReturns(r) \/ cancelTimesOut(r)
                         \/ VenueTakes(r) \/ VenueRefuses(r) \/ VenueEnds(r) \/ VenueCancels(r)

\* Time passes, intervals, timeouts and delays run out, and a reply that came is handled.
\* The exchange need not answer.
Fairness ==
  /\ WF_vars(Time)
  /\ \A c \in Calls : /\ WF_vars(poll(c))
                      /\ WF_vars(withTimeout(c) \/ returns(c))
                      /\ WF_vars(pc[c] = "delay" /\ submit(c))

Spec == Init /\ [][Next]_vars
FairSpec == Spec /\ Fairness

-----------------------------------------------------------------------------
(* Properties.                                                             *)

\* An intent is only sent again when its sender could not know that the exchange had taken
\* it: an earlier request that became an order was given up or lost its reply.
RepeatedUnknowingly ==
  \A r \in Requests : venue[r] # "none" /\ r[2] < attempt[r[1]]
    => reply[r] \in {"retryable", "unheard"}

\* An order that its caller was told is open can be cancelled as long as it is live: it stays
\* among the active orders whatever cancels time out, fail or come too late.
LiveIsCancellable ==
  \A r \in Requests : venue[r] = "live" /\ reply[r] = "heard" => r \in activeOrders

\* Every call is answered, by an order, an error or an exception, although the exchange may
\* never reply to any of its attempts and each of them competes for its token.
CallAnswered == \A c \in Calls : pc[c] # "new" ~> pc[c] = "answered"
=============================================================================
